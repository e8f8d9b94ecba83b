------------------------ MODULE InboundPoller_proofs ------------------------
(***************************************************************************)
(* The safety properties of InboundPoller, proved for every number of      *)
(* posts, every page and gap size, every limit of attempts and every bound.*)
(*                                                                         *)
(* NoPostLost and FloorCovers look at the poller between two awaits, and   *)
(* neither is inductive.  What carries them is what the boot catch-up may  *)
(* rely on while it waits (CatchUp), that the queue knows what the process *)
(* believes admitted (AdmittedKnown), and that nothing the process holds   *)
(* is ahead of the channel (InSight).  TurnOnce rests on the two events a  *)
(* post may have, which are never both open (OneOpen).                     *)
(***************************************************************************)
EXTENDS InboundPoller, WellFoundedInduction, TLAPS

-----------------------------------------------------------------------------
(* The inductive invariant *)

\* The local variables of the loop at each await.
Loops ==
  [at : {"top"}, caught : {"done", "pending", "deferred"}] \cup [at : {"ready"}]
    \cup [at : {"gap"}, latest : 0 .. MaxPosts, readp : 0 .. MaxPosts]
    \cup [at : {"replay"}, trigger : Posts, newest : 0 .. MaxPosts]
    \cup [at : {"poll"}, posts : SUBSET Posts]

Covered(p) == Handled(p) \/ p \in excused

\* The boot catch-up is still to come or under way.
Booting == loop.at \in {"gap", "replay"} \/ (loop.at = "top" /\ loop.caught # "done")

\* Nothing the process holds or asks for is ahead of the channel.
InSight ==
  /\ asks \subseteq Visible /\ wire \subseteq Visible
  /\ readp <= latest /\ baseline <= latest
  /\ ack.want <= latest /\ ack.target <= latest
  /\ loop.at = "poll" => loop.posts \subseteq Visible
  /\ \A i \in DOMAIN admitting : admitting[i].post <= latest

AdmittedKnown == \A p \in admitted : Handled(p)

\* Until the catch-up is over nobody else observes or acknowledges: what the pointer
\* covers was covered before this process began, and the rest is up to the catch-up.
CatchUp ==
  Booting =>
    /\ ~ws /\ wire = {} /\ admitted = {} /\ admitting = <<>> /\ ack = NoAck
    /\ \A p \in asks : p <= readp => Covered(p)
    /\ loop.at = "top" => baseline = NoBaseline
    /\ loop.at = "gap" =>
         loop.readp = readp /\ loop.latest <= latest /\ baseline = Max({readp, loop.latest})
    /\ loop.at = "replay" =>
         /\ loop.trigger <= loop.newest /\ loop.newest <= latest
         /\ \A p \in asks : p <= baseline => p <= loop.trigger \/ Covered(p)

\* The lanes: the claimed event is the one whose turn runs, what waits was not tried
\* too often, and only a post as it came waits on the question lane.
Lanes ==
  /\ \A e \in EventIds : queue[e].state = "claimed" <=> e = turn
  /\ \A e \in EventIds : queue[e].state = "queued" => queue[e].tries < MaxAttempts
  /\ \A e \in EventIds : queue[e].lane = "question" => e = EventOf(e.post)

MovedEvent(p) == [post |-> p, kind |-> "turn"]

\* A post has its second event only once the first one is settled; a turn that ended
\* well leaves neither open.
OneOpen ==
  \A p \in Posts :
    /\ queue[MovedEvent(p)].state # "unknown" => queue[EventOf(p)].state = "done"
    /\ turns[p] # 0 =>
         /\ turns[p] = 1 /\ queue[EventOf(p)].state = "done"
         /\ queue[MovedEvent(p)].state \in {"unknown", "done"}

IInv ==
  /\ TypeOK /\ loop \in Loops
  /\ InSight /\ AdmittedKnown /\ CatchUp /\ FloorCovers /\ Lanes /\ OneOpen

-----------------------------------------------------------------------------
(* Least and greatest *)

\* A set of numbers has a least one; FiniteSetsExt picks it, and the greatest.
LEMMA LeastOfNat ==
  ASSUME NEW S \in SUBSET Nat, S # {}
  PROVE  \E x \in S : \A y \in S : x <= y
  <1> DEFINE R == {ss \in Nat \X Nat : ss[1] < ss[2]}
  <1>1. \A x, y \in Nat : x < y => <<x, y>> \in R
    OBVIOUS
  <1>2. PICK x \in S : \A y \in S : <<y, x>> \notin R
    <2>1. IsWellFoundedOn(R, Nat)
      BY NatLessThanWellFounded, Zenon DEF OpToRel
    <2> HIDE DEF R
    <2> QED BY <2>1, WFMin
  <1>3. \A y \in S : x <= y
    <2> TAKE y \in S
    <2>1. x \in Nat /\ y \in Nat
      OBVIOUS
    <2>2. <<y, x>> \notin R
      BY <1>2
    <2>3. ~(y < x)
      BY <1>1, <2>1, <2>2
    <2> QED BY <2>1, <2>3
  <1> QED BY <1>3

LEMMA MinOfNat ==
  ASSUME NEW S \in SUBSET Nat, S # {}
  PROVE  Min(S) \in S /\ \A y \in S : Min(S) <= y
  <1>1. \E x \in S : \A y \in S : x <= y
    BY LeastOfNat
  <1> QED BY <1>1 DEF Min

LEMMA MaxOfBounded ==
  ASSUME NEW b \in Int, NEW S \in SUBSET Int, S # {}, \A x \in S : x <= b
  PROVE  Max(S) \in S /\ \A y \in S : y <= Max(S)
  <1> DEFINE T == {b - x : x \in S}
  <1>1. T \in SUBSET Nat /\ T # {}
    <2>1. \A x \in S : b - x \in Nat
      OBVIOUS
    <2>2. \E x \in S : b - x \in T
      OBVIOUS
    <2> QED BY <2>1, <2>2
  <1>2. PICK t \in T : \A y \in T : t <= y
    BY <1>1, LeastOfNat
  <1>3. PICK x \in S : t = b - x
    BY <1>2
  <1>4. \A y \in S : x >= y
    BY <1>2, <1>3
  <1>5. \E z \in S : \A y \in S : z >= y
    BY <1>4
  <1> QED BY <1>5 DEF Max

LEMMA MaxOfTwo ==
  ASSUME NEW a \in Int, NEW b \in Int
  PROVE  Max({a, b}) = IF a <= b THEN b ELSE a
  <1> DEFINE m == IF a <= b THEN b ELSE a
  <1>1. m \in {a, b} /\ \A y \in {a, b} : m >= y
    OBVIOUS
  <1>2. Max({a, b}) \in {a, b} /\ \A y \in {a, b} : Max({a, b}) >= y
    BY <1>1 DEF Max
  <1> QED BY <1>2
LEMMA MaxWith ==
  ASSUME NEW b \in Nat, NEW S \in SUBSET (0 .. b), NEW r \in 0 .. b
  PROVE  /\ Max(S \cup {r}) \in S \cup {r} /\ Max(S \cup {r}) \in 0 .. b
         /\ \A y \in S \cup {r} : y <= Max(S \cup {r})
  <1> DEFINE T == S \cup {r}
  <1>1. \A x \in T : x \in 0 .. b
    OBVIOUS
  <1>2. b \in Int /\ T \in SUBSET Int /\ T # {} /\ \A x \in T : x <= b
    BY <1>1
  <1> HIDE DEF T
  <1>3. Max(T) \in T /\ \A y \in T : y <= Max(T)
    BY <1>2, MaxOfBounded
  <1> QED BY <1>1, <1>3 DEF T

-----------------------------------------------------------------------------
(* What a step does *)

\* The steps of the two lanes.
Delivery ==
  \/ TurnStarts \/ TurnAsks \/ QuestionExpires \/ TurnEnds \/ TurnFails
  \/ AnswerDelivered \/ AnswerFails

LEMMA DeliveryKeeps ==
  ASSUME Delivery
  PROVE  UNCHANGED <<server, process, ack>>
  BY DEF Delivery, TurnStarts, TurnAsks, QuestionExpires, TurnEnds, TurnFails,
         AnswerDelivered, AnswerFails

\* Nothing but the lanes, an admission and a crash changes the queue.
Admits == Admitted \/ ReplayAdmitted

\* The rest: server, socket and loop.
Elsewhere ==
  \/ \E addressed \in BOOLEAN : Post(addressed)
  \/ Nap \/ SocketDrops \/ AckFails \/ AdmissionFails \/ ListFails \/ GapFails \/ ReplayFails
  \/ PollFails \/ AckServed \/ Receive \/ ListSkipped \/ ControlArrives \/ GapDrained
  \/ PollServed \/ PollArrives \/ SocketOpens

LEMMA Steps ==
  ASSUME [Next]_vars
  PROVE  Elsewhere \/ Admits \/ Crash \/ Delivery \/ UNCHANGED vars
  BY DEF Next, Loop, Deliver, Faulty, Elsewhere, Admits, Delivery

LEMMA ElsewhereKeeps ==
  ASSUME Elsewhere
  PROVE  UNCHANGED <<lanes, turns>>
  BY DEF Elsewhere, Post, Nap, SocketDrops, AckFails, AdmissionFails, ListFails, GapFails,
         ReplayFails, PollFails, AckServed, Receive, ListSkipped, ControlArrives, GapDrained,
         PollServed, PollArrives, SocketOpens, lanes, hist

LEMMA AckReadType ==
  ASSUME ack \in [sent : 0 .. MaxPosts, want : 0 .. MaxPosts, target : 0 .. MaxPosts],
         NEW p \in 0 .. MaxPosts, AckRead(p)
  PROVE  /\ ack' \in [sent : 0 .. MaxPosts, want : 0 .. MaxPosts, target : 0 .. MaxPosts]
         /\ ack'.want \in {ack.want, p} /\ ack'.target \in {ack.target, p}
  <1> DEFINE a == Wanted(ack, p)
  <1>1. /\ a \in [sent : 0 .. MaxPosts, want : 0 .. MaxPosts, target : 0 .. MaxPosts]
        /\ a.want \in {ack.want, p} /\ a.target = ack.target
        /\ a.want > ack.want => a.want = p
    BY DEF Wanted
  <1>2. ack' = IF a.target = 0 /\ a.want > ack.want THEN [a EXCEPT !.target = a.want] ELSE a
    BY DEF AckRead
  <1> HIDE DEF a
  <1> QED BY <1>1, <1>2

-----------------------------------------------------------------------------
(* Types, and that nothing held is ahead of the channel *)

Sight == TypeOK /\ loop \in Loops /\ InSight

LEMMA Sizes ==
  /\ MaxPosts \in Nat \ {0} /\ Page \in Nat \ {0} /\ Gap \in Nat \ {0}
  /\ MaxAttempts \in Nat \ {0} /\ MaxUpsets \in Nat
  BY PollerAssumption DEF PollerAssumption

LEMMA UpTo ==
  ASSUME NEW n \in 0 .. MaxPosts
  PROVE  1 .. n \subseteq Posts /\ 1 .. (n - 1) \subseteq Posts
  BY Sizes DEF Posts

LEMMA SetsInSight ==
  ASSUME TypeOK
  PROVE  /\ Visible \subseteq Posts /\ NewestPage \subseteq Visible
         /\ \A r \in Int : Behind(r) \subseteq Visible /\ Drained(r) \subseteq Visible
  <1>1. Visible \subseteq Posts
    BY Sizes DEF TypeOK, Visible, Posts
  <1>2. NewestPage \subseteq Visible /\ \A r \in Int : Behind(r) \subseteq Visible
    BY DEF NewestPage, Behind
  <1> QED BY <1>1, <1>2 DEF Drained

LEMMA ElementOf ==
  ASSUME NEW S, NEW s \in Seq(S)
  PROVE  \A i \in DOMAIN s : s[i] \in S
  OBVIOUS

LEMMA AppendElements ==
  ASSUME NEW S, NEW s \in Seq(S), NEW a \in S
  PROVE  /\ Append(s, a) \in Seq(S)
         /\ \A i \in DOMAIN Append(s, a) :
              Append(s, a)[i] = a \/ (i \in DOMAIN s /\ Append(s, a)[i] = s[i])
  OBVIOUS

LEMMA TailElements ==
  ASSUME NEW S, NEW s \in Seq(S), s # <<>>
  PROVE  /\ Head(s) \in S /\ Tail(s) \in Seq(S)
         /\ 1 \in DOMAIN s /\ Head(s) = s[1]
         /\ \A i \in DOMAIN Tail(s) : i + 1 \in DOMAIN s /\ Tail(s)[i] = s[i + 1]
  OBVIOUS

LEMMA ObserveSight ==
  ASSUME Sight, NEW p \in Visible, NEW source, Observe(p, source)
  PROVE  /\ admitting' \in Seq([post : Posts, lane : {"turn", "question"}])
         /\ \A i \in DOMAIN admitting' : admitting'[i].post <= latest
  <1> DEFINE a == [post |-> p, lane |-> LaneOf(p)]
  <1>1. a \in [post : Posts, lane : {"turn", "question"}] /\ a.post <= latest
    BY SetsInSight DEF Sight, LaneOf, Visible, TypeOK
  <1>2. admitting' = Append(admitting, a) \/ admitting' = admitting
    BY DEF Observe
  <1> HIDE DEF a
  <1>3. /\ admitting \in Seq([post : Posts, lane : {"turn", "question"}])
        /\ \A i \in DOMAIN admitting : admitting[i].post <= latest
    BY DEF Sight, TypeOK, InSight
  <1>4. CASE admitting' = Append(admitting, a)
    <2> DEFINE R == [post : Posts, lane : {"turn", "question"}]
    <2>1. a \in R /\ admitting \in Seq(R)
      BY <1>1, <1>3
    <2> HIDE DEF R
    <2>2. /\ Append(admitting, a) \in Seq(R)
          /\ \A i \in DOMAIN Append(admitting, a) :
               Append(admitting, a)[i] = a
                 \/ (i \in DOMAIN admitting /\ Append(admitting, a)[i] = admitting[i])
      BY <2>1, AppendElements
    <2> QED BY <1>1, <1>3, <1>4, <2>2, Zenon DEF R
  <1>5. CASE admitting' = admitting
    BY <1>3, <1>5
  <1> QED BY <1>2, <1>4, <1>5

LEMMA TailSight ==
  ASSUME Sight, admitting # <<>>
  PROVE  /\ Head(admitting) \in [post : Posts, lane : {"turn", "question"}]
         /\ Head(admitting).post <= latest
         /\ Tail(admitting) \in Seq([post : Posts, lane : {"turn", "question"}])
         /\ \A i \in DOMAIN Tail(admitting) : Tail(admitting)[i].post <= latest
  <1>1. /\ admitting \in Seq([post : Posts, lane : {"turn", "question"}])
        /\ \A i \in DOMAIN admitting : admitting[i].post <= latest
    BY DEF Sight, TypeOK, InSight
  <1> QED BY <1>1, TailElements

LEMMA ServerSight ==
  ASSUME Sight, \/ \E addressed \in BOOLEAN : Post(addressed)
                \/ Nap \/ SocketDrops \/ AckServed \/ AckFails
  PROVE  Sight'
  <1> USE Sizes
  <1>1. CASE \E addressed \in BOOLEAN : Post(addressed)
    <2>1. /\ latest' \in 0 .. MaxPosts /\ latest' = latest + 1
          /\ asks' \in SUBSET (1 .. latest') /\ wire' \in SUBSET (1 .. latest')
          /\ UNCHANGED <<readp, napping, ws, loop, snoozed, baseline, admitted, admitting, ack, lanes, hist>>
      BY <1>1 DEF Post, Sight, TypeOK, InSight, Visible
    <2>2. TypeOK'
      BY <2>1 DEF Sight, TypeOK, Posts, lanes, hist
    <2>3. loop' \in Loops
      BY <2>1 DEF Sight
    <2>4. InSight'
      <3>1. /\ latest \in Nat /\ latest' = latest + 1
            /\ readp \in Int /\ baseline \in Int /\ ack.want \in Int /\ ack.target \in Int
        BY <2>1 DEF Sight, TypeOK, NoPointer, NoBaseline
      <3>2. \A i \in DOMAIN admitting : admitting[i].post \in Nat
        <4> DEFINE R == [post : Posts, lane : {"turn", "question"}]
        <4>1. admitting \in Seq(R)
          BY DEF Sight, TypeOK
        <4>2. \A i \in DOMAIN admitting : admitting[i] \in R
          <5> HIDE DEF R
          <5> QED BY <4>1, ElementOf
        <4> QED BY <4>2 DEF Posts
      <3>3. \A i \in DOMAIN admitting' : admitting'[i].post <= latest'
        BY <2>1, <3>1, <3>2 DEF Sight, InSight
      <3>4. loop'.at = "poll" => loop'.posts \subseteq 1 .. latest'
        BY <2>1, <3>1 DEF Sight, InSight, Visible
      <3> QED BY <2>1, <3>1, <3>3, <3>4 DEF Sight, InSight, Visible
    <2> QED BY <2>2, <2>3, <2>4 DEF Sight, Loops
  <1>2. CASE Nap
    BY <1>2 DEF Nap, Sight, TypeOK, InSight, Visible, Posts, Loops, process, hist, lanes
  <1>3. CASE SocketDrops
    BY <1>3 DEF SocketDrops, Closed, Sight, TypeOK, InSight, Visible, Posts, Loops, server, hist, lanes
  <1>4. CASE AckServed \/ AckFails
    <2>1. ack.target \in 0 .. latest /\ readp \in NoPointer .. latest
      BY DEF Sight, TypeOK, InSight
    <2>2. Max({readp, ack.target}) \in NoPointer .. latest
      <3>1. ack.target \in Int /\ readp \in Int
        BY <2>1 DEF NoPointer, Sight, TypeOK
      <3>2. Max({readp, ack.target}) = IF readp <= ack.target THEN ack.target ELSE readp
        BY <3>1, MaxOfTwo
      <3> QED BY <2>1, <3>2 DEF Sight, TypeOK, NoPointer
    <2>3. readp' \in NoPointer .. latest
      BY <1>4, <2>1, <2>2 DEF AckServed, AckFails
    <2>4. /\ ack' \in [sent : 0 .. MaxPosts, want : 0 .. MaxPosts, target : 0 .. MaxPosts]
          /\ ack'.want <= latest /\ ack'.target <= latest
      <3>1. ack' = [ack EXCEPT !.target = 0]
              \/ ack' = [ack EXCEPT !.sent = ack.target,
                                    !.target = IF ack.target < ack.want THEN ack.want ELSE 0]
        BY <1>4 DEF AckServed, AckFails
      <3>2. /\ ack \in [sent : 0 .. MaxPosts, want : 0 .. MaxPosts, target : 0 .. MaxPosts]
            /\ ack.want <= latest /\ latest \in 0 .. MaxPosts
        BY DEF Sight, TypeOK, InSight
      <3>3. CASE ack' = [ack EXCEPT !.target = 0]
        BY <3>2, <3>3
      <3>4. CASE ack' = [ack EXCEPT !.sent = ack.target,
                                    !.target = IF ack.target < ack.want THEN ack.want ELSE 0]
        <4> DEFINE t == IF ack.target < ack.want THEN ack.want ELSE 0
        <4>1. t \in 0 .. MaxPosts /\ t <= latest /\ ack.target \in 0 .. MaxPosts
          BY <3>2, <2>1
        <4>2. ack' = [ack EXCEPT !.sent = ack.target, !.target = t]
          BY <3>4
        <4> HIDE DEF t
        <4> QED BY <3>2, <4>1, <4>2
      <3> QED BY <3>1, <3>3, <3>4
    <2>5. UNCHANGED <<asks, latest, napping, process, lanes, hist>>
      BY <1>4 DEF AckServed, AckFails
    <2>6. TypeOK'
      BY <2>3, <2>4, <2>5 DEF Sight, TypeOK, process, lanes, hist
    <2>7. InSight' /\ loop' \in Loops
      BY <2>3, <2>4, <2>5 DEF Sight, TypeOK, InSight, Visible, NoPointer, process
    <2> QED BY <2>6, <2>7 DEF Sight, Loops
  <1> QED BY <1>1, <1>2, <1>3, <1>4

LEMMA ReceiveSight ==
  ASSUME Sight, Receive \/ AdmissionFails
  PROVE  Sight'
  <1>1. wire' \in SUBSET Visible
    <2>1. CASE Receive
      BY <2>1 DEF Receive, Sight, InSight
    <2>2. CASE AdmissionFails
      BY <2>2 DEF AdmissionFails, Sight, InSight
    <2> QED BY <2>1, <2>2
  <1>2. /\ admitting' \in Seq([post : Posts, lane : {"turn", "question"}])
        /\ \A i \in DOMAIN admitting' : admitting'[i].post <= latest
    <2>1. CASE Receive
      <3>1. wire \in SUBSET Nat /\ wire # {} /\ wire \subseteq Visible
        BY <2>1 DEF Receive, Sight, InSight, Visible
      <3>2. Min(wire) \in Visible /\ Observe(Min(wire), "ws")
        BY <2>1, <3>1, MinOfNat DEF Receive
      <3> QED BY <3>2, ObserveSight
    <2>2. CASE AdmissionFails
      BY <2>2, TailSight DEF AdmissionFails
    <2> QED BY <2>1, <2>2
  <1>3. UNCHANGED <<server, ws, loop, snoozed, baseline, admitted, ack, lanes, hist>>
    BY DEF Receive, AdmissionFails
  <1> QED BY <1>1, <1>2, <1>3, SetsInSight
          DEF Sight, TypeOK, InSight, Visible, Posts, Loops, server, lanes, hist

LEMMA AdmitsSight ==
  ASSUME Sight, CatchUp, Admits
  PROVE  /\ asks' \subseteq Posts /\ latest' = latest /\ readp' = readp /\ napping' = napping
         /\ wire' = wire /\ ws' = ws /\ loop' \in Loops /\ snoozed' = snoozed
         /\ baseline' = baseline /\ admitted' \subseteq Posts
         /\ admitting' \in Seq([post : Posts, lane : {"turn", "question"}])
         /\ ack' \in [sent : 0 .. MaxPosts, want : 0 .. MaxPosts, target : 0 .. MaxPosts]
         /\ InSight'
  <1> DEFINE Acks == [sent : 0 .. MaxPosts, want : 0 .. MaxPosts, target : 0 .. MaxPosts]
  <1>1. PICK p \in 0 .. MaxPosts : p <= latest /\ AckRead(p)
    <2>1. CASE Admitted
      BY <2>1, TailSight, Sizes DEF Admitted, Posts
    <2>2. CASE ReplayAdmitted
      BY <2>2 DEF ReplayAdmitted, CatchUp, Booting, Sight, Loops
    <2> QED BY <2>1, <2>2 DEF Admits
  <1>2. ack' \in Acks /\ ack'.want \in {ack.want, p} /\ ack'.target \in {ack.target, p}
    BY <1>1, AckReadType DEF Sight, TypeOK
  <1>3. admitted' \subseteq Posts
    <2>1. CASE Admitted
      BY <2>1, TailSight DEF Admitted, Sight, TypeOK
    <2>2. CASE ReplayAdmitted
      BY <2>2 DEF ReplayAdmitted, Sight, TypeOK, Loops
    <2> QED BY <2>1, <2>2 DEF Admits
  <1>4. /\ admitting' \in Seq([post : Posts, lane : {"turn", "question"}])
        /\ \A i \in DOMAIN admitting' : admitting'[i].post <= latest
    <2>1. CASE Admitted
      BY <2>1, TailSight DEF Admitted
    <2>2. CASE ReplayAdmitted
      BY <2>2 DEF ReplayAdmitted, Sight, TypeOK, InSight
    <2> QED BY <2>1, <2>2 DEF Admits
  <1>5. loop' = loop \/ loop' = Ready
    BY DEF Admits, Admitted, ReplayAdmitted
  <1>6. loop' \in Loops /\ (loop'.at = "poll" => loop' = loop)
    BY <1>5 DEF Ready, Sight, Loops
  <1>7. UNCHANGED <<server, ws, wire, snoozed, baseline>>
    BY DEF Admits, Admitted, ReplayAdmitted
  <1>8. InSight'
    BY <1>1, <1>2, <1>4, <1>6, <1>7 DEF Sight, InSight, Visible, server
  <1> QED BY <1>2, <1>3, <1>4, <1>6, <1>7, <1>8 DEF Sight, TypeOK, server

\* The loop's steps that leave the socket's posts, the admissions and the floor alone.
LEMMA FailsSight ==
  ASSUME Sight, ListFails \/ GapFails \/ ReplayFails \/ PollFails \/ PollServed
  PROVE  Sight'
  <1>1. loop' \in Loops /\ (loop'.at = "poll" => loop'.posts \subseteq Visible)
    <2>1. CASE loop' = [at |-> "poll", posts |-> NewestPage]
      BY <2>1, SetsInSight DEF Loops, Sight
    <2>2. CASE loop' \in {Ready, Top, [Boot EXCEPT !.caught = "deferred"]}
      BY <2>2 DEF Ready, Top, Boot, Loops
    <2> QED BY <2>1, <2>2 DEF ListFails, GapFails, ReplayFails, PollFails, PollServed
  <1>2. excused' \subseteq Posts
    <2>1. CASE ListFails
      BY <2>1, SetsInSight DEF ListFails, Sight, TypeOK
    <2>2. CASE GapFails
      BY <2>2, SetsInSight DEF GapFails, Behind, Sight, TypeOK
    <2>3. CASE ReplayFails
      <3>1. loop.newest \in 0 .. MaxPosts
        BY <2>3 DEF ReplayFails, Sight, Loops
      <3>2. excused' = excused \cup 1 .. loop.newest
        BY <2>3 DEF ReplayFails
      <3> QED BY <3>1, <3>2, UpTo DEF Sight, TypeOK
    <2>4. CASE PollFails
      BY <2>4 DEF PollFails, Sight, TypeOK, hist
    <2>5. CASE PollServed
      BY <2>5, SetsInSight DEF PollServed, Unobserved, Sight, TypeOK
    <2> QED BY <2>1, <2>2, <2>3, <2>4, <2>5
  <1>3. UNCHANGED <<server, ws, wire, snoozed, baseline, admitted, admitting, ack, lanes, turns>>
    BY DEF ListFails, GapFails, ReplayFails, PollFails, PollServed, hist
  <1>4. TypeOK'
    <2>1. loop'.at \in {"top", "gap", "replay", "ready", "poll"}
      BY <1>1 DEF Loops
    <2> QED BY <1>2, <1>3, <2>1 DEF Sight, TypeOK, server, lanes
  <1>5. InSight'
    BY <1>1, <1>3 DEF Sight, InSight, Visible, server
  <1> QED BY <1>1, <1>4, <1>5 DEF Sight, Loops

LEMMA SeededSight ==
  ASSUME Sight, Seeded(latest)
  PROVE  /\ baseline' \in NoBaseline .. latest /\ excused' \subseteq Posts
         /\ excused \subseteq excused'
         /\ baseline' = baseline \/ 1 .. baseline' \subseteq excused'
  <1>1. latest \in 0 .. MaxPosts /\ baseline \in NoBaseline .. latest /\ excused \subseteq Posts
    BY DEF Sight, TypeOK, InSight, NoBaseline
  <1>2. CASE baseline' = latest /\ excused' = excused \cup 1 .. latest
    BY <1>1, <1>2, UpTo DEF NoBaseline
  <1>3. CASE UNCHANGED <<baseline, excused>>
    BY <1>1, <1>3
  <1> QED BY <1>2, <1>3 DEF Seeded

LEMMA PassOverSight ==
  ASSUME Sight, PassOver(latest)
  PROVE  /\ baseline' = latest /\ excused' = excused \cup 1 .. latest /\ excused' \subseteq Posts
         /\ ack' \in [sent : 0 .. MaxPosts, want : 0 .. MaxPosts, target : 0 .. MaxPosts]
         /\ ack'.want <= latest /\ ack'.target <= latest
  <1>1. /\ latest \in 0 .. MaxPosts /\ baseline \in Int /\ baseline <= latest /\ excused \subseteq Posts
        /\ ack \in [sent : 0 .. MaxPosts, want : 0 .. MaxPosts, target : 0 .. MaxPosts]
        /\ ack.want <= latest /\ ack.target <= latest
    BY DEF Sight, TypeOK, InSight, NoBaseline
  <1>2. Max({baseline, latest}) = latest
    BY <1>1, MaxOfTwo
  <1>3. /\ ack' \in [sent : 0 .. MaxPosts, want : 0 .. MaxPosts, target : 0 .. MaxPosts]
        /\ ack'.want \in {ack.want, latest} /\ ack'.target \in {ack.target, latest}
    BY <1>1, AckReadType DEF PassOver
  <1> QED BY <1>1, <1>2, <1>3, UpTo DEF PassOver

\* What the channel list starts: it raises the floor over posts it passes over, or to
\* what the catch-up is to read.
LEMMA ControlOutcome ==
  ASSUME Sight, CatchUp, ControlArrives
  PROVE  \/ /\ baseline' \in NoBaseline .. latest /\ excused' \subseteq Posts
            /\ excused \subseteq excused'
            /\ baseline' = baseline \/ 1 .. baseline' \subseteq excused'
            /\ loop' = Ready \/ loop' = [Top EXCEPT !.caught = loop.caught]
            /\ loop.caught = "done" \/ UNCHANGED baseline \/ loop' = Ready
            /\ ack' \in [sent : 0 .. MaxPosts, want : 0 .. MaxPosts, target : 0 .. MaxPosts]
            /\ ack'.want <= latest /\ ack'.target <= latest
         \/ /\ readp # NoPointer /\ loop.caught # "done"
            /\ baseline' = Max({readp, latest}) /\ UNCHANGED <<excused, ack, ws, wire>>
            /\ \/ loop' = [at |-> "gap", latest |-> latest, readp |-> readp]
               \/ loop' = Ready /\ baseline' = readp
  <1>1. /\ latest \in 0 .. MaxPosts /\ baseline \in NoBaseline .. latest /\ excused \subseteq Posts
        /\ ack \in [sent : 0 .. MaxPosts, want : 0 .. MaxPosts, target : 0 .. MaxPosts]
        /\ ack.want <= latest /\ ack.target <= latest /\ readp \in NoPointer .. latest
    BY DEF Sight, TypeOK, InSight, NoBaseline, NoPointer
  <1>2. CASE napping
    <2>1. loop' = [Top EXCEPT !.caught = loop.caught] /\ UNCHANGED ack
      BY <1>2 DEF ControlArrives
    <2>2. CASE loop.caught = "done"
      BY <1>1, <1>2, <2>1, <2>2, SeededSight DEF ControlArrives
    <2>3. CASE loop.caught # "done"
      BY <1>1, <1>2, <2>1, <2>3 DEF ControlArrives
    <2> QED BY <2>2, <2>3
  <1>3. CASE ~napping /\ loop.caught = "done"
    <2>1. loop' = Ready
      BY <1>3 DEF ControlArrives, Unsnoozed
    <2>2. CASE PassOver(latest)
      BY <1>1, <1>3, <2>1, <2>2, PassOverSight DEF NoBaseline
    <2>3. CASE Seeded(latest) /\ UNCHANGED ack
      BY <1>1, <1>3, <2>1, <2>3, SeededSight
    <2> QED BY <1>3, <2>2, <2>3 DEF ControlArrives, Unsnoozed
  <1>4. CASE ~napping /\ loop.caught # "done"
    <2>1. StartCatchUp /\ UNCHANGED <<ws, wire>>
      BY <1>4 DEF ControlArrives
    <2>2. CASE readp = NoPointer
      <3>1. loop' = Ready
        BY <2>1, <2>2 DEF StartCatchUp
      <3>2. PassOver(latest) \/ UNCHANGED <<baseline, ack, excused>>
        BY <2>1, <2>2 DEF StartCatchUp
      <3>3. CASE PassOver(latest)
        BY <1>1, <3>1, <3>3, PassOverSight DEF NoBaseline
      <3>4. CASE UNCHANGED <<baseline, ack, excused>>
        BY <1>1, <3>1, <3>4
      <3> QED BY <3>2, <3>3, <3>4
    <2>3. CASE readp # NoPointer
      <3>1. /\ baseline' = Max({readp, latest}) /\ UNCHANGED <<ack, excused>>
            /\ loop' = IF Behindhand THEN [at |-> "gap", latest |-> latest, readp |-> readp] ELSE Ready
        BY <2>1, <2>3 DEF StartCatchUp
      <3>2. ~Behindhand => baseline' = readp
        <4>1. readp \in Int /\ latest \in Int
          BY <1>1 DEF NoPointer
        <4> QED BY <3>1, <4>1, MaxOfTwo DEF Behindhand
      <3> QED BY <1>4, <2>1, <2>3, <3>1, <3>2
    <2> QED BY <2>2, <2>3
  <1> QED BY <1>2, <1>3, <1>4

LEMMA ControlSight ==
  ASSUME Sight, CatchUp, ControlArrives
  PROVE  Sight'
  <1>1. /\ latest \in 0 .. MaxPosts /\ readp \in NoPointer .. latest
        /\ loop.at = "top" /\ loop.caught \in {"done", "pending", "deferred"}
        /\ ack \in [sent : 0 .. MaxPosts, want : 0 .. MaxPosts, target : 0 .. MaxPosts]
        /\ ack.want <= latest /\ ack.target <= latest /\ excused \subseteq Posts
    BY DEF Sight, TypeOK, InSight, Loops, NoPointer, ControlArrives
  <1>2. /\ baseline' \in NoBaseline .. latest /\ excused' \subseteq Posts
        /\ ack' \in [sent : 0 .. MaxPosts, want : 0 .. MaxPosts, target : 0 .. MaxPosts]
        /\ ack'.want <= latest /\ ack'.target <= latest
    <2>1. CASE readp # NoPointer /\ baseline' = Max({readp, latest}) /\ UNCHANGED <<excused, ack>>
      <3>1. readp \in 0 .. latest /\ Max({readp, latest}) = latest
        BY <1>1, <2>1, MaxOfTwo DEF NoPointer
      <3> QED BY <1>1, <2>1, <3>1 DEF NoBaseline
    <2> QED BY <2>1, ControlOutcome
  <1>3. loop' \in Loops /\ loop'.at # "poll" /\ loop'.at \in {"top", "gap", "ready"}
    <2>1. CASE loop' = Ready \/ loop' = [Top EXCEPT !.caught = loop.caught]
      BY <1>1, <2>1 DEF Ready, Top, Loops
    <2>2. CASE readp # NoPointer /\ loop' = [at |-> "gap", latest |-> latest, readp |-> readp]
      BY <1>1, <2>2, Sizes DEF Loops, NoPointer
    <2> QED BY <2>1, <2>2, ControlOutcome
  <1>4. wire' \subseteq wire /\ ws' \in BOOLEAN /\ snoozed' \in BOOLEAN
    BY DEF ControlArrives, Closed, Sight, TypeOK
  <1>5. UNCHANGED <<server, admitted, admitting, lanes, turns>>
    BY DEF ControlArrives
  <1>6. baseline' \in NoBaseline .. MaxPosts /\ baseline' <= latest
    BY <1>1, <1>2, Sizes DEF NoBaseline
  <1>7. TypeOK'
    BY <1>2, <1>3, <1>4, <1>5, <1>6 DEF Sight, TypeOK, server, lanes
  <1>8. InSight'
    BY <1>2, <1>3, <1>4, <1>5, <1>6 DEF Sight, InSight, Visible, server
  <1> QED BY <1>3, <1>7, <1>8 DEF Sight, Loops

\* What the drained gap holds: its newest post ends it, and below it the posts it left
\* out are excused.
LEMMA GapOutcome ==
  ASSUME Sight, CatchUp, GapDrained
  PROVE  LET posts == Drained(readp)
             newest == Max(posts \cup {readp})
         IN  /\ posts \subseteq Visible /\ newest \in readp .. latest
             /\ \A p \in posts : p <= newest
             /\ baseline' \in newest .. latest
             /\ excused \subseteq excused' /\ excused' \subseteq Posts
             /\ \A p \in Behind(readp) : p \in posts \/ p \in excused'
             /\ ack' = ack \/ AckRead(newest)
             /\ \/ posts \cap asks = {} /\ loop' = Ready
                \/ /\ posts \cap asks # {}
                   /\ loop' = [at |-> "replay", trigger |-> Max(posts \cap asks), newest |-> newest]
                   /\ Max(posts \cap asks) \in posts \cap asks
                   /\ \A p \in posts \cap asks : p <= Max(posts \cap asks)
  <1> DEFINE posts == Drained(readp)
             newest == Max(posts \cup {readp})
             addressed == posts \cap asks
  <1>1. /\ loop.at = "gap" /\ loop.readp = readp /\ loop.latest \in 0 .. latest
        /\ readp \in 0 .. latest /\ latest \in 0 .. MaxPosts
    BY DEF GapDrained, CatchUp, Booting, Sight, TypeOK, InSight, Loops
  <1>2. posts \subseteq Visible /\ readp \in Int
    BY <1>1, SetsInSight DEF Sight
  <1>3. newest \in 0 .. latest /\ \A p \in posts \cup {readp} : p <= newest
    <2>1. posts \in SUBSET (0 .. latest) /\ latest \in Nat
      BY <1>1, <1>2 DEF Visible
    <2> HIDE DEF posts
    <2> QED BY <1>1, <2>1, MaxWith
  <1>4. /\ baseline' = Max({newest, loop.latest})
        /\ excused' = IF Overflows(readp) THEN excused \cup (Behind(readp) \ posts) ELSE excused
        /\ GapAck(newest, addressed)
        /\ loop' = IF addressed = {} THEN Ready
                   ELSE [at |-> "replay", trigger |-> Max(addressed), newest |-> newest]
    BY <1>1 DEF GapDrained
  <1>5. \A p \in Behind(readp) : p \in posts \/ p \in excused'
    BY <1>4 DEF Drained
  <1>6. excused \subseteq excused' /\ excused' \subseteq Posts
    BY <1>2, <1>4, SetsInSight DEF Sight, TypeOK
  <1>7. addressed # {} => Max(addressed) \in addressed /\ \A p \in addressed : p <= Max(addressed)
    <2>1. latest \in Int /\ addressed \in SUBSET Int /\ \A p \in addressed : p <= latest
      BY <1>1, <1>2 DEF Visible
    <2> HIDE DEF addressed
    <2> QED BY <2>1, MaxOfBounded
  <1>8. baseline' \in newest .. latest
    <2> HIDE DEF newest
    <2>1. newest \in Int /\ loop.latest \in Int
      BY <1>1, <1>3
    <2>2. baseline' = IF newest <= loop.latest THEN loop.latest ELSE newest
      BY <1>4, <2>1, MaxOfTwo
    <2> QED BY <1>1, <1>3, <2>2
  <1>9. ack' = ack \/ AckRead(newest)
    BY <1>4 DEF GapAck
  <1> HIDE DEF posts, newest, addressed
  <1>10. newest \in readp .. latest
    BY <1>1, <1>3
  <1> QED BY <1>2, <1>3, <1>4, <1>5, <1>6, <1>7, <1>8, <1>9, <1>10, Zenon DEF posts, newest, addressed

LEMMA GapSight ==
  ASSUME Sight, CatchUp, GapDrained
  PROVE  Sight'
  <1> DEFINE posts == Drained(readp)
             newest == Max(posts \cup {readp})
             trigger == Max(posts \cap asks)
  <1>1. /\ posts \subseteq Visible /\ newest \in readp .. latest /\ baseline' \in newest .. latest
        /\ excused' \subseteq Posts /\ (ack' = ack \/ AckRead(newest))
        /\ \/ loop' = Ready
           \/ /\ loop' = [at |-> "replay", trigger |-> trigger, newest |-> newest]
              /\ trigger \in posts
    BY GapOutcome
  <1> HIDE DEF posts, newest, trigger
  <1>2. readp \in 0 .. latest /\ latest \in 0 .. MaxPosts
    BY DEF GapDrained, CatchUp, Booting, Sight, TypeOK, InSight, Loops
  <1>3. newest \in 0 .. MaxPosts /\ newest <= latest /\ baseline' \in NoBaseline .. MaxPosts /\ baseline' <= latest
    BY <1>1, <1>2, Sizes DEF NoBaseline
  <1>4. /\ ack' \in [sent : 0 .. MaxPosts, want : 0 .. MaxPosts, target : 0 .. MaxPosts]
        /\ ack'.want <= latest /\ ack'.target <= latest
    <2>1. /\ ack \in [sent : 0 .. MaxPosts, want : 0 .. MaxPosts, target : 0 .. MaxPosts]
          /\ ack.want <= latest /\ ack.target <= latest
      BY DEF Sight, TypeOK, InSight
    <2>2. CASE AckRead(newest)
      BY <1>3, <2>1, <2>2, AckReadType
    <2>3. CASE ack' = ack
      BY <2>1, <2>3
    <2> QED BY <1>1, <2>2, <2>3
  <1>5. loop' \in Loops /\ loop'.at \in {"replay", "ready"}
    <2>1. CASE loop' = Ready
      BY <2>1 DEF Ready, Loops
    <2>2. CASE loop' = [at |-> "replay", trigger |-> trigger, newest |-> newest] /\ trigger \in posts
      BY <1>1, <1>3, <2>2, SetsInSight DEF Loops, Sight
    <2> QED BY <1>1, <2>1, <2>2
  <1>6. UNCHANGED <<server, ws, wire, snoozed, admitted, admitting, lanes, turns>>
    BY DEF GapDrained
  <1>7. TypeOK'
    BY <1>1, <1>3, <1>4, <1>5, <1>6 DEF Sight, TypeOK, server, lanes
  <1>8. InSight'
    BY <1>3, <1>4, <1>5, <1>6 DEF Sight, InSight, Visible, server
  <1> QED BY <1>5, <1>7, <1>8 DEF Sight, Loops

LEMMA SocketSight ==
  ASSUME Sight, SocketOpens \/ ListSkipped
  PROVE  Sight'
  <1>1. CASE SocketOpens
    <2>1. baseline' \in NoBaseline .. latest /\ excused' \subseteq Posts
      BY <1>1, SeededSight DEF SocketOpens
    <2>2. latest \in 0 .. MaxPosts
      BY DEF Sight, TypeOK
    <2>3. baseline' \in NoBaseline .. MaxPosts /\ baseline' <= latest
      BY <2>1, <2>2, Sizes DEF NoBaseline
    <2>4. /\ ws' = TRUE /\ snoozed' \in BOOLEAN
          /\ UNCHANGED <<server, wire, loop, admitted, admitting, ack, lanes, turns>>
      BY <1>1 DEF SocketOpens, Sight, TypeOK
    <2>5. TypeOK'
      BY <2>1, <2>3, <2>4 DEF Sight, TypeOK, server, lanes
    <2>6. InSight'
      BY <2>3, <2>4 DEF Sight, InSight, Visible, server
    <2> QED BY <2>4, <2>5, <2>6 DEF Sight, Loops
  <1>2. CASE ListSkipped
    <2>1. loop' \in Loops /\ loop'.at \in {"top", "ready"}
      BY <1>2 DEF ListSkipped, Ready, Loops, Sight
    <2>2. wire' \subseteq wire /\ ws' \in BOOLEAN
      BY <1>2 DEF ListSkipped, Closed, Sight, TypeOK
    <2>3. UNCHANGED <<server, snoozed, baseline, admitted, admitting, ack, lanes, hist>>
      BY <1>2 DEF ListSkipped
    <2>4. TypeOK'
      BY <2>1, <2>2, <2>3 DEF Sight, TypeOK, server, lanes, hist
    <2>5. InSight'
      BY <2>1, <2>2, <2>3 DEF Sight, InSight, Visible, server
    <2> QED BY <2>1, <2>4, <2>5 DEF Sight, Loops
  <1> QED BY <1>1, <1>2

\* The first poll of a channel without a floor passes over what it shows.
LEMMA PollOutcome ==
  ASSUME Sight, PollArrives
  PROVE  /\ loop.at = "poll" /\ loop.posts \subseteq Visible
         /\ baseline' \in NoBaseline .. latest /\ excused \subseteq excused' /\ excused' \subseteq Posts
         /\ baseline' = baseline \/ (baseline = NoBaseline /\ 1 .. baseline' \subseteq excused')
         /\ loop' = Top \/ (loop'.at = "poll" /\ loop' \in Loops /\ loop'.posts \subseteq Visible)
         /\ admitting' = admitting
              \/ \E p \in Visible : Observe(p, "poll")
  <1>1. /\ loop.at = "poll" /\ loop.posts \subseteq Visible /\ loop.posts \subseteq Posts
        /\ latest \in 0 .. MaxPosts /\ baseline \in NoBaseline .. latest /\ excused \subseteq Posts
    BY DEF PollArrives, Sight, TypeOK, InSight, Loops, NoBaseline
  <1>2. CASE baseline = NoBaseline
    <2> DEFINE m == Max(loop.posts \cup {0})
    <2>1. m \in 0 .. latest
      <3>1. loop.posts \in SUBSET (0 .. latest) /\ latest \in Nat /\ 0 \in 0 .. latest
        BY <1>1 DEF Visible
      <3> QED BY <3>1, MaxWith
    <2>2. baseline' = m /\ excused' = excused \cup 1 .. m /\ loop' = Top /\ UNCHANGED admitting
      BY <1>2 DEF PollArrives
    <2> HIDE DEF m
    <2> QED BY <1>1, <1>2, <2>1, <2>2, UpTo DEF NoBaseline
  <1>3. CASE baseline # NoBaseline
    <2>1. UNCHANGED <<baseline, excused>>
      BY <1>3 DEF PollArrives
    <2>2. CASE loop.posts = {}
      BY <1>1, <1>3, <2>1, <2>2 DEF PollArrives
    <2>3. CASE loop.posts # {}
      <3> DEFINE p == Min(loop.posts)
      <3>1. p \in Visible
        BY <1>1, <2>3, MinOfNat DEF Visible
      <3>2. Observe(p, "poll") /\ loop' = [loop EXCEPT !.posts = loop.posts \ {p}]
        BY <1>3, <2>3 DEF PollArrives
      <3> HIDE DEF p
      <3>3. loop \in [at : {"poll"}, posts : SUBSET Posts]
        BY <1>1 DEF Sight, Loops
      <3>4. loop' \in [at : {"poll"}, posts : SUBSET Posts] /\ loop'.posts \subseteq loop.posts
        BY <3>2, <3>3
      <3> QED BY <1>1, <2>1, <3>1, <3>2, <3>4 DEF Loops
    <2> QED BY <2>2, <2>3
  <1> QED BY <1>2, <1>3

LEMMA PollSight ==
  ASSUME Sight, PollArrives
  PROVE  Sight'
  <1>1. baseline' \in NoBaseline .. latest /\ excused' \subseteq Posts
    BY PollOutcome
  <1>2. latest \in 0 .. MaxPosts
    BY DEF Sight, TypeOK
  <1>3. baseline' \in NoBaseline .. MaxPosts /\ baseline' <= latest
    BY <1>1, <1>2, Sizes DEF NoBaseline
  <1>4. /\ loop' \in Loops /\ loop'.at \in {"top", "poll"}
        /\ (loop'.at = "poll" => loop'.posts \subseteq Visible)
    BY PollOutcome DEF Top, Loops
  <1>5. /\ admitting' \in Seq([post : Posts, lane : {"turn", "question"}])
        /\ \A i \in DOMAIN admitting' : admitting'[i].post <= latest
    <2>1. CASE admitting' = admitting
      BY <2>1 DEF Sight, TypeOK, InSight
    <2>2. CASE \E p \in Visible : Observe(p, "poll")
      BY <2>2, ObserveSight
    <2> QED BY <2>1, <2>2, PollOutcome
  <1>6. UNCHANGED <<server, ws, wire, snoozed, admitted, ack, lanes, turns>>
    BY DEF PollArrives
  <1>7. TypeOK'
    BY <1>1, <1>3, <1>4, <1>5, <1>6 DEF Sight, TypeOK, server, lanes
  <1>8. InSight'
    BY <1>3, <1>4, <1>5, <1>6 DEF Sight, InSight, Visible, server
  <1> QED BY <1>4, <1>7, <1>8 DEF Sight, Loops

LEMMA ElsewhereSight ==
  ASSUME Sight, CatchUp, Elsewhere
  PROVE  Sight'
  BY ServerSight, ReceiveSight, FailsSight, ControlSight, GapSight, SocketSight, PollSight DEF Elsewhere

-----------------------------------------------------------------------------
(* The queue *)

Events == [state : {"unknown", "queued", "claimed", "done", "dead"},
           tries : 0 .. MaxAttempts, lane : {"none", "turn", "question"}]

QueueSafe ==
  /\ queue \in [EventIds -> Events] /\ turn \in EventIds \cup {NoTurn}
  /\ turns \in [Posts -> Nat] /\ Lanes /\ OneOpen

LEMMA TwoEvents ==
  /\ \A p \in Posts : EventOf(p) \in EventIds /\ MovedEvent(p) \in EventIds
  /\ \A e \in EventIds : e.post \in Posts /\ (e = EventOf(e.post) \/ e = MovedEvent(e.post))
  /\ \A p, q \in Posts : EventOf(p) # MovedEvent(q)
  /\ \A p, q \in Posts : EventOf(p) = EventOf(q) \/ MovedEvent(p) = MovedEvent(q) => p = q
  /\ NoTurn \notin EventIds
  <1>1. \A p \in Posts : EventOf(p) \in EventIds /\ MovedEvent(p) \in EventIds
    BY DEF EventIds, EventKinds, EventOf, MovedEvent
  <1>2. \A e \in EventIds : e.post \in Posts /\ (e = EventOf(e.post) \/ e = MovedEvent(e.post))
    BY DEF EventIds, EventKinds, EventOf, MovedEvent
  <1>3. \A p, q : EventOf(p).kind = "post" /\ MovedEvent(q).kind = "turn"
                    /\ EventOf(p).post = p /\ MovedEvent(q).post = q
    BY DEF EventOf, MovedEvent
  <1>4. NoTurn \notin EventIds
    BY DEF NoTurn, EventIds, EventKinds
  <1> QED BY <1>1, <1>2, <1>3, <1>4

LEMMA EventSet ==
  ASSUME NEW q \in [EventIds -> Events], NEW e \in EventIds, NEW r \in Events
  PROVE  /\ [q EXCEPT ![e] = r] \in [EventIds -> Events]
         /\ \A x \in EventIds : [q EXCEPT ![e] = r][x] = IF x = e THEN r ELSE q[x]
  OBVIOUS

LEMMA SettledEvent ==
  ASSUME NEW q \in [EventIds -> Events], NEW e \in EventIds
  PROVE  /\ Settled(q, e) \in [EventIds -> Events]
         /\ \A x \in EventIds \ {e} : Settled(q, e)[x] = q[x]
         /\ Settled(q, e)[e].state = "done" /\ Settled(q, e)[e].lane = "none"
  <1> DEFINE r == [Unknown EXCEPT !.state = "done"]
  <1>1. r \in Events /\ r.state = "done" /\ r.lane = "none"
    BY Sizes DEF Unknown, Events
  <1>2. Settled(q, e) = [q EXCEPT ![e] = r]
    BY DEF Settled
  <1> HIDE DEF r
  <1> QED BY <1>1, <1>2, EventSet

LEMMA RetriedEvent ==
  ASSUME NEW q \in [EventIds -> Events], NEW e \in EventIds
  PROVE  /\ Retried(q, e) \in [EventIds -> Events]
         /\ \A x \in EventIds \ {e} : Retried(q, e)[x] = q[x]
         /\ Retried(q, e)[e].state \in {"queued", "dead"}
         /\ Retried(q, e)[e].tries = q[e].tries /\ Retried(q, e)[e].lane = q[e].lane
         /\ Retried(q, e)[e].state = "queued" => q[e].tries < MaxAttempts
  <1> DEFINE s == IF q[e].tries < MaxAttempts THEN "queued" ELSE "dead"
             r == [q[e] EXCEPT !.state = s]
  <1>1. q[e] \in Events /\ s \in {"queued", "dead"} /\ (s = "queued" => q[e].tries < MaxAttempts)
    OBVIOUS
  <1>2. Retried(q, e) = [q EXCEPT ![e] = r]
    BY DEF Retried
  <1> HIDE DEF s
  <1>3. r \in Events /\ r.state = s /\ r.tries = q[e].tries /\ r.lane = q[e].lane
    BY <1>1 DEF Events
  <1> HIDE DEF r
  <1> QED BY <1>1, <1>2, <1>3, EventSet

\* An event that is not settled, or a post's first, may go on to any state: its post has
\* had no turn, and its other event does not mind.
LEMMA OneOpenKept ==
  ASSUME QueueSafe, queue' \in [EventIds -> Events], NEW e \in EventIds,
         \A x \in EventIds \ {e} : queue'[x] = queue[x],
         queue[e].state # "done", queue[e].state = "unknown" => e = EventOf(e.post),
         queue'[e].state # "unknown",
         \/ turns' = turns
         \/ queue'[e].state = "done" /\ turns' = [turns EXCEPT ![e.post] = @ + 1]
  PROVE  OneOpen' /\ turns' \in [Posts -> Nat]
  <1>1. turns \in [Posts -> Nat] /\ e.post \in Posts /\ turns' \in [Posts -> Nat]
    BY TwoEvents DEF QueueSafe
  <1>2. turns[e.post] = 0
    BY <1>1, TwoEvents DEF QueueSafe, OneOpen
  <1>3. ASSUME NEW p \in Posts
        PROVE  /\ queue'[MovedEvent(p)].state # "unknown" => queue'[EventOf(p)].state = "done"
               /\ turns'[p] # 0 =>
                    /\ turns'[p] = 1 /\ queue'[EventOf(p)].state = "done"
                    /\ queue'[MovedEvent(p)].state \in {"unknown", "done"}
    <2>0. /\ queue[MovedEvent(p)].state # "unknown" => queue[EventOf(p)].state = "done"
          /\ turns[p] # 0 =>
               /\ turns[p] = 1 /\ queue[EventOf(p)].state = "done"
               /\ queue[MovedEvent(p)].state \in {"unknown", "done"}
      BY DEF QueueSafe, OneOpen
    <2>1. CASE p # e.post
      <3>1. EventOf(p) # e /\ MovedEvent(p) # e
        BY <2>1 DEF EventOf, MovedEvent
      <3>2. queue'[EventOf(p)] = queue[EventOf(p)] /\ queue'[MovedEvent(p)] = queue[MovedEvent(p)]
        BY <3>1, TwoEvents
      <3>3. turns'[p] = turns[p]
        BY <1>1, <2>1
      <3> QED BY <2>0, <3>2, <3>3
    <2>2. CASE p = e.post /\ e = EventOf(p)
      <3>1. queue'[MovedEvent(p)] = queue[MovedEvent(p)]
        BY <2>2, TwoEvents
      <3>2. turns'[p] = 0 \/ (turns'[p] = 1 /\ queue'[e].state = "done")
        BY <1>1, <1>2, <2>2
      <3> QED BY <2>0, <2>2, <3>1, <3>2
    <2>3. CASE p = e.post /\ e = MovedEvent(p)
      <3>1. queue'[EventOf(p)] = queue[EventOf(p)]
        BY <2>3, TwoEvents
      <3>2. turns'[p] = 0 \/ (turns'[p] = 1 /\ queue'[e].state = "done")
        BY <1>1, <1>2, <2>3
      <3>3. queue[e].state # "unknown"
        BY <2>3, TwoEvents
      <3> QED BY <2>0, <2>3, <3>1, <3>2, <3>3
    <2> QED BY <2>1, <2>2, <2>3, TwoEvents
  <1> QED BY <1>1, <1>3 DEF OneOpen

\* One event of the lanes changes, to a state that fits its turn.
LEMMA OneEventSafe ==
  ASSUME QueueSafe, queue' \in [EventIds -> Events], NEW e \in EventIds,
         \A x \in EventIds \ {e} : queue'[x] = queue[x],
         queue[e].state # "done", queue[e].state = "unknown" => e = EventOf(e.post),
         queue'[e].state # "unknown",
         \/ turns' = turns
         \/ queue'[e].state = "done" /\ turns' = [turns EXCEPT ![e.post] = @ + 1],
         queue'[e].state = "queued" => queue'[e].tries < MaxAttempts,
         queue'[e].lane = "question" => e = EventOf(e.post),
         \/ turn = e /\ turn' = NoTurn /\ queue'[e].state # "claimed"
         \/ turn = NoTurn /\ turn' = e /\ queue'[e].state = "claimed"
         \/ turn # e /\ turn' = turn /\ queue'[e].state # "claimed"
  PROVE  QueueSafe' /\ \A p \in Posts : Handled(p) => Handled(p)'
  <1>1. OneOpen' /\ turns' \in [Posts -> Nat]
    BY OneOpenKept
  <1>2. turn' \in EventIds \cup {NoTurn}
    BY DEF QueueSafe
  <1>3. ASSUME NEW x \in EventIds
        PROVE  /\ queue'[x].state = "claimed" <=> x = turn'
               /\ queue'[x].state = "queued" => queue'[x].tries < MaxAttempts
               /\ queue'[x].lane = "question" => x = EventOf(x.post)
    <2>1. /\ queue[x].state = "claimed" <=> x = turn
          /\ queue[x].state = "queued" => queue[x].tries < MaxAttempts
          /\ queue[x].lane = "question" => x = EventOf(x.post)
      BY DEF QueueSafe, Lanes
    <2>2. CASE x = e
      BY <2>2, TwoEvents
    <2>3. CASE x # e
      <3>1. queue'[x] = queue[x] /\ (x = turn <=> x = turn')
        BY <2>3, TwoEvents
      <3> QED BY <2>1, <3>1
    <2> QED BY <2>2, <2>3
  <1>4. Lanes'
    BY <1>3 DEF Lanes
  <1>5. \A p \in Posts : Handled(p) => Handled(p)'
    BY TwoEvents DEF Handled
  <1> QED BY <1>1, <1>2, <1>4, <1>5 DEF QueueSafe

LEMMA QueueKept ==
  ASSUME QueueSafe, UNCHANGED <<queue, turn, turns>>
  PROVE  QueueSafe' /\ \A p \in Posts : Handled(p) => Handled(p)'
  BY DEF QueueSafe, Lanes, OneOpen, Handled

LEMMA TurnStartsSafe ==
  ASSUME QueueSafe, TurnStarts
  PROVE  QueueSafe' /\ \A p \in Posts : Handled(p) => Handled(p)'
  <1>1. PICK e \in Queued("turn") :
          IF snoozed \/ e.post \notin asks
          THEN queue' = Settled(queue, e) /\ UNCHANGED turn
          ELSE /\ queue' = [queue EXCEPT ![e].state = "claimed", ![e].tries = @ + 1]
               /\ turn' = e
    BY DEF TurnStarts
  <1>2. /\ turn = NoTurn /\ turns' = turns /\ e \in EventIds /\ e # NoTurn
        /\ queue[e].state = "queued" /\ queue[e].lane = "turn" /\ queue \in [EventIds -> Events]
        /\ queue[e].tries < MaxAttempts
    BY <1>1, TwoEvents DEF TurnStarts, Queued, QueueSafe, Lanes
  <1>3. CASE queue' = Settled(queue, e) /\ UNCHANGED turn
    <2>1. /\ queue' \in [EventIds -> Events] /\ \A x \in EventIds \ {e} : queue'[x] = queue[x]
          /\ queue'[e].state = "done" /\ queue'[e].lane = "none"
      BY <1>2, <1>3, SettledEvent
    <2> QED BY <1>2, <1>3, <2>1, OneEventSafe
  <1>4. CASE queue' = [queue EXCEPT ![e].state = "claimed", ![e].tries = @ + 1] /\ turn' = e
    <2> DEFINE r == [queue[e] EXCEPT !.state = "claimed", !.tries = @ + 1]
    <2>1. queue' = [queue EXCEPT ![e] = r]
      BY <1>4
    <2>2. queue[e] \in Events /\ queue[e].tries + 1 \in 0 .. MaxAttempts
      <3>1. queue[e] \in Events
        BY <1>2
      <3> QED BY <1>2, <3>1, Sizes DEF Events
    <2>3. r \in Events /\ r.state = "claimed" /\ r.lane = "turn"
      BY <1>2, <2>2 DEF Events
    <2> HIDE DEF r
    <2>4. /\ queue' \in [EventIds -> Events] /\ \A x \in EventIds \ {e} : queue'[x] = queue[x]
          /\ queue'[e] = r
      BY <1>2, <2>1, <2>3, EventSet
    <2> QED BY <1>2, <1>4, <2>3, <2>4, OneEventSafe
  <1> QED BY <1>1, <1>3, <1>4

LEMMA TurnOverSafe ==
  ASSUME QueueSafe, TurnEnds \/ TurnFails
  PROVE  QueueSafe' /\ \A p \in Posts : Handled(p) => Handled(p)'
  <1>1. /\ turn \in EventIds /\ turn # NoTurn /\ queue \in [EventIds -> Events] /\ turn' = NoTurn
        /\ queue[turn].state = "claimed" /\ (queue[turn].lane = "question" => turn = EventOf(turn.post))
    BY TwoEvents DEF QueueSafe, Lanes, TurnEnds, TurnFails
  <1>2. CASE TurnEnds
    <2>1. queue' = Settled(queue, turn) /\ turns' = [turns EXCEPT ![turn.post] = @ + 1]
      BY <1>2 DEF TurnEnds
    <2>2. /\ queue' \in [EventIds -> Events] /\ \A x \in EventIds \ {turn} : queue'[x] = queue[x]
          /\ queue'[turn].state = "done" /\ queue'[turn].lane = "none"
      BY <1>1, <2>1, SettledEvent
    <2> QED BY <1>1, <2>1, <2>2, OneEventSafe
  <1>3. CASE TurnFails
    <2>1. queue' = Retried(queue, turn) /\ turns' = turns
      BY <1>3 DEF TurnFails, hist
    <2>2. /\ queue' \in [EventIds -> Events] /\ \A x \in EventIds \ {turn} : queue'[x] = queue[x]
          /\ queue'[turn].state \in {"queued", "dead"}
          /\ queue'[turn].tries = queue[turn].tries /\ queue'[turn].lane = queue[turn].lane
          /\ queue'[turn].state = "queued" => queue[turn].tries < MaxAttempts
      BY <1>1, <2>1, RetriedEvent
    <2> QED BY <1>1, <2>1, <2>2, OneEventSafe
  <1> QED BY <1>2, <1>3

LEMMA AnswerFailsSafe ==
  ASSUME QueueSafe, AnswerFails
  PROVE  QueueSafe' /\ \A p \in Posts : Handled(p) => Handled(p)'
  <1>1. PICK e \in Queued("question") : queue' = Retried([queue EXCEPT ![e].tries = @ + 1], e)
    BY DEF AnswerFails
  <1>2. /\ turn' = turn /\ turns' = turns /\ e \in EventIds
        /\ queue[e].state = "queued" /\ queue[e].lane = "question" /\ queue \in [EventIds -> Events]
        /\ queue[e].tries < MaxAttempts /\ e # turn /\ e = EventOf(e.post)
    BY <1>1 DEF AnswerFails, Queued, QueueSafe, Lanes, hist
  <1> DEFINE r == [queue[e] EXCEPT !.tries = @ + 1]
             q == [queue EXCEPT ![e] = r]
  <1>3. r \in Events /\ r.lane = "question"
    <2>1. queue[e] \in Events
      BY <1>2
    <2>2. queue[e].tries + 1 \in 0 .. MaxAttempts
      BY <1>2, <2>1, Sizes DEF Events
    <2> QED BY <1>2, <2>1, <2>2 DEF Events
  <1>4. queue' = Retried(q, e)
    BY <1>1
  <1> HIDE DEF r
  <1>5. /\ q \in [EventIds -> Events] /\ q[e] = r
        /\ \A x \in EventIds \ {e} : q[x] = queue[x]
    BY <1>2, <1>3, EventSet
  <1> HIDE DEF q
  <1>6. /\ queue' \in [EventIds -> Events] /\ \A x \in EventIds \ {e} : queue'[x] = queue[x]
        /\ queue'[e].state \in {"queued", "dead"} /\ queue'[e].tries = r.tries
        /\ queue'[e].state = "queued" => r.tries < MaxAttempts
    BY <1>2, <1>4, <1>5, RetriedEvent
  <1> QED BY <1>2, <1>6, OneEventSafe

\* The answer takes the post's event, or the post moves to the turn lane: then its second
\* event was never used, for the first was still open.
LEMMA AnswerDeliveredSafe ==
  ASSUME QueueSafe, AnswerDelivered
  PROVE  QueueSafe' /\ \A p \in Posts : Handled(p) => Handled(p)'
  <1>1. PICK e \in Queued("question") :
          queue' = Settled(queue, e) \/ queue' = Moved(Settled(queue, e), e.post)
    BY DEF AnswerDelivered
  <1>2. /\ turn' = turn /\ turns' = turns /\ e \in EventIds
        /\ queue[e].state = "queued" /\ queue[e].lane = "question" /\ queue \in [EventIds -> Events]
        /\ e # turn /\ e = EventOf(e.post) /\ e.post \in Posts
    BY <1>1, TwoEvents DEF AnswerDelivered, Queued, QueueSafe, Lanes
  <1> DEFINE q == Settled(queue, e)
  <1>3. /\ q \in [EventIds -> Events] /\ \A x \in EventIds \ {e} : q[x] = queue[x]
        /\ q[e].state = "done" /\ q[e].lane = "none"
    BY <1>2, SettledEvent
  <1>4. CASE queue' = q
    <2> HIDE DEF q
    <2> QED BY <1>2, <1>3, <1>4, OneEventSafe
  <1>5. CASE queue' = Moved(q, e.post) /\ queue' # q
    <2> DEFINE m == MovedEvent(e.post)
               r == [Unknown EXCEPT !.state = "queued", !.lane = "turn"]
    <2>1. queue' = [q EXCEPT ![m] = r]
      <3> HIDE DEF q
      <3> QED BY <1>5 DEF Moved, MovedEvent
    <2>2. r \in Events /\ r.state = "queued" /\ r.tries = 0 /\ r.lane = "turn"
      <3>1. Unknown \in Events /\ Unknown.tries = 0
        BY Sizes DEF Unknown, Events
      <3> QED BY <3>1 DEF Events
    <2>3. m \in EventIds /\ m # e
      BY <1>2, TwoEvents
    <2> HIDE DEF q, r
    <2>4. /\ queue' \in [EventIds -> Events] /\ queue'[m] = r
          /\ \A x \in EventIds \ {m} : queue'[x] = q[x]
      BY <1>3, <2>1, <2>2, <2>3, EventSet
    <2>5. queue[m].state = "unknown" /\ turns[e.post] = 0
      BY <1>2 DEF QueueSafe, OneOpen
    <2>6. m # turn
      BY <2>3, <2>5 DEF QueueSafe, Lanes
    <2>7. ASSUME NEW p \in Posts
          PROVE  /\ queue'[MovedEvent(p)].state # "unknown" => queue'[EventOf(p)].state = "done"
                 /\ turns'[p] # 0 =>
                      /\ turns'[p] = 1 /\ queue'[EventOf(p)].state = "done"
                      /\ queue'[MovedEvent(p)].state \in {"unknown", "done"}
      <3>1. CASE p = e.post
        <4>1. queue'[EventOf(p)].state = "done"
          BY <1>2, <1>3, <2>3, <2>4, <3>1
        <4> QED BY <1>2, <2>5, <3>1, <4>1
      <3>2. CASE p # e.post
        <4>1. /\ EventOf(p) \in EventIds \ {e, m} /\ MovedEvent(p) \in EventIds \ {e, m}
          BY <1>2, <3>2, TwoEvents
        <4>2. /\ queue'[EventOf(p)] = queue[EventOf(p)] /\ queue'[MovedEvent(p)] = queue[MovedEvent(p)]
          BY <1>3, <2>4, <4>1
        <4> QED BY <1>2, <4>2 DEF QueueSafe, OneOpen
      <3> QED BY <3>1, <3>2
    <2>8. ASSUME NEW x \in EventIds
          PROVE  /\ queue'[x].state = "claimed" <=> x = turn'
                 /\ queue'[x].state = "queued" => queue'[x].tries < MaxAttempts
                 /\ queue'[x].lane = "question" => x = EventOf(x.post)
      <3>1. CASE x = m
        BY <1>2, <2>2, <2>4, <2>6, <3>1, Sizes
      <3>2. CASE x = e
        BY <1>2, <1>3, <2>3, <2>4, <3>2
      <3>3. CASE x \notin {m, e}
        <4>1. queue'[x] = queue[x]
          BY <1>3, <2>4, <3>3
        <4> QED BY <1>2, <4>1 DEF QueueSafe, Lanes
      <3> QED BY <3>1, <3>2, <3>3
    <2>9. \A x \in EventIds : queue[x].state # "unknown" => queue'[x].state # "unknown"
      BY <1>3, <2>2, <2>4
    <2>10. OneOpen' /\ Lanes'
      BY <2>7, <2>8 DEF OneOpen, Lanes
    <2>11. \A p \in Posts : Handled(p) => Handled(p)'
      BY <2>9, TwoEvents DEF Handled
    <2> QED BY <1>2, <2>4, <2>10, <2>11 DEF QueueSafe
  <1> QED BY <1>1, <1>4, <1>5

LEMMA EnqueuedSafe ==
  ASSUME QueueSafe, NEW p \in Posts, NEW lane \in {"turn", "question"},
         queue' = Enqueued(EventOf(p), lane), UNCHANGED <<turn, turns>>
  PROVE  /\ QueueSafe' /\ (\A o \in Posts : Handled(o) => Handled(o)')
         /\ Handled(p)'
  <1> DEFINE e == EventOf(p)
  <1>1. e \in EventIds /\ e.post = p /\ queue \in [EventIds -> Events]
    BY TwoEvents DEF QueueSafe, EventOf
  <1>2. CASE queue[e].state # "unknown"
    <2>1. queue' = queue
      BY <1>2 DEF Enqueued
    <2> QED BY <1>2, <2>1, QueueKept DEF Handled
  <1>3. CASE queue[e].state = "unknown"
    <2> DEFINE r == [state |-> "queued", tries |-> 0, lane |-> lane]
    <2>1. queue' = [queue EXCEPT ![e] = r]
      BY <1>3 DEF Enqueued
    <2>2. r \in Events /\ r.state = "queued" /\ r.tries = 0
      BY Sizes DEF Events
    <2> HIDE DEF r
    <2>3. /\ queue' \in [EventIds -> Events] /\ queue'[e] = r
          /\ \A x \in EventIds \ {e} : queue'[x] = queue[x]
      BY <1>1, <2>1, <2>2, EventSet
    <2>4. turn # e
      BY <1>1, <1>3 DEF QueueSafe, Lanes
    <2>5. Handled(p)'
      BY <2>2, <2>3 DEF Handled
    <2>6. e = EventOf(e.post)
      BY <1>1
    <2> HIDE DEF e
    <2> QED BY <1>1, <1>3, <2>2, <2>3, <2>4, <2>5, <2>6, Sizes, OneEventSafe
  <1> QED BY <1>2, <1>3

LEMMA AdmitsSafe ==
  ASSUME Sight, QueueSafe, Admits
  PROVE  /\ QueueSafe' /\ (\A p \in Posts : Handled(p) => Handled(p)')
         /\ \A p \in admitted' : p \in admitted \/ (p \in Posts /\ Handled(p)')
  <1>1. CASE Admitted
    <2> DEFINE a == Head(admitting)
    <2>1. a.post \in Posts /\ a.lane \in {"turn", "question"}
      BY <1>1, TailSight DEF Admitted
    <2>2. /\ queue' = Enqueued(EventOf(a.post), a.lane) /\ admitted' = admitted \cup {a.post}
          /\ UNCHANGED <<turn, turns>>
      BY <1>1 DEF Admitted, hist
    <2> HIDE DEF a
    <2> QED BY <2>1, <2>2, EnqueuedSafe
  <1>2. CASE ReplayAdmitted
    <2>1. loop.trigger \in Posts
      BY <1>2 DEF ReplayAdmitted, Sight, Loops
    <2>2. /\ queue' = Enqueued(EventOf(loop.trigger), "turn") /\ admitted' = admitted \cup {loop.trigger}
          /\ UNCHANGED <<turn, turns>>
      BY <1>2 DEF ReplayAdmitted, ReplayEvent
    <2> QED BY <2>1, <2>2, EnqueuedSafe
  <1> QED BY <1>1, <1>2 DEF Admits

LEMMA CrashSafe ==
  ASSUME QueueSafe, Crash
  PROVE  QueueSafe' /\ \A p \in Posts : Handled(p) => Handled(p)'
  <1>1. /\ queue \in [EventIds -> Events] /\ turn' = NoTurn /\ turns' = turns
        /\ turns \in [Posts -> Nat]
    BY DEF QueueSafe, Crash
  <1>2. queue' = [e \in EventIds |->
                    IF queue[e].state = "claimed" THEN Retried(queue, e)[e] ELSE queue[e]]
    BY DEF Crash
  <1>3. ASSUME NEW x \in EventIds
        PROVE  /\ queue'[x] \in Events /\ queue'[x].state # "claimed"
               /\ queue'[x].state = "queued" => queue'[x].tries < MaxAttempts
               /\ queue'[x].lane = queue[x].lane
               /\ queue[x].state \in {"unknown", "done"} => queue'[x] = queue[x]
               /\ queue'[x].state = "unknown" => queue[x].state = "unknown"
    <2>1. CASE queue[x].state = "claimed"
      <3> DEFINE r == Retried(queue, x)[x]
      <3>1. queue'[x] = r
        BY <1>2, <2>1
      <3>2. /\ r \in Events /\ r.state \in {"queued", "dead"} /\ r.lane = queue[x].lane
            /\ r.tries = queue[x].tries /\ (r.state = "queued" => queue[x].tries < MaxAttempts)
        BY <1>1, RetriedEvent
      <3> HIDE DEF r
      <3> QED BY <2>1, <3>1, <3>2
    <2>2. CASE queue[x].state # "claimed"
      <3>1. queue'[x] = queue[x]
        BY <1>2, <2>2
      <3> QED BY <1>1, <2>2, <3>1 DEF QueueSafe, Lanes
    <2> QED BY <2>1, <2>2
  <1>4. queue' \in [EventIds -> Events]
    <2>1. DOMAIN queue' = EventIds /\ queue' = [e \in EventIds |-> queue'[e]]
      BY <1>2
    <2> QED BY <1>3, <2>1
  <1>5. Lanes'
    BY <1>1, <1>3, TwoEvents DEF Lanes, QueueSafe
  <1>6. OneOpen'
    BY <1>1, <1>3, TwoEvents DEF OneOpen, QueueSafe
  <1>7. \A p \in Posts : Handled(p) => Handled(p)'
    BY <1>3, TwoEvents DEF Handled
  <1> QED BY <1>1, <1>4, <1>5, <1>6, <1>7 DEF QueueSafe

LEMMA NextQueue ==
  ASSUME Sight, QueueSafe, [Next]_vars
  PROVE  QueueSafe' /\ \A p \in Posts : Handled(p) => Handled(p)'
  <1>1. CASE Elsewhere \/ UNCHANGED vars
    <2>1. UNCHANGED <<queue, turn, turns>>
      BY <1>1, ElsewhereKeeps DEF vars, lanes, hist
    <2> QED BY <2>1, QueueKept
  <1>2. CASE Admits
    BY <1>2, AdmitsSafe
  <1>3. CASE Crash
    BY <1>3, CrashSafe
  <1>4. CASE TurnAsks \/ QuestionExpires
    <2>1. UNCHANGED <<queue, turn, turns>>
      BY <1>4 DEF TurnAsks, QuestionExpires, hist
    <2> QED BY <2>1, QueueKept
  <1> QED BY <1>1, <1>2, <1>3, <1>4, TurnStartsSafe, TurnOverSafe, AnswerFailsSafe,
             AnswerDeliveredSafe, Steps DEF Delivery

-----------------------------------------------------------------------------
(* What was covered stays covered *)

LEMMA ExcusedGrows ==
  ASSUME Sight, CatchUp, [Next]_vars
  PROVE  excused \subseteq excused'
  <1>1. CASE Elsewhere
    <2>1. CASE \/ \E addressed \in BOOLEAN : Post(addressed)
               \/ Nap \/ SocketDrops \/ AckFails \/ AdmissionFails \/ PollFails \/ AckServed
               \/ Receive \/ ListSkipped
      BY <2>1 DEF Post, Nap, SocketDrops, AckFails, AdmissionFails, PollFails, AckServed, Receive,
                  ListSkipped, hist
    <2>2. CASE ListFails \/ GapFails \/ ReplayFails \/ PollServed
      BY <2>2 DEF ListFails, GapFails, ReplayFails, PollServed
    <2>3. CASE ControlArrives
      BY <2>3, ControlOutcome
    <2>4. CASE GapDrained
      BY <2>4, GapOutcome
    <2>5. CASE PollArrives
      BY <2>5, PollOutcome
    <2>6. CASE SocketOpens
      BY <2>6, SeededSight DEF SocketOpens
    <2> QED BY <1>1, <2>1, <2>2, <2>3, <2>4, <2>5, <2>6 DEF Elsewhere
  <1>2. CASE Admits
    BY <1>2 DEF Admits, Admitted, ReplayAdmitted, hist
  <1>3. CASE Crash
    BY <1>3 DEF Crash
  <1>4. CASE Delivery
    BY <1>4 DEF Delivery, TurnStarts, TurnAsks, QuestionExpires, TurnEnds, TurnFails,
                AnswerDelivered, AnswerFails, hist
  <1>5. CASE UNCHANGED vars
    BY <1>5 DEF vars, hist
  <1> QED BY <1>1, <1>2, <1>3, <1>4, <1>5, Steps

LEMMA CoveredStays ==
  ASSUME Sight, CatchUp, QueueSafe, [Next]_vars
  PROVE  \A p \in Posts : Covered(p) => Covered(p)'
  BY ExcusedGrows, NextQueue DEF Covered

\* Types and what is in sight, over every step.
LEMMA NextSight ==
  ASSUME Sight, CatchUp, QueueSafe, [Next]_vars
  PROVE  Sight'
  <1>1. CASE Elsewhere
    BY <1>1, ElsewhereSight
  <1>2. /\ queue' \in [EventIds -> Events] /\ turn' \in EventIds \cup {NoTurn}
        /\ turns' \in [Posts -> Nat]
    BY NextQueue DEF QueueSafe
  <1>3. CASE Admits
    <2>1. asking' = asking /\ excused' \subseteq Posts
      <3>1. CASE Admitted
        BY <3>1 DEF Admitted, hist, Sight, TypeOK
      <3>2. CASE ReplayAdmitted
        <4>1. loop.trigger \in 0 .. MaxPosts
          BY <3>2, Sizes DEF ReplayAdmitted, Sight, Loops, Posts
        <4>2. excused' = excused \cup 1 .. (loop.trigger - 1) /\ asking' = asking
          BY <3>2 DEF ReplayAdmitted
        <4> QED BY <4>1, <4>2, UpTo DEF Sight, TypeOK
      <3> QED BY <1>3, <3>1, <3>2 DEF Admits
    <2>2. TypeOK'
      BY <1>2, <1>3, <2>1, AdmitsSight DEF Sight, TypeOK, Events, Loops
    <2> QED BY <1>3, <2>2, AdmitsSight DEF Sight
  <1>4. CASE Crash
    <2>1. /\ UNCHANGED server /\ ws' = FALSE /\ wire' = {} /\ loop' = Boot /\ snoozed' = FALSE
          /\ baseline' = NoBaseline /\ admitted' = {} /\ admitting' = <<>> /\ ack' = NoAck
          /\ asking' = FALSE
      BY <1>4 DEF Crash, Closed
    <2>2. excused' \subseteq Posts
      BY <1>4, SetsInSight DEF Crash, Sight, TypeOK
    <2>3. TypeOK'
      <3>1. /\ loop'.at = "top" /\ baseline' \in NoBaseline .. MaxPosts
            /\ ack' \in [sent : 0 .. MaxPosts, want : 0 .. MaxPosts, target : 0 .. MaxPosts]
        BY <2>1, Sizes DEF Boot, NoAck, NoBaseline
      <3>2. admitting' \in Seq([post : Posts, lane : {"turn", "question"}])
        BY <2>1
      <3> QED BY <1>2, <2>1, <2>2, <3>1, <3>2 DEF Sight, TypeOK, Events, server
    <2>4. InSight' /\ loop' \in Loops
      BY <2>1 DEF Sight, TypeOK, InSight, Visible, Boot, NoAck, NoBaseline, Loops, server
    <2> QED BY <2>3, <2>4 DEF Sight, Loops
  <1>5. CASE Delivery
    <2>1. UNCHANGED <<server, process, ack>>
      BY <1>5, DeliveryKeeps
    <2>2. asking' \in BOOLEAN /\ excused' \subseteq Posts
      <3>1. CASE TurnStarts \/ AnswerDelivered
        <4>1. \E e \in EventIds : excused' = excused \cup {e.post} \/ excused' = excused
          BY <3>1 DEF TurnStarts, AnswerDelivered, Queued
        <4>2. asking' = asking \/ \E e \in EventIds : asking' = (snoozed \/ e.post \notin asks)
          BY <3>1, Zenon DEF TurnStarts, AnswerDelivered, Queued
        <4>3. asking' \in BOOLEAN
          BY <4>2, Zenon DEF Sight, TypeOK
        <4> QED BY <4>1, <4>3, TwoEvents DEF Sight, TypeOK
      <3>2. CASE TurnAsks \/ QuestionExpires \/ TurnEnds \/ TurnFails \/ AnswerFails
        BY <3>2 DEF TurnAsks, QuestionExpires, TurnEnds, TurnFails, AnswerFails, hist, Sight, TypeOK
      <3> QED BY <1>5, <3>1, <3>2 DEF Delivery
    <2>3. TypeOK'
      BY <1>2, <2>1, <2>2 DEF Sight, TypeOK, Events, server, process
    <2>4. InSight' /\ loop' \in Loops
      BY <2>1 DEF Sight, InSight, Visible, server, process
    <2> QED BY <2>3, <2>4 DEF Sight, Loops
  <1>6. CASE UNCHANGED vars
    BY <1>6 DEF vars, server, process, lanes, hist, Sight, TypeOK, InSight, Visible, Loops
  <1> QED BY <1>1, <1>3, <1>4, <1>5, <1>6, Steps

LEMMA Parts ==
  ASSUME IInv
  PROVE  Sight /\ QueueSafe /\ CatchUp
  BY DEF IInv, Sight, QueueSafe, TypeOK, Events

\* Where the catch-up is over, the floor covers what is below it, and what is above
\* and admitted is known to the queue; before, the catch-up's own promise does.
LEMMA PointerCovers ==
  ASSUME IInv
  PROVE  \A p \in asks : p <= readp => Covered(p) \/ Underway(p)
  <1>1. \A p \in asks : p \in Int /\ baseline \in Int
    BY DEF IInv, TypeOK, Posts, NoBaseline
  <1>2. CASE loop.at \in {"gap", "replay"}
    BY <1>2 DEF IInv, CatchUp, Booting
  <1>3. CASE loop.at \notin {"gap", "replay"}
    BY <1>1, <1>3 DEF IInv, FloorCovers, AdmittedKnown, Covered, Underway
  <1> QED BY <1>2, <1>3

LEMMA NextAdmittedKnown ==
  ASSUME IInv, [Next]_vars
  PROVE  AdmittedKnown'
  <1>1. /\ Sight /\ QueueSafe /\ admitted \subseteq Posts
        /\ \A p \in Posts : Handled(p) => Handled(p)'
    BY Parts, NextQueue DEF Sight, TypeOK
  <1>2. CASE admitted' = admitted
    BY <1>1, <1>2 DEF IInv, AdmittedKnown
  <1>3. CASE Admits
    BY <1>1, <1>3, AdmitsSafe DEF IInv, AdmittedKnown
  <1>4. CASE Crash
    BY <1>4 DEF Crash, AdmittedKnown
  <1>5. CASE Delivery \/ UNCHANGED vars
    BY <1>2, <1>5, DeliveryKeeps DEF process, vars
  <1>6. CASE Elsewhere
    <2>1. CASE \/ \E addressed \in BOOLEAN : Post(addressed)
               \/ Nap \/ SocketDrops \/ AckFails \/ AdmissionFails \/ AckServed \/ Receive
      BY <1>2, <2>1 DEF Post, Nap, SocketDrops, AckFails, AdmissionFails, AckServed, Receive, process
    <2>2. CASE ListFails \/ GapFails \/ ReplayFails \/ PollFails \/ ListSkipped
      BY <1>2, <2>2 DEF ListFails, GapFails, ReplayFails, PollFails, ListSkipped
    <2>3. CASE ControlArrives \/ GapDrained \/ PollServed \/ PollArrives \/ SocketOpens
      BY <1>2, <2>3 DEF ControlArrives, GapDrained, PollServed, PollArrives, SocketOpens
    <2> QED BY <1>6, <2>1, <2>2, <2>3 DEF Elsewhere
  <1> QED BY <1>3, <1>4, <1>5, <1>6, Steps

\* The steps that leave the loop and the floor where they are.
Beside ==
  \/ \E addressed \in BOOLEAN : Post(addressed)
  \/ Nap \/ SocketDrops \/ AckFails \/ AdmissionFails \/ AckServed \/ Receive \/ Admitted
  \/ Delivery \/ UNCHANGED vars

\* The loop's steps at the top and between two polls that leave the floor alone.
Idle == ListFails \/ ListSkipped \/ PollFails \/ PollServed

LEMMA LoopSteps ==
  ASSUME [Next]_vars
  PROVE  \/ Beside \/ Idle \/ Crash \/ ControlArrives \/ PollArrives \/ SocketOpens
         \/ GapDrained \/ GapFails \/ ReplayAdmitted \/ ReplayFails
  BY Steps DEF Elsewhere, Admits, Beside, Idle

\* Only a new post is addressed that was not before, and it is above everything.
LEMMA BesideKeeps ==
  ASSUME IInv, Beside
  PROVE  /\ UNCHANGED <<loop, baseline>> /\ latest \in Nat /\ latest' \in {latest, latest + 1}
         /\ \A p \in asks' : p \in asks \/ p = latest + 1
  <1>1. latest \in Nat
    BY Sizes DEF IInv, TypeOK
  <1>2. CASE \E addressed \in BOOLEAN : Post(addressed)
    BY <1>1, <1>2 DEF Post
  <1>3. CASE Delivery
    BY <1>1, <1>3, DeliveryKeeps DEF server, process
  <1>4. CASE \/ Nap \/ SocketDrops \/ AckFails \/ AdmissionFails \/ AckServed \/ Receive \/ Admitted
             \/ UNCHANGED vars
    BY <1>1, <1>4 DEF Nap, SocketDrops, AckFails, AdmissionFails, AckServed, Receive, Admitted,
                      vars, server, process
  <1> QED BY <1>2, <1>3, <1>4 DEF Beside

LEMMA LoopKeepsServer ==
  ASSUME \/ Idle \/ Crash \/ ControlArrives \/ PollArrives \/ SocketOpens
         \/ GapDrained \/ GapFails \/ ReplayAdmitted \/ ReplayFails
  PROVE  asks' = asks /\ latest' = latest /\ readp' = readp
  BY DEF Idle, ListFails, ListSkipped, PollFails, PollServed, Crash, ControlArrives, PollArrives,
         SocketOpens, GapDrained, GapFails, ReplayAdmitted, ReplayFails, server

-----------------------------------------------------------------------------
(* The catch-up and the floor *)

LEMMA NextFloorCovers ==
  ASSUME IInv, [Next]_vars
  PROVE  FloorCovers'
  <1>1. /\ Sight /\ QueueSafe /\ CatchUp /\ asks \subseteq Posts /\ asks \subseteq Visible
        /\ baseline \in Int /\ latest \in Nat /\ baseline <= latest
        /\ \A p \in Posts : Covered(p) => Covered(p)'
    BY Parts, CoveredStays, Sizes DEF Sight, TypeOK, InSight, NoBaseline
  <1>2. /\ loop.at \notin {"gap", "replay"} => \A p \in asks : p <= baseline => Covered(p)'
        /\ \A p \in asks : p \in Int /\ p \in Posts /\ p >= 1 /\ p <= latest
    BY <1>1 DEF IInv, FloorCovers, Covered, Posts, Visible
  <1>3. SUFFICES ASSUME NEW p \in asks', p <= baseline', loop'.at \notin {"gap", "replay"}
                 PROVE  Covered(p)'
    BY DEF FloorCovers, Covered
  <1>4. CASE Beside
    <2>1. baseline' = baseline /\ loop' = loop /\ (p \in asks \/ p = latest + 1)
      BY <1>4, BesideKeeps
    <2>2. p # latest + 1
      BY <1>1, <1>3, <2>1
    <2> QED BY <1>2, <1>3, <2>1, <2>2
  <1>6. CASE Idle
    <2>1. baseline' = baseline /\ loop.at \in {"top", "ready"} /\ p \in asks
      BY <1>6, LoopKeepsServer DEF Idle, ListFails, ListSkipped, PollFails, PollServed
    <2> QED BY <1>2, <1>3, <2>1
  <1>7. CASE Crash
    <2>1. p \in asks /\ baseline' = NoBaseline
      BY <1>7, LoopKeepsServer DEF Crash
    <2> QED BY <1>2, <1>3, <2>1 DEF NoBaseline
  <1>8. CASE ControlArrives
    <2>1. p \in asks /\ loop.at = "top"
      BY <1>8, LoopKeepsServer DEF ControlArrives
    <2>2. CASE baseline' = baseline
      BY <1>2, <1>3, <2>1, <2>2
    <2>3. CASE 1 .. baseline' \subseteq excused' /\ baseline' \in NoBaseline .. latest
      BY <1>1, <1>2, <1>3, <2>1, <2>3 DEF Covered, NoBaseline
    <2>4. CASE loop' = Ready /\ baseline' = readp /\ loop.caught # "done"
      <3>1. Booting
        BY <2>1, <2>4 DEF Booting
      <3>2. Covered(p)
        BY <1>1, <1>3, <2>1, <2>4, <3>1 DEF CatchUp
      <3> QED BY <1>1, <1>2, <2>1, <3>2
    <2> QED BY <1>1, <1>3, <1>8, <2>2, <2>3, <2>4, ControlOutcome
  <1>9. CASE PollArrives
    <2>1. p \in asks /\ loop.at = "poll"
      BY <1>9, LoopKeepsServer DEF PollArrives
    <2>2. CASE baseline' = baseline
      BY <1>2, <1>3, <2>1, <2>2
    <2>3. CASE 1 .. baseline' \subseteq excused' /\ baseline' \in NoBaseline .. latest
      BY <1>1, <1>2, <1>3, <2>1, <2>3 DEF Covered, NoBaseline
    <2> QED BY <1>1, <1>9, <2>2, <2>3, PollOutcome
  <1>10. CASE SocketOpens
    <2>1. p \in asks /\ loop.at = "ready" /\ Seeded(latest)
      BY <1>10, LoopKeepsServer DEF SocketOpens
    <2>2. CASE baseline' = baseline
      BY <1>2, <1>3, <2>1, <2>2
    <2>3. CASE 1 .. baseline' \subseteq excused' /\ baseline' \in NoBaseline .. latest
      BY <1>1, <1>2, <1>3, <2>1, <2>3 DEF Covered, NoBaseline
    <2> QED BY <1>1, <2>1, <2>2, <2>3, SeededSight
  <1>11. CASE GapDrained
    <2>1. p \in asks /\ Booting /\ loop.at = "gap"
      BY <1>11, LoopKeepsServer DEF GapDrained, Booting
    <2>2. CASE p <= readp
      BY <1>1, <1>2, <2>1, <2>2 DEF CatchUp
    <2>3. CASE ~(p <= readp)
      <3>1. p \in Behind(readp)
        BY <1>1, <2>1, <2>3 DEF Behind, Sight, TypeOK, NoPointer, Posts, Visible
      <3>2. Drained(readp) \cap asks = {}
        <4>1. \/ Drained(readp) \cap asks = {}
              \/ loop' = [at |-> "replay", trigger |-> Max(Drained(readp) \cap asks),
                          newest |-> Max(Drained(readp) \cup {readp})]
          BY <1>1, <1>11, GapOutcome
        <4> QED BY <1>3, <4>1
      <3>3. p \in excused'
        BY <1>1, <1>11, <2>1, <3>1, <3>2, GapOutcome
      <3> QED BY <3>3 DEF Covered
    <2> QED BY <2>2, <2>3
  <1>12. CASE GapFails
    <2>1. p \in asks /\ Booting /\ loop.at = "gap" /\ loop.readp = readp
      BY <1>1, <1>12, LoopKeepsServer DEF GapFails, Booting, CatchUp
    <2>2. CASE p <= readp
      BY <1>1, <1>2, <2>1, <2>2 DEF CatchUp
    <2>3. CASE ~(p <= readp)
      <3>1. p \in Behind(readp) /\ excused' = excused \cup Behind(readp)
        BY <1>1, <1>12, <2>1, <2>3 DEF GapFails, Behind, Sight, TypeOK, NoPointer, Posts, Visible
      <3> QED BY <3>1 DEF Covered
    <2> QED BY <2>2, <2>3
  <1>13. CASE ReplayAdmitted \/ ReplayFails
    <2>1. /\ p \in asks /\ Booting /\ loop.at = "replay" /\ baseline' = baseline
          /\ loop.trigger \in Posts /\ loop.newest \in 0 .. MaxPosts /\ loop.trigger <= loop.newest
          /\ p <= loop.trigger \/ Covered(p)
      BY <1>1, <1>3, <1>13, LoopKeepsServer
         DEF ReplayAdmitted, ReplayFails, Booting, CatchUp, Sight, Loops
    <2>2. loop.trigger \in Nat /\ loop.newest \in Nat
      BY <2>1, Sizes DEF Posts
    <2>3. CASE Covered(p)
      BY <1>1, <1>2, <2>1, <2>3
    <2>4. CASE ReplayFails /\ p <= loop.trigger
      <3>1. p \in 1 .. loop.newest
        BY <1>2, <2>1, <2>2, <2>4
      <3> QED BY <2>4, <3>1 DEF ReplayFails, Covered
    <2>5. CASE ReplayAdmitted /\ p < loop.trigger
      <3>1. p \in 1 .. (loop.trigger - 1)
        BY <1>2, <2>1, <2>2, <2>5
      <3> QED BY <2>5, <3>1 DEF ReplayAdmitted, Covered
    <2>6. CASE ReplayAdmitted /\ p = loop.trigger
      <3>1. queue' = Enqueued(EventOf(p), "turn") /\ UNCHANGED <<turn, turns>>
        BY <2>6 DEF ReplayAdmitted, ReplayEvent
      <3>2. Handled(p)'
        BY <1>1, <1>2, <2>1, <3>1, EnqueuedSafe
      <3> QED BY <3>2 DEF Covered
    <2> QED BY <1>2, <1>13, <2>1, <2>2, <2>3, <2>4, <2>5, <2>6
  <1> QED BY <1>4, <1>6, <1>7, <1>8, <1>9, <1>10, <1>11, <1>12, <1>13, LoopSteps

\* While the catch-up waits, the server may go on and the lanes may work off what an
\* earlier process left; nobody observes, admits or acknowledges.
LEMMA BesideCatchUp ==
  ASSUME IInv, Beside, Booting
  PROVE  /\ UNCHANGED <<readp, ws, wire, admitted, admitting, ack>>
  <1>1. ~ws /\ wire = {} /\ admitting = <<>> /\ ack = NoAck
    BY DEF IInv, CatchUp
  <1>2. ack.target = 0
    BY <1>1 DEF NoAck
  <1>3. CASE Delivery
    BY <1>3, DeliveryKeeps DEF server, process
  <1>4. CASE (\E addressed \in BOOLEAN : Post(addressed)) \/ Nap \/ UNCHANGED vars
    BY <1>1, <1>4 DEF Post, Nap, vars, server, process
  <1>5. CASE SocketDrops \/ AckFails \/ AdmissionFails \/ AckServed \/ Receive \/ Admitted
    BY <1>1, <1>2, <1>5 DEF SocketDrops, AckFails, AdmissionFails, AckServed, Receive, Admitted
  <1> QED BY <1>3, <1>4, <1>5 DEF Beside

LEMMA NextCatchUp ==
  ASSUME IInv, [Next]_vars
  PROVE  CatchUp'
  <1>1. /\ Sight /\ QueueSafe /\ CatchUp /\ asks \subseteq Posts
        /\ baseline \in Int /\ latest \in Nat /\ baseline <= latest /\ readp \in Int /\ readp <= latest
        /\ \A p \in asks : p \in Int /\ p \in Posts /\ (Covered(p) => Covered(p)')
    <2>1. Sight /\ QueueSafe /\ CatchUp /\ \A p \in Posts : Covered(p) => Covered(p)'
      BY Parts, CoveredStays
    <2>2. /\ asks \subseteq Posts /\ baseline \in Int /\ latest \in Nat /\ baseline <= latest
          /\ readp \in Int /\ readp <= latest
      BY <2>1, Sizes DEF Sight, TypeOK, InSight, NoBaseline, NoPointer
    <2> QED BY <2>1, <2>2 DEF Posts
  <1>2. CASE Beside /\ Booting
    <2>1. /\ UNCHANGED <<loop, baseline, readp, ws, wire, admitted, admitting, ack>>
          /\ latest' \in {latest, latest + 1} /\ \A p \in asks' : p \in asks \/ p = latest + 1
      BY <1>2, BesideKeeps, BesideCatchUp
    <2>2. \A p \in asks' : p <= readp => Covered(p)'
      BY <1>1, <1>2, <2>1 DEF CatchUp
    <2>3. loop.at = "gap" => loop.readp = readp /\ loop.latest <= latest' /\ baseline = Max({readp, loop.latest})
      BY <1>1, <1>2, <2>1 DEF CatchUp, Sight, Loops
    <2>4. loop.at = "replay" =>
            /\ loop.trigger <= loop.newest /\ loop.newest <= latest'
            /\ \A p \in asks' : p <= baseline => p <= loop.trigger \/ Covered(p)'
      <3>1. loop.at = "replay" => loop.newest \in Int
        BY <1>1 DEF Sight, Loops
      <3> QED BY <1>1, <1>2, <2>1, <3>1 DEF CatchUp
    <2> QED BY <1>1, <1>2, <2>1, <2>2, <2>3, <2>4 DEF CatchUp, Booting
  <1>3. CASE Beside /\ ~Booting
    BY <1>3, BesideKeeps DEF CatchUp, Booting
  <1>4. CASE ListFails /\ Booting
    <2>1. /\ loop.at = "top" /\ UNCHANGED <<server, ws, wire, baseline, admitted, admitting, ack>>
          /\ loop'.at \in {"top", "ready"}
      BY <1>4 DEF ListFails, Boot, Ready
    <2>2. \A p \in asks : p <= readp => Covered(p)'
      BY <1>1, <1>4 DEF CatchUp
    <2> QED BY <1>1, <1>4, <2>1, <2>2 DEF CatchUp, server
  <1>5. CASE ListFails /\ ~Booting
    BY <1>5 DEF ListFails, Booting, CatchUp, Ready
  <1>6. CASE ListSkipped
    <2>1. ws /\ loop.at = "top" /\ loop' \in {loop, Ready}
      BY <1>6 DEF ListSkipped
    <2>2. ~Booting
      BY <1>1, <2>1 DEF CatchUp
    <2> QED BY <2>1, <2>2 DEF Booting, CatchUp, Ready
  <1>7. CASE PollFails \/ PollServed \/ GapFails \/ ReplayFails \/ ReplayAdmitted \/ PollArrives
    <2>1. loop'.at \in {"ready", "poll"} \/ loop' = Top
      BY <1>1, <1>7, PollOutcome
         DEF PollFails, PollServed, GapFails, ReplayFails, ReplayAdmitted, Ready
    <2> QED BY <2>1 DEF Top, CatchUp, Booting
  <1>8. CASE SocketOpens
    BY <1>8 DEF SocketOpens, CatchUp, Booting
  <1>9. CASE ControlArrives /\ loop.caught = "done"
    <2>1. loop' = Ready \/ loop' = [Top EXCEPT !.caught = "done"]
      BY <1>1, <1>9, ControlOutcome
    <2> QED BY <2>1 DEF Ready, Top, CatchUp, Booting
  <1>10. CASE ControlArrives /\ loop.caught # "done"
    <2>1. /\ Booting /\ loop.at = "top" /\ UNCHANGED <<server, admitted, admitting>>
      BY <1>10 DEF ControlArrives, Booting
    <2>2. /\ ~ws /\ wire = {} /\ admitted = {} /\ admitting = <<>> /\ ack = NoAck
          /\ baseline = NoBaseline /\ \A p \in asks : p <= readp => Covered(p)'
      BY <1>1, <2>1 DEF CatchUp
    <2>3. CASE napping
      <3>1. /\ loop' = [Top EXCEPT !.caught = loop.caught] /\ UNCHANGED <<baseline, ack>>
            /\ ~ws' /\ wire' = {}
        BY <1>10, <2>3 DEF ControlArrives, Closed
      <3>2. loop'.at = "top"
        BY <3>1 DEF Top
      <3> QED BY <2>1, <2>2, <3>1, <3>2 DEF CatchUp, server
    <2>4. CASE ~napping /\ loop'.at # "gap"
      <3>1. loop'.at = "ready"
        BY <1>10, <2>4 DEF ControlArrives, StartCatchUp, Ready
      <3> QED BY <3>1 DEF CatchUp, Booting
    <2>5. CASE ~napping /\ loop'.at = "gap"
      <3>1. /\ loop' = [at |-> "gap", latest |-> latest, readp |-> readp]
            /\ baseline' = Max({readp, latest}) /\ UNCHANGED <<ws, wire, ack>>
        BY <1>10, <2>5 DEF ControlArrives, StartCatchUp, Ready
      <3> QED BY <1>1, <2>1, <2>2, <3>1 DEF CatchUp, server
    <2> QED BY <2>3, <2>4, <2>5
  <1>11. CASE GapDrained
    <2> DEFINE posts == Drained(readp)
               newest == Max(posts \cup {readp})
               trigger == Max(posts \cap asks)
    <2>1. /\ Booting /\ loop.at = "gap" /\ UNCHANGED <<server, ws, wire, admitted, admitting>>
      BY <1>11 DEF GapDrained, Booting
    <2>2. CASE loop' = Ready
      BY <2>2 DEF Ready, CatchUp, Booting
    <2>3. CASE loop' # Ready
      <3>1. /\ posts \subseteq Visible /\ newest \in readp .. latest
            /\ \A p \in posts : p <= newest
            /\ \A p \in Behind(readp) : p \in posts \/ p \in excused'
            /\ loop' = [at |-> "replay", trigger |-> trigger, newest |-> newest]
            /\ trigger \in posts \cap asks /\ \A p \in posts \cap asks : p <= trigger
        BY <1>1, <1>11, <2>3, GapOutcome
      <3>2. ack' = ack
        BY <1>11, <2>3 DEF GapDrained, GapAck
      <3> HIDE DEF posts, newest, trigger
      <3>3. /\ ~ws /\ wire = {} /\ admitted = {} /\ admitting = <<>> /\ ack = NoAck
            /\ \A p \in asks : p <= readp => Covered(p)'
        BY <1>1, <2>1 DEF CatchUp
      <3>4. \A p \in asks : p <= trigger \/ Covered(p)'
        <4>1. \A p \in asks : ~(p <= readp) => p \in Behind(readp)
          BY <1>1 DEF Behind, Sight, InSight
        <4> QED BY <3>1, <3>3, <4>1 DEF Covered
      <3>5. trigger <= newest /\ newest <= latest
        BY <1>1, <3>1
      <3> QED BY <2>1, <3>1, <3>2, <3>3, <3>4, <3>5 DEF CatchUp, server
    <2> QED BY <2>2, <2>3
  <1>12. CASE Crash
    <2>1. /\ ws' = FALSE /\ wire' = {} /\ admitted' = {} /\ admitting' = <<>> /\ ack' = NoAck
          /\ loop' = Boot /\ baseline' = NoBaseline /\ UNCHANGED server
          /\ excused' = excused \cup {p \in Visible : p <= readp /\ Underway(p)}
      BY <1>12 DEF Crash, Closed
    <2>2. \A p \in asks : p <= readp => Covered(p)'
      BY <1>1, <2>1, PointerCovers DEF Covered, IInv, InSight
    <2> QED BY <2>1, <2>2 DEF CatchUp, Boot, server
  <1> QED BY <1>2, <1>3, <1>4, <1>5, <1>6, <1>7, <1>8, <1>9, <1>10, <1>11, <1>12, LoopSteps DEF Idle

-----------------------------------------------------------------------------
(* The theorems *)

LEMMA InitInvariant ==
  ASSUME Init
  PROVE  IInv
  <1>1. queue \in [EventIds -> Events] /\ \A e \in EventIds : queue[e] = Unknown
    BY Sizes DEF Init, Events, Unknown
  <1>2. Unknown.state = "unknown" /\ Unknown.lane = "none"
    BY DEF Unknown
  <1>3. Lanes
    BY <1>1, <1>2, TwoEvents DEF Init, Lanes
  <1>4. OneOpen
    BY <1>1, <1>2, TwoEvents DEF Init, OneOpen
  <1>5. readp \in NoPointer .. 0 /\ baseline = NoBaseline /\ latest = 0
    BY DEF Init, NoPointer
  <1>6. /\ ack \in [sent : 0 .. MaxPosts, want : 0 .. MaxPosts, target : 0 .. MaxPosts]
        /\ ack.want = 0 /\ ack.target = 0
    BY Sizes DEF Init, NoAck
  <1>7. loop \in Loops /\ loop.at = "top"
    BY DEF Init, Boot, Loops
  <1>8. /\ readp \in NoPointer .. MaxPosts /\ baseline \in NoBaseline .. MaxPosts
        /\ latest \in 0 .. MaxPosts
    BY <1>5, Sizes DEF NoPointer, NoBaseline
  <1>9. TypeOK
    <2>1. admitting \in Seq([post : Posts, lane : {"turn", "question"}]) /\ turns \in [Posts -> Nat]
      BY DEF Init
    <2>2. loop.at \in {"top", "gap", "replay", "ready", "poll"}
      BY <1>7
    <2> QED BY <1>1, <1>6, <1>8, <2>1, <2>2 DEF Init, TypeOK, Events
  <1>10. InSight /\ AdmittedKnown /\ CatchUp /\ FloorCovers
    BY <1>5, <1>6, <1>7 DEF Init, InSight, Visible, AdmittedKnown, CatchUp, FloorCovers, NoBaseline, NoPointer
  <1> QED BY <1>3, <1>4, <1>7, <1>9, <1>10 DEF IInv

LEMMA NextInvariant ==
  ASSUME IInv, [Next]_vars
  PROVE  IInv'
  <1>1. Sight' /\ QueueSafe'
    BY Parts, NextSight, NextQueue
  <1>2. AdmittedKnown' /\ CatchUp' /\ FloorCovers'
    BY NextAdmittedKnown, NextCatchUp, NextFloorCovers
  <1> QED BY <1>1, <1>2 DEF IInv, Sight, QueueSafe

THEOREM Invariance == Spec => []IInv
  BY InitInvariant, NextInvariant, PTL DEF Spec

\* Every variable keeps its type, and the floor never hides an addressed post from the
\* polls of this process: what is at or below it was handled or is excused
\* (inbound-poller.ts:1141-1147).
THEOREM FloorSafe == Spec => []FloorInv
  <1>1. IInv => FloorInv
    BY DEF IInv, FloorInv
  <1> QED BY <1>1, Invariance, PTL

\* The read pointer passes no addressed post but one that is in the queue, is excused, or
\* is above the floor for the next poll to find (inbound-poller.ts:1141-1151, 1396-1440).
THEOREM NothingLost == Spec => []NoPostLost
  <1>1. IInv => NoPostLost
    BY PointerCovers DEF NoPostLost, Covered
  <1> QED BY <1>1, Invariance, PTL

\* A post starts at most one turn that ends well, however often it is seen, replayed or
\* moved between the lanes, and however often the gateway dies.
THEOREM OneTurn == Spec => []TurnOnce
  <1>1. IInv => TurnOnce
    BY DEF IInv, TypeOK, OneOpen, TurnOnce
  <1> QED BY <1>1, Invariance, PTL

=============================================================================
