------------------------- MODULE ReplyDrafts_proofs -------------------------
(***************************************************************************)
(* What ReplyDrafts promises for every number of turns, texts, replies,    *)
(* tool posts, rewrites and upsets: a reply is said once and as it is,     *)
(* nobody loses sight of a draft, nothing works below an open question,    *)
(* and a live draft shows a stretch of what the runner said.  Each holder  *)
(* of a draft (the turn, its finally-block, a send, a tool) keeps what it  *)
(* took from the shared reference over its awaits; the invariant says what *)
(* it may still rely on then.                                              *)
(***************************************************************************)
EXTENDS ReplyDrafts, SequenceTheorems, TLAPS

-----------------------------------------------------------------------------
(* The inductive invariant *)

Speech == [by : {"text", "tool", "stopped", "failed"}, n : Nat]
Said == Seq(Speech)
Entries == [by : {"text", "tool", "stopped", "failed", "reply"}, n : Nat]
PostSet == [status : {"streaming", "published", "gone"}, body : Seq(Entries), key : Nat]
PatchSet == [post : Nat, do : {"none", "append", "replace", "done", "cancel", "reap"}, body : Seq(Entries), key : Nat]
LaneSet == [cum : Said, sent : Nat, rewrite : BOOLEAN, stopped : BOOLEAN, said : Said]
SendSet == [at : {"patching", "posting", "waiting", "sent", "dropped"}, turn : Nat, draft : Nat]
ToolSet == [kind : {"surface", "question"}, turn : Nat, drafted : BOOLEAN, draft : Nat, text : Said,
            at : {"posting", "handing", "ending", "asked", "opening", "dropping", "over"}]

\* What is in the chat is one reply under its key, or text that is none.
Tells(q) ==
  \/ q.key = 0 /\ q.body \in Said
  \/ q.key # 0 /\ q.body = <<Reply(q.key)>>

\* A post that two PATCHes wrote may have the key of one and the text of the other.
Mixes(q) ==
  \/ q.body \in Said
  \/ q.key # 0 /\ q.body = <<Reply(q.key)>>

\* A PATCH may stream text into a post, end it, or make it a reply.
Meant(x) ==
  /\ x \in PatchSet /\ x.post \in DOMAIN posts /\ Tells(x)
  /\ x.do # "none" /\ (x.key # 0 => x.do = "done")

\* A draft, as the server read it.
Drafted(q) == q \in PostSet /\ q.status = "streaming" /\ q.key = 0 /\ q.body \in Said

ChatInv ==
  /\ posts \in Seq(PostSet) /\ hurt \subseteq DOMAIN posts /\ crossed \subseteq DOMAIN posts
  /\ \A p \in DOMAIN posts :
       /\ Mixes(posts[p]) /\ (p \notin crossed => Tells(posts[p]))
       /\ Streaming(p) => posts[p].key = 0 /\ p \notin crossed
  /\ \A p, q \in DOMAIN posts : posts[p].key = posts[q].key /\ posts[p].key # 0 => p = q
  /\ \A x \in late : Meant(x) /\ (x.post \in hurt \/ ~Streaming(x.post))
  /\ \A x \in DOMAIN reads : Meant(x) /\ Drafted(reads[x])

OursInv ==
  /\ phase \in {"idle", "opening", "running", "settling"}
  /\ turn \in 0..MaxTurns /\ stop \in BOOLEAN
  /\ ref \in 0..Len(posts) /\ orphan \in 0..Len(posts)
  /\ ref # 0 => phase = "running"
  /\ phase = "settling" => Meant(settle) /\ settle.do \in {"done", "cancel"}
  /\ spent \in [texts : 0..MaxTexts, rewrites : Nat, upsets : Nat]

SendsInv ==
  /\ sends \in Seq(SendSet)
  /\ \A r \in DOMAIN sends : sends[r].at = "patching" => sends[r].draft \in DOMAIN posts \ {ref}

Off == {"handing", "ending", "asked", "opening"}

\* A tool that took the turn's draft, or found none, has the turn without one until it
\* is over, and it is the only one at work in the turn.
ToolsInv ==
  /\ tools \in Seq(ToolSet)
  /\ \A i \in DOMAIN tools :
       /\ tools[i].turn <= turn
       /\ phase = "opening" => tools[i].turn < turn
       /\ IF tools[i].at \in {"handing", "ending", "dropping"}
          THEN tools[i].draft \in DOMAIN posts \ {ref} ELSE tools[i].draft = 0
       /\ tools[i].at \in Off /\ Registered(tools[i].turn) => ref = 0
  /\ \A i, j \in DOMAIN tools : Busy(i) /\ Busy(j) => i = j

\* A draft that shimmers has somebody other than a flush to end it.
Firm(p) ==
  \/ p = ref
  \/ phase = "settling" /\ settle.post = p
  \/ \E r \in DOMAIN sends : sends[r].at = "patching" /\ sends[r].draft = p
  \/ \E i \in DOMAIN tools : tools[i].draft = p

FirmInv == \A p \in DOMAIN posts : Streaming(p) /\ p \notin hurt => Firm(p)

\* The flush chain: one PATCH at a time, of this turn's lane or of one before it.
FlightInv ==
  /\ lane \in LaneSet /\ raced \in BOOLEAN
  /\ flight \in [on : BOOLEAN, mine : BOOLEAN, patch : PatchSet]
  /\ flight.on => Meant(flight.patch) /\ flight.patch.do \in {"append", "replace"}
  /\ flight.mine => flight.on /\ phase = "running"
  /\ flight.on /\ ~flight.mine => flight.patch.post # ref
  /\ lane.sent <= spent.texts /\ Len(lane.cum) <= spent.texts
  /\ flight.mine => Confirmed.sent <= spent.texts

Replacing == flight.mine /\ flight.patch.do = "replace"

\* What is under way is the next stretch of the text, or all of it so far.
OrderInv ==
  ~raced =>
    /\ flight.mine =>
         /\ ~lane.rewrite
         /\ Confirmed.sent <= Len(lane.cum)
         /\ flight.patch.body = SubSeq(lane.cum, IF Replacing THEN 1 ELSE lane.sent + 1, Confirmed.sent)
    /\ lane.stopped \/ lane.rewrite \/ Replacing \/ lane.sent <= Len(lane.cum)

\* The draft shows a stretch up to what is confirmed, or nothing yet; a PATCH to a draft
\* that was taken from the turn leaves the new one empty.
Stretch(body) ==
  lane.sent <= Len(lane.cum) /\ \E i \in 0..lane.sent : body = SubSeq(lane.cum, i + 1, lane.sent)

ShownInv ==
  ref # 0 /\ ref \notin hurt /\ ~raced /\ Streaming(ref) =>
    /\ lane.rewrite \/ Replacing \/ posts[ref].body = <<>> \/ Stretch(posts[ref].body)
    /\ flight.mine /\ flight.patch.post # ref => posts[ref].body = <<>>

\* Text the server has read a live draft for is under way to it as it still is.
SlowInv ==
  \A x \in DOMAIN reads : x.do \in {"append", "replace"} =>
    \/ x.post \in hurt \/ ~Streaming(x.post)
    \/ flight.on /\ x = flight.patch /\ reads[x] = posts[x.post]

IInv ==
  /\ ChatInv /\ OursInv /\ SendsInv /\ ToolsInv /\ FirmInv /\ FlightInv /\ OrderInv /\ ShownInv
  /\ SlowInv

-----------------------------------------------------------------------------
(* Sequences, posts and PATCHes *)

LEMMA SeqExcept ==
  ASSUME NEW S, NEW s \in Seq(S), NEW i \in DOMAIN s, NEW e \in S
  PROVE  /\ [s EXCEPT ![i] = e] \in Seq(S)
         /\ Len([s EXCEPT ![i] = e]) = Len(s) /\ DOMAIN [s EXCEPT ![i] = e] = DOMAIN s
         /\ \A j \in DOMAIN s : [s EXCEPT ![i] = e][j] = IF j = i THEN e ELSE s[j]
<1>1. i \in 1 .. Len(s) /\ DOMAIN s = 1 .. Len(s)
  BY LenProperties
<1>. QED BY <1>1, ExceptSeq

LEMMA SeqAppend ==
  ASSUME NEW S, NEW s \in Seq(S), NEW e \in S
  PROVE  /\ Append(s, e) \in Seq(S) /\ Len(Append(s, e)) = Len(s) + 1 /\ Len(s) \in Nat
         /\ DOMAIN s = 1 .. Len(s) /\ DOMAIN Append(s, e) = DOMAIN s \cup {Len(s) + 1}
         /\ Len(s) + 1 \notin DOMAIN s
         /\ \A j \in DOMAIN s : Append(s, e)[j] = s[j]
         /\ Append(s, e)[Len(s) + 1] = e
<1>1. Append(s, e) \in Seq(S) /\ Len(s) \in Nat /\ DOMAIN s = 1 .. Len(s)
  BY AppendProperties, LenProperties
<1>2. Len(Append(s, e)) = Len(s) + 1 /\ DOMAIN Append(s, e) = 1 .. (Len(s) + 1)
  BY <1>1, AppendProperties, LenProperties
<1>3. DOMAIN Append(s, e) = DOMAIN s \cup {Len(s) + 1} /\ Len(s) + 1 \notin DOMAIN s
  BY <1>1, <1>2
<1>. QED BY <1>1, <1>2, <1>3, AppendProperties

LEMMA SaidIsEntries == Said \subseteq Seq(Entries) /\ <<>> \in Said
<1>1. Speech \subseteq Entries
  BY DEF Speech, Entries
<1>2. ASSUME NEW s \in Said PROVE s \in Seq(Entries)
  BY <1>1, <1>2, SeqMonotonic DEF Said
<1>. QED BY <1>2, EmptySeq DEF Said

LEMMA ReplyEntries == \A k \in Nat : <<Reply(k)>> \in Seq(Entries)
<1> TAKE k \in Nat
<1>1. Reply(k) \in Entries
  BY DEF Reply, Entries
<1>. QED BY <1>1

LEMMA PostTyped ==
  ASSUME ChatInv, NEW p \in DOMAIN posts
  PROVE  /\ posts[p] \in PostSet /\ Mixes(posts[p]) /\ (p \notin crossed => Tells(posts[p]))
         /\ Streaming(p) => posts[p].key = 0 /\ p \notin crossed /\ Drafted(posts[p])
         /\ p \in 1 .. Len(posts) /\ p \in Nat \ {0}
<1>1. p \in 1 .. Len(posts) /\ Len(posts) \in Nat
  BY LenProperties DEF ChatInv
<1>2. posts[p] \in PostSet
  BY <1>1, ElementOfSeq DEF ChatInv
<1>3. Streaming(p) => posts[p].key = 0 /\ p \notin crossed /\ Drafted(posts[p])
  BY <1>2 DEF ChatInv, Streaming, Tells, Drafted
<1>. QED BY <1>1, <1>2, <1>3 DEF ChatInv

\* The posts a step leaves: none goes, none streams again, none is forgiven.
ChatStep ==
  /\ posts' \in Seq(PostSet) /\ DOMAIN posts \subseteq DOMAIN posts' /\ Len(posts) <= Len(posts')
  /\ hurt \subseteq hurt'
  /\ \A p \in DOMAIN posts : Streaming(p)' => Streaming(p)

\* What the server has read and not yet written: nothing new.
ReadsLess == \A x \in DOMAIN reads' : x \in DOMAIN reads /\ reads'[x] = reads[x]

LEMMA ChatSame == ChatInv /\ UNCHANGED chat => ChatInv' /\ ChatStep /\ ReadsLess
<1> SUFFICES ASSUME ChatInv, UNCHANGED chat PROVE ChatInv' /\ ChatStep /\ ReadsLess
  OBVIOUS
<1>1. Len(posts) \in Nat
  BY LenProperties DEF ChatInv
<1>2. UNCHANGED <<posts, late, hurt, reads, crossed>>
  BY DEF chat, server
<1>. QED BY <1>1, <1>2 DEF ChatInv, ChatStep, ReadsLess, Meant, Streaming

LEMMA UnreadLess == \A x : Unread(x) \/ UNCHANGED reads => ReadsLess
BY DEF Unread, ReadsLess

LEMMA MeantLater ==
  ASSUME DOMAIN posts \subseteq DOMAIN posts', NEW x, Meant(x)
  PROVE  Meant(x)'
BY DEF Meant

LEMMA TellsMixes == \A q : Tells(q) => Mixes(q)
BY DEF Tells, Mixes

\* The post was read as a draft, now or before.
LEMMA WasDraft ==
  ASSUME ChatInv, NEW x, Meant(x), Takes(x)
  PROVE  Drafted(Was(x))
<1>1. CASE x \in DOMAIN reads
  BY <1>1 DEF ChatInv, Was
<1>2. CASE x \notin DOMAIN reads
  <2>1. Was(x) = posts[x.post] /\ x.post \in DOMAIN posts /\ Streaming(x.post)
    BY <1>2 DEF Was, Takes, Meant, Streaming
  <2>. QED BY <2>1, PostTyped
<1>. QED BY <1>1, <1>2

LEMMA ReplyIsNoText == \A k : <<Reply(k)>> \notin Said
<1> SUFFICES ASSUME NEW k, <<Reply(k)>> \in Said PROVE FALSE
  OBVIOUS
<1>1. <<Reply(k)>>[1] \in Speech
  BY ElementOfSeq DEF Said
<1>. QED BY <1>1 DEF Reply, Speech

\* What a PATCH writes: its text after or for what was read, or what is there when that is
\* the same.
LEMMA BodyIs ==
  ASSUME ChatInv, NEW x, Meant(x), Takes(x), ~Deletes(x)
  PROVE  /\ Body(x) \in Seq(Entries)
         /\ x.key = 0 => Message(x) \in Said /\ (Body(x) = Message(x) \/ Body(x) = posts[x.post].body)
         /\ x.key # 0 => Body(x) = <<Reply(x.key)>>
         /\ Was(x) = posts[x.post] => Body(x) = Message(x)
<1>1. Drafted(Was(x)) /\ x \in PatchSet /\ x.post \in DOMAIN posts /\ Tells(x)
  BY WasDraft DEF Meant
<1>2. Was(x).body \in Said /\ posts[x.post] \in PostSet
  BY <1>1, PostTyped DEF Drafted
<1>3. x.key = 0 => Message(x) \in Said
  <2>1. x.key = 0 => x.body \in Said
    BY <1>1 DEF Tells
  <2>2. x.key = 0 => Was(x).body \o x.body \in Said
    BY <1>2, <2>1, ConcatProperties DEF Said
  <2>. QED BY <2>1, <2>2 DEF Message
<1>4. x.key # 0 => Message(x) = <<Reply(x.key)>> /\ Message(x) \notin Said
  BY <1>1, ReplyIsNoText DEF Meant, Tells, Message
<1>5. x.key # 0 => Body(x) = <<Reply(x.key)>>
  BY <1>2, <1>4 DEF Body
<1>6. Body(x) \in Seq(Entries)
  <2>1. x.key \in Nat /\ posts[x.post].body \in Seq(Entries)
    BY <1>1, <1>2 DEF PatchSet, PostSet
  <2>2. Message(x) \in Seq(Entries)
    BY <1>3, <1>4, <2>1, SaidIsEntries, ReplyEntries
  <2>. QED BY <2>1, <2>2 DEF Body
<1>. QED BY <1>3, <1>5, <1>6 DEF Body

\* What a PATCH that is taken makes of its post.
LEMMA PatchTaken ==
  ASSUME ChatInv, NEW x, Meant(x), Takes(x)
  PROVE  \E q \in PostSet :
           /\ Patched(x) = [posts EXCEPT ![x.post] = q]
           /\ Mixes(q) /\ (Streaming(x.post) => Tells(q))
           /\ q.status = "streaming" => q.key = 0 /\ Streaming(x.post)
           /\ q.key # 0 => Keyed(q.key) \subseteq {x.post}
           /\ x.do \notin {"append", "replace"} => q.status # "streaming"
           /\ ~Deletes(x) => q.body = Body(x)
<1> DEFINE o == posts[x.post]
<1>1. /\ x \in PatchSet /\ x.post \in DOMAIN posts /\ Tells(x) /\ o \in PostSet /\ Mixes(o)
      /\ Streaming(x.post) => o.key = 0 /\ o.body \in Said
  BY PostTyped DEF Meant, Drafted
<1>2. /\ x.do \in {"append", "replace", "done", "cancel", "reap"} /\ x.key \in Nat
      /\ x.do # "done" => x.key = 0
  BY <1>1 DEF Meant, PatchSet
<1>3. o.key \in Nat /\ (o.key # 0 => Keyed(o.key) \subseteq {x.post})
  BY <1>1 DEF ChatInv, Keyed, PostSet
<1>4. x.key # 0 => Keyed(x.key) \subseteq {x.post}
  BY DEF Takes
<1>5. CASE Deletes(x)
  <2>1. Patched(x) = [posts EXCEPT ![x.post] = Post("gone", <<>>, 0)]
    BY <1>5 DEF Patched
  <2> DEFINE q == Post("gone", <<>>, 0)
  <2>2. q \in PostSet /\ Tells(q) /\ q.key = 0 /\ q.status = "gone"
    BY SaidIsEntries DEF Post, PostSet, Tells
  <2> HIDE DEF q
  <2>3. Mixes(q)
    BY <2>2, TellsMixes
  <2>. QED BY <1>5, <2>1, <2>2, <2>3 DEF q, Deletes
<1>6. CASE x.do \in {"append", "replace"}
  <2> DEFINE q == [o EXCEPT !.body = Body(x)]
  <2>1. ~Deletes(x) /\ x.do # "done"
    BY <1>6 DEF Deletes
  <2>2. Patched(x) = [posts EXCEPT ![x.post] = q]
    BY <2>1 DEF Patched
  <2>3. /\ Body(x) \in Seq(Entries)
        /\ Body(x) \in Said \/ Body(x) = o.body
    BY <1>2, <2>1, BodyIs
  <2>4. q \in PostSet /\ q.status = o.status /\ q.body = Body(x) /\ q.key = o.key
    BY <1>1, <2>3 DEF PostSet
  <2>5. q.status = "streaming" => q.key = 0 /\ Streaming(x.post)
    BY <1>1, <2>4 DEF Streaming
  <2> HIDE DEF q
  <2>6. Mixes(q) /\ (Streaming(x.post) => Tells(q))
    <3>1. CASE q.body \in Said
      BY <1>1, <2>4, <3>1 DEF Mixes, Tells
    <3>2. CASE q.body \notin Said
      BY <1>1, <2>3, <2>4, <3>2 DEF Mixes
    <3>. QED BY <3>1, <3>2
  <2>. QED BY <1>3, <1>6, <2>1, <2>2, <2>4, <2>5, <2>6
<1>7. CASE x.do = "done"
  <2> DEFINE q == Post("published", Body(x), IF x.key # 0 THEN x.key ELSE o.key)
  <2>1. ~Deletes(x)
    BY <1>7 DEF Deletes
  <2>2. Patched(x) = [posts EXCEPT ![x.post] = q]
    BY <1>7, <2>1 DEF Patched
  <2>3. /\ Body(x) \in Seq(Entries)
        /\ x.key = 0 => Body(x) \in Said \/ Body(x) = o.body
        /\ x.key # 0 => Body(x) = <<Reply(x.key)>>
    BY <1>2, <2>1, BodyIs
  <2>4. /\ q.status = "published" /\ q.body = Body(x)
        /\ q.key = IF x.key # 0 THEN x.key ELSE o.key
    BY DEF Post
  <2>5. q \in PostSet
    BY <1>2, <1>3, <2>3 DEF Post, PostSet
  <2> HIDE DEF q
  <2>6. Mixes(q) /\ (Streaming(x.post) => Tells(q))
    <3>1. CASE x.key # 0
      <4>1. Tells(q)
        BY <2>3, <2>4, <3>1 DEF Tells
      <4>. QED BY <4>1, TellsMixes
    <3>2. CASE x.key = 0
      <4>1. q.key = o.key /\ (q.body \in Said \/ q.body = o.body)
        BY <2>3, <2>4, <3>2
      <4>2. Mixes(q)
        BY <1>1, <4>1 DEF Mixes
      <4>3. Streaming(x.post) => Tells(q)
        BY <1>1, <4>1 DEF Tells
      <4>. QED BY <4>2, <4>3
    <3>. QED BY <3>1, <3>2
  <2>. QED BY <1>3, <1>4, <1>7, <2>1, <2>2, <2>4, <2>5, <2>6
<1>. QED BY <1>2, <1>5, <1>6, <1>7 DEF Deletes

\* The posts after a PATCH that was written, or was not.
LEMMA PatchLeaves ==
  ASSUME ChatInv, NEW x, Meant(x), Written(x) \/ UNCHANGED <<posts, crossed>>
  PROVE  /\ posts' \in Seq(PostSet) /\ DOMAIN posts' = DOMAIN posts /\ Len(posts') = Len(posts)
         /\ crossed' \subseteq DOMAIN posts
         /\ \A p \in DOMAIN posts :
              /\ Mixes(posts'[p]) /\ (p \notin crossed' => Tells(posts'[p]))
              /\ Streaming(p)' => posts'[p].key = 0 /\ p \notin crossed'
         /\ \A p, q \in DOMAIN posts : posts'[p].key = posts'[q].key /\ posts'[p].key # 0 => p = q
         /\ \A p \in DOMAIN posts : Streaming(p)' => Streaming(p)
         /\ \A p \in DOMAIN posts : p # x.post => posts'[p] = posts[p]
<1>1. CASE UNCHANGED <<posts, crossed>>
  BY <1>1 DEF ChatInv, Streaming
<1>2. CASE Written(x) /\ ~Takes(x)
  <2>1. UNCHANGED <<posts, crossed>>
    BY <1>2 DEF Written, Patched
  <2>. QED BY <1>1, <2>1
<1>3. CASE Written(x) /\ Takes(x)
  <2>1. /\ x.post \in DOMAIN posts /\ posts \in Seq(PostSet) /\ posts' = Patched(x)
        /\ crossed' = IF Streaming(x.post) THEN crossed ELSE crossed \cup {x.post}
    BY <1>3 DEF Written, ChatInv, Meant
  <2>2. PICK q \in PostSet :
          /\ Patched(x) = [posts EXCEPT ![x.post] = q]
          /\ Mixes(q) /\ (Streaming(x.post) => Tells(q))
          /\ q.status = "streaming" => q.key = 0 /\ Streaming(x.post)
          /\ q.key # 0 => Keyed(q.key) \subseteq {x.post}
    BY <1>3, PatchTaken
  <2>3. posts' = [posts EXCEPT ![x.post] = q]
    BY <2>1, <2>2
  <2>4. /\ posts' \in Seq(PostSet) /\ DOMAIN posts' = DOMAIN posts /\ Len(posts') = Len(posts)
        /\ \A p \in DOMAIN posts : posts'[p] = IF p = x.post THEN q ELSE posts[p]
    BY <2>1, <2>3, SeqExcept
  <2>5. \A p \in DOMAIN posts : p = x.post \/ posts[p].key # q.key \/ q.key = 0
    BY <2>2 DEF Keyed
  <2>6. \A p, r \in DOMAIN posts : posts'[p].key = posts'[r].key /\ posts'[p].key # 0 => p = r
    BY <2>4, <2>5 DEF ChatInv
  <2>7. \A p \in DOMAIN posts : Streaming(p)' => Streaming(p)
    BY <2>2, <2>4 DEF Streaming
  <2>8. ASSUME NEW p \in DOMAIN posts
        PROVE  /\ Mixes(posts'[p]) /\ (p \notin crossed' => Tells(posts'[p]))
               /\ Streaming(p)' => posts'[p].key = 0 /\ p \notin crossed'
    <3>1. CASE p = x.post
      <4>1. posts'[p] = q /\ (p \notin crossed' => Streaming(x.post))
        BY <2>1, <2>4, <3>1
      <4>2. Streaming(p)' => q.status = "streaming" /\ Streaming(p) /\ crossed' = crossed
        BY <2>1, <2>2, <3>1, <4>1 DEF Streaming
      <4>. QED BY <2>2, <3>1, <4>1, <4>2 DEF ChatInv
    <3>2. CASE p # x.post
      <4>1. posts'[p] = posts[p] /\ (p \in crossed' <=> p \in crossed)
        BY <2>1, <2>4, <3>2
      <4>. QED BY <4>1 DEF ChatInv, Streaming
    <3>. QED BY <3>1, <3>2
  <2>9. crossed' \subseteq DOMAIN posts
    BY <2>1 DEF ChatInv
  <2>. QED BY <2>4, <2>6, <2>7, <2>8, <2>9
<1>. QED BY <1>1, <1>2, <1>3

\* A PATCH that ends a post and is taken leaves it no longer streaming.
LEMMA PatchEnds ==
  ASSUME ChatInv, NEW x, Meant(x), Takes(x), x.do \notin {"append", "replace"}, posts' = Patched(x)
  PROVE  ~Streaming(x.post)'
<1>1. PICK q \in PostSet : Patched(x) = [posts EXCEPT ![x.post] = q] /\ q.status # "streaming"
  BY PatchTaken
<1>2. posts'[x.post] = q
  BY <1>1, SeqExcept DEF Meant, ChatInv
<1>. QED BY <1>1, <1>2 DEF Streaming

\* The chat after a write, whatever PATCHes are still to come then.
LEMMA WriteFacts ==
  ASSUME ChatInv, NEW x, Meant(x), Written(x) \/ UNCHANGED <<posts, crossed>>,
         hurt \subseteq hurt', hurt' \subseteq DOMAIN posts, ReadsLess,
         \A y \in late' : y \in late \/ (y = x /\ x.post \in hurt')
  PROVE  /\ ChatInv' /\ ChatStep
         /\ DOMAIN posts' = DOMAIN posts /\ Len(posts') = Len(posts)
         /\ \A p \in DOMAIN posts : p # x.post => posts'[p] = posts[p]
<1>1. /\ posts' \in Seq(PostSet) /\ DOMAIN posts' = DOMAIN posts /\ Len(posts') = Len(posts)
      /\ crossed' \subseteq DOMAIN posts
      /\ \A p \in DOMAIN posts :
           /\ Mixes(posts'[p]) /\ (p \notin crossed' => Tells(posts'[p]))
           /\ Streaming(p)' => posts'[p].key = 0 /\ p \notin crossed'
      /\ \A p, q \in DOMAIN posts : posts'[p].key = posts'[q].key /\ posts'[p].key # 0 => p = q
      /\ \A p \in DOMAIN posts : Streaming(p)' => Streaming(p)
      /\ \A p \in DOMAIN posts : p # x.post => posts'[p] = posts[p]
  BY PatchLeaves
<1>2. ASSUME NEW y \in late' PROVE Meant(y)' /\ (y.post \in hurt' \/ ~Streaming(y.post)')
  <2>1. CASE y \in late
    <3>1. Meant(y) /\ y.post \in DOMAIN posts /\ (y.post \in hurt \/ ~Streaming(y.post))
      BY <2>1 DEF ChatInv, Meant
    <3>. QED BY <1>1, <3>1, MeantLater
  <2>2. CASE y \notin late
    BY <1>1, <1>2, <2>2, MeantLater
  <2>. QED BY <2>1, <2>2
<1>3. \A y \in DOMAIN reads' : Meant(y)' /\ Drafted(reads'[y])
  BY <1>1, MeantLater DEF ChatInv, ReadsLess
<1>4. ChatInv'
  BY <1>1, <1>2, <1>3 DEF ChatInv
<1>5. ChatStep
  BY <1>1, LenProperties DEF ChatStep
<1>. QED BY <1>1, <1>4, <1>5

LEMMA SentFacts ==
  ASSUME ChatInv, NEW x, Meant(x), NEW fate \in Fates, Sent(x, fate)
  PROVE  /\ ChatInv' /\ ChatStep /\ ReadsLess
         /\ DOMAIN posts' = DOMAIN posts /\ Len(posts') = Len(posts)
         /\ \A p \in DOMAIN posts : p # x.post => posts'[p] = posts[p]
         /\ x.do \in {"done", "cancel"} /\ Streaming(x.post)' => x.post \in hurt'
         /\ x.post \notin hurt' => Heard(x, fate) /\ posts' = Patched(x) /\ x \notin DOMAIN reads'
<1>1. Written(x) \/ UNCHANGED <<posts, crossed>>
  BY DEF Sent
<1>2. x.post \in DOMAIN posts /\ hurt \subseteq DOMAIN posts
  BY DEF Meant, ChatInv
<1>3. hurt \subseteq hurt' /\ hurt' \subseteq DOMAIN posts
  BY <1>2 DEF Sent
<1>4. x.post \notin hurt' => fate = "done" /\ Takes(x) /\ posts' = Patched(x) /\ x \notin DOMAIN reads'
  BY DEF Sent, Written, Unread
<1>5. ReadsLess
  BY UnreadLess DEF Sent
<1>6. \A y \in late' : y \in late \/ (y = x /\ x.post \in hurt')
  BY DEF Sent
<1>7. /\ ChatInv' /\ ChatStep
      /\ DOMAIN posts' = DOMAIN posts /\ Len(posts') = Len(posts)
      /\ \A p \in DOMAIN posts : p # x.post => posts'[p] = posts[p]
  BY <1>1, <1>3, <1>5, <1>6, WriteFacts
<1>8. x.do \in {"done", "cancel"} /\ Streaming(x.post)' => x.post \in hurt'
  BY <1>4, PatchEnds
<1>. QED BY <1>4, <1>5, <1>7, <1>8 DEF Heard

\* A new post.
LEMMA NewPost ==
  ASSUME ChatInv, NEW q \in PostSet, Tells(q), q.status = "streaming" => q.key = 0,
         q.key # 0 => Keyed(q.key) = {}, posts' = Append(posts, q), late' = late, UNCHANGED server,
         hurt' = hurt \/ hurt' = hurt \cup {Len(posts')}
  PROVE  /\ ChatInv' /\ ChatStep
         /\ Len(posts') = Len(posts) + 1 /\ Len(posts') \in DOMAIN posts'
         /\ Len(posts') \notin DOMAIN posts /\ posts'[Len(posts')] = q
         /\ DOMAIN posts' = DOMAIN posts \cup {Len(posts')}
         /\ \A p \in DOMAIN posts : posts'[p] = posts[p]
<1>1. posts \in Seq(PostSet)
  BY DEF ChatInv
<1>2. /\ posts' \in Seq(PostSet) /\ Len(posts') = Len(posts) + 1 /\ Len(posts) \in Nat
      /\ DOMAIN posts' = DOMAIN posts \cup {Len(posts')} /\ Len(posts') \notin DOMAIN posts
      /\ \A p \in DOMAIN posts : posts'[p] = posts[p]
      /\ posts'[Len(posts')] = q
  BY <1>1, SeqAppend
<1>3. ASSUME NEW p \in DOMAIN posts'
      PROVE  /\ Mixes(posts'[p]) /\ (p \notin crossed' => Tells(posts'[p]))
             /\ Streaming(p)' => posts'[p].key = 0 /\ p \notin crossed'
  <2>1. CASE p \in DOMAIN posts
    BY <1>2, <2>1 DEF ChatInv, Streaming, server
  <2>2. CASE p = Len(posts')
    <3>1. posts'[p] = q /\ p \notin crossed'
      BY <1>2, <2>2 DEF ChatInv, server
    <3>. QED BY <3>1, TellsMixes DEF Streaming
  <2>. QED BY <1>2, <2>1, <2>2
<1>4. \A p \in DOMAIN posts : posts[p].key # q.key \/ q.key = 0
  BY DEF Keyed
<1>5. \A p, r \in DOMAIN posts' : posts'[p].key = posts'[r].key /\ posts'[p].key # 0 => p = r
  BY <1>2, <1>4 DEF ChatInv
<1>6. ASSUME NEW y \in late' PROVE Meant(y)' /\ (y.post \in hurt' \/ ~Streaming(y.post)')
  <2>1. Meant(y) /\ y.post \in DOMAIN posts /\ (y.post \in hurt \/ ~Streaming(y.post))
    BY <1>6 DEF ChatInv, Meant
  <2>. QED BY <1>2, <2>1, MeantLater DEF Streaming
<1>7. hurt' \subseteq DOMAIN posts' /\ crossed' \subseteq DOMAIN posts'
  BY <1>2 DEF ChatInv, server
<1>8. \A y \in DOMAIN reads' : Meant(y)' /\ Drafted(reads'[y])
  BY <1>2, MeantLater DEF ChatInv, server
<1>9. ChatInv'
  BY <1>2, <1>3, <1>5, <1>6, <1>7, <1>8 DEF ChatInv
<1>10. ChatStep
  BY <1>2 DEF ChatStep, Streaming
<1>. QED BY <1>2, <1>9, <1>10

-----------------------------------------------------------------------------
(* Who sends what *)

LEMMA SendTyped ==
  ASSUME SendsInv, NEW r \in DOMAIN sends
  PROVE  sends[r] \in SendSet /\ r \in Nat \ {0}
<1>1. r \in 1 .. Len(sends) /\ Len(sends) \in Nat
  BY LenProperties DEF SendsInv
<1>. QED BY <1>1, ElementOfSeq DEF SendsInv

LEMMA ToolTyped ==
  ASSUME ToolsInv, NEW i \in DOMAIN tools
  PROVE  /\ tools[i] \in ToolSet
         /\ tools[i].kind \in {"surface", "question"} /\ tools[i].turn \in Nat
         /\ tools[i].drafted \in BOOLEAN /\ tools[i].draft \in Nat /\ tools[i].text \in Said
         /\ i \in Nat \ {0}
<1>1. i \in 1 .. Len(tools) /\ Len(tools) \in Nat
  BY LenProperties DEF ToolsInv
<1>2. tools[i] \in ToolSet
  BY <1>1, ElementOfSeq DEF ToolsInv
<1>. QED BY <1>1, <1>2 DEF ToolSet

LEMMA CancelMeant ==
  ASSUME ChatInv, NEW p \in DOMAIN posts
  PROVE  Meant(Cancel(p)) /\ Cancel(p).do = "cancel" /\ Cancel(p).post = p
BY PostTyped, SaidIsEntries DEF Meant, Cancel, Patch, PatchSet, Tells

LEMMA FinishMeant ==
  ASSUME ChatInv, NEW p \in DOMAIN posts, NEW body \in Said
  PROVE  Meant(Finish(p, body, 0)) /\ Finish(p, body, 0).do = "done" /\ Finish(p, body, 0).post = p
<1>1. body \in Seq(Entries) /\ p \in Nat
  BY SaidIsEntries, PostTyped
<1>. QED BY <1>1 DEF Meant, Finish, Patch, PatchSet, Tells

LEMMA SendMeant ==
  ASSUME ChatInv, SendsInv, NEW r \in DOMAIN sends, sends[r].at = "patching"
  PROVE  Meant(SendPatch(r)) /\ SendPatch(r).do = "done" /\ SendPatch(r).post = sends[r].draft
<1>1. r \in Nat \ {0} /\ <<Reply(r)>> \in Seq(Entries)
  BY SendTyped, ReplyEntries
<1>2. sends[r].draft \in DOMAIN posts /\ sends[r].draft \in Nat
  BY PostTyped DEF SendsInv
<1>. QED BY <1>1, <1>2 DEF Meant, SendPatch, SendKey, Finish, Patch, PatchSet, Tells

LEMMA EndMeant ==
  ASSUME ChatInv, ToolsInv, NEW i \in DOMAIN tools, tools[i].at = "ending"
  PROVE  /\ Meant(EndPatch(i)) /\ EndPatch(i).do \in {"done", "cancel"}
         /\ EndPatch(i).post = tools[i].draft
<1>1. tools[i].draft \in DOMAIN posts /\ tools[i].text \in Said
  BY ToolTyped DEF ToolsInv
<1>. QED BY <1>1, CancelMeant, FinishMeant DEF EndPatch

LEMMA DropMeant ==
  ASSUME ChatInv, ToolsInv, NEW i \in DOMAIN tools, tools[i].at = "dropping"
  PROVE  /\ Meant(Cancel(tools[i].draft)) /\ Cancel(tools[i].draft).do = "cancel"
         /\ Cancel(tools[i].draft).post = tools[i].draft
<1>1. tools[i].draft \in DOMAIN posts
  BY DEF ToolsInv
<1>. QED BY <1>1, CancelMeant

LEMMA InFlightMeant ==
  ASSUME ChatInv, OursInv, SendsInv, ToolsInv, FlightInv, NEW x \in InFlight
  PROVE  Meant(x)
<1>1. CASE flight.on /\ x = flight.patch
  BY <1>1 DEF FlightInv
<1>2. CASE phase = "settling" /\ x = settle
  BY <1>2 DEF OursInv
<1>3. CASE \E r \in DOMAIN sends : sends[r].at = "patching" /\ x = SendPatch(r)
  BY <1>3, SendMeant
<1>4. CASE \E i \in DOMAIN tools : tools[i].at = "ending" /\ x = EndPatch(i)
  BY <1>4, EndMeant
<1>5. CASE \E i \in DOMAIN tools : tools[i].at = "dropping" /\ x = Cancel(tools[i].draft)
  BY <1>5, DropMeant
<1>. QED BY <1>1, <1>2, <1>3, <1>4, <1>5 DEF InFlight

-----------------------------------------------------------------------------
(* The chat *)

LEMMA DraftPost ==
  LET q == Post("streaming", <<>>, 0) IN
    q \in PostSet /\ Tells(q) /\ q.key = 0 /\ q.status = "streaming" /\ q.body = <<>>
BY SaidIsEntries DEF Post, PostSet, Tells

LEMMA BlockPost ==
  ASSUME NEW i \in Nat
  PROVE  LET q == Post("published", <<Block(i)>>, 0) IN
           q \in PostSet /\ Tells(q) /\ q.key = 0 /\ q.status = "published"
<1>1. Block(i) \in Speech
  BY DEF Block, Speech
<1>2. <<Block(i)>> \in Said
  BY <1>1 DEF Said
<1>. QED BY <1>2, SaidIsEntries DEF Post, PostSet, Tells

LEMMA ReplyPost ==
  ASSUME NEW r \in Nat \ {0}
  PROVE  LET q == Post("published", <<Reply(r)>>, SendKey(r)) IN
           q \in PostSet /\ Tells(q) /\ q.key = r /\ q.status = "published"
BY ReplyEntries DEF Post, PostSet, Tells, SendKey

\* A step of the server touches nothing of the plugin's.
LEMMA ServerOnly ==
  ASSUME Server
  PROVE  /\ UNCHANGED <<phase, turn, stop, settle, ref, orphan, lane, flight, raced, sends, tools, hurt>>
         /\ spent' = spent \/ spent' = [spent EXCEPT !.upsets = @ + 1]
<1>1. CASE LateLands
  BY <1>1 DEF LateLands, ours, draft, stream, jobs
<1>2. CASE ReadForPatch
  BY <1>2 DEF ReadForPatch, ReadFor, Upset, ours, draft, stream, jobs
<1>3. CASE Reaped
  BY <1>3 DEF Reaped, ours, draft, stream, jobs
<1>4. CASE ReadForReaper
  BY <1>4 DEF ReadForReaper, ReadFor, Upset, ours, draft, stream, jobs
<1>5. CASE ReapedSlowly
  BY <1>5 DEF ReapedSlowly, ours, draft, stream, jobs
<1>. QED BY <1>1, <1>2, <1>3, <1>4, <1>5 DEF Server

LEMMA ReapMeant ==
  ASSUME ChatInv, NEW p \in DOMAIN posts
  PROVE  Meant(Reap(p)) /\ Reap(p).do = "reap" /\ Reap(p).post = p
BY PostTyped, SaidIsEntries DEF Meant, Reap, Patch, PatchSet, Tells

\* The server reads the post of one more PATCH.
LEMMA ReadFacts ==
  ASSUME ChatInv, NEW x, Meant(x), ReadFor(x), UNCHANGED <<posts, late, hurt, crossed>>
  PROVE  /\ ChatInv' /\ ChatStep
         /\ \A y \in DOMAIN reads' :
              IF y = x THEN Streaming(x.post) /\ reads'[x] = posts[x.post]
              ELSE y \in DOMAIN reads /\ reads'[y] = reads[y]
<1>1. x.post \in DOMAIN posts /\ Streaming(x.post)
  BY DEF Meant, ReadFor
<1>2. \A y \in DOMAIN reads' :
        IF y = x THEN reads'[x] = posts[x.post] ELSE y \in DOMAIN reads /\ reads'[y] = reads[y]
  BY DEF ReadFor
<1>3. Drafted(posts[x.post])
  BY <1>1, PostTyped
<1>4. \A y \in DOMAIN reads' : Meant(y) /\ Drafted(reads'[y])
  BY <1>2, <1>3 DEF ChatInv
<1>5. \A y : Meant(y) => Meant(y)'
  BY DEF Meant
<1>6. \A p : Streaming(p)' = Streaming(p)
  BY DEF Streaming
<1>7. ChatInv'
  <2>1. \A y \in late' : Meant(y)' /\ (y.post \in hurt' \/ ~Streaming(y.post)')
    BY <1>5, <1>6 DEF ChatInv
  <2>2. \A y \in DOMAIN reads' : Meant(y)' /\ Drafted(reads'[y])
    BY <1>4, <1>5
  <2>. QED BY <1>6, <2>1, <2>2 DEF ChatInv
<1>8. ChatStep
  BY <1>6, LenProperties DEF ChatStep, ChatInv
<1>. QED BY <1>1, <1>2, <1>7, <1>8

\* A PATCH given up arrives after all, or the reaper's DELETE.
LEMMA WritesFacts ==
  ASSUME ChatInv, LateLands \/ Reaped \/ ReapedSlowly
  PROVE  /\ ChatInv' /\ ChatStep /\ ReadsLess
         /\ DOMAIN posts' = DOMAIN posts /\ Len(posts') = Len(posts)
         /\ \A p \in DOMAIN posts : Streaming(p)' /\ p \notin hurt => posts'[p] = posts[p]
<1>1. PICK x :
        /\ Meant(x) /\ Written(x) /\ late' \subseteq late /\ hurt' = hurt /\ ReadsLess
        /\ x.post \in hurt \/ ~Streaming(x.post) \/ x.do = "reap"
  <2>1. CASE LateLands
    <3>1. PICK x \in late : late' = late \ {x} /\ Written(x) /\ Unread(x) /\ hurt' = hurt
      BY <2>1 DEF LateLands
    <3>. QED BY <3>1, UnreadLess DEF ChatInv
  <2>2. CASE Reaped
    <3>1. PICK p \in DOMAIN posts :
            /\ Stale(p) /\ posts' = [posts EXCEPT ![p] = Post("gone", <<>>, 0)]
            /\ late' = late /\ hurt' = hurt /\ UNCHANGED server
      BY <2>2 DEF Reaped
    <3>2. Meant(Reap(p)) /\ Reap(p).do = "reap" /\ Reap(p).post = p /\ Reap(p).key = 0
      BY ReapMeant DEF Reap, Patch
    <3>3. Streaming(p) /\ reads' = reads /\ crossed' = crossed
      BY <3>1 DEF Stale, server
    <3>4. Was(Reap(p)).status = "streaming"
      BY <3>2, <3>3 DEF Was, Streaming, ChatInv, Drafted
    <3>5. Takes(Reap(p)) /\ Deletes(Reap(p))
      BY <3>2, <3>4 DEF Takes, Deletes
    <3>6. Written(Reap(p))
      BY <3>1, <3>2, <3>3, <3>5 DEF Written, Patched
    <3>. QED BY <3>1, <3>2, <3>3, <3>6, UnreadLess
  <2>3. CASE ReapedSlowly
    <3>1. PICK x \in DOMAIN reads : x.do = "reap" /\ Written(x) /\ Unread(x) /\ late' = late /\ hurt' = hurt
      BY <2>3 DEF ReapedSlowly
    <3>. QED BY <3>1, UnreadLess DEF ChatInv
  <2>. QED BY <2>1, <2>2, <2>3
<1>2. /\ ChatInv' /\ ChatStep
      /\ DOMAIN posts' = DOMAIN posts /\ Len(posts') = Len(posts)
      /\ \A p \in DOMAIN posts : p # x.post => posts'[p] = posts[p]
  <2>1. hurt \subseteq hurt' /\ hurt' \subseteq DOMAIN posts
    BY <1>1 DEF ChatInv
  <2>2. \A y \in late' : y \in late \/ (y = x /\ x.post \in hurt')
    BY <1>1
  <2>. QED BY <1>1, <2>1, <2>2, WriteFacts
<1>3. ASSUME Streaming(x.post)', x.post \notin hurt PROVE posts' = posts
  <2>1. x.post \in DOMAIN posts
    BY <1>1 DEF Meant
  <2>2. x.do = "reap"
    BY <1>1, <1>2, <1>3, <2>1 DEF ChatStep
  <2>3. ~Takes(x)
    BY <1>1, <1>3, <2>2, PatchEnds DEF Written
  <2>. QED BY <1>1, <2>3 DEF Written, Patched
<1>4. ASSUME NEW p \in DOMAIN posts, Streaming(p)', p \notin hurt PROVE posts'[p] = posts[p]
  BY <1>2, <1>3, <1>4
<1>. QED BY <1>1, <1>2, <1>4

\* What the server does on its own.
LEMMA ServerFacts ==
  ASSUME IInv, Server
  PROVE  /\ ChatInv' /\ ChatStep
         /\ DOMAIN posts' = DOMAIN posts /\ Len(posts') = Len(posts)
         /\ \A p \in DOMAIN posts : Streaming(p)' /\ p \notin hurt => posts'[p] = posts[p]
<1>1. ChatInv /\ OursInv /\ SendsInv /\ ToolsInv /\ FlightInv
  BY DEF IInv
<1>2. CASE LateLands \/ Reaped \/ ReapedSlowly
  BY <1>1, <1>2, WritesFacts
<1>3. CASE ReadForPatch
  <2>1. PICK x \in InFlight \cup late : ReadFor(x) /\ UNCHANGED <<posts, late, hurt, crossed>>
    BY <1>3 DEF ReadForPatch
  <2>2. Meant(x)
    BY <1>1, <2>1, InFlightMeant DEF ChatInv
  <2>. QED BY <1>1, <2>1, <2>2, ReadFacts
<1>4. CASE ReadForReaper
  <2>1. PICK p \in DOMAIN posts : ReadFor(Reap(p)) /\ UNCHANGED <<posts, late, hurt, crossed>>
    BY <1>4 DEF ReadForReaper
  <2>. QED BY <1>1, <2>1, ReapMeant, ReadFacts
<1>. QED BY <1>2, <1>3, <1>4 DEF Server

LEMMA CrashFacts ==
  ASSUME IInv, Crash
  PROVE  /\ ChatInv' /\ ChatStep /\ ReadsLess /\ posts' = posts
         /\ \A p \in DOMAIN posts : Streaming(p) => p \in hurt'
<1>1. ChatInv /\ OursInv /\ SendsInv /\ ToolsInv /\ FlightInv
  BY DEF IInv
<1>2. posts' = posts /\ late' = late \cup InFlight /\ hurt' = hurt \cup {p \in DOMAIN posts : Streaming(p)}
  <2>1. late' = late \cup InFlight
    BY Zenon DEF Crash
  <2>2. hurt' = hurt \cup {p \in DOMAIN posts : Streaming(p)}
    BY Zenon DEF Crash
  <2>3. posts' = posts
    BY ZenonT(30) DEF Crash
  <2>. QED BY <2>1, <2>2, <2>3
<1>3. reads' = reads /\ crossed' = crossed
  <2>1. server' = server
    BY ZenonT(30) DEF Crash
  <2>. QED BY <2>1 DEF server
<1>4. ASSUME NEW y \in late' PROVE Meant(y)' /\ (y.post \in hurt' \/ ~Streaming(y.post)')
  <2>1. Meant(y)
    BY <1>1, <1>2, InFlightMeant DEF ChatInv
  <2>2. y.post \in DOMAIN posts
    BY <2>1 DEF Meant
  <2>. QED BY <1>2, <2>1, <2>2, MeantLater DEF Streaming
<1>5. \A y \in DOMAIN reads' : Meant(y)' /\ Drafted(reads'[y])
  BY <1>1, <1>2, <1>3, MeantLater DEF ChatInv
<1>6. ChatInv'
  BY <1>1, <1>2, <1>3, <1>4, <1>5 DEF ChatInv, Streaming
<1>7. ChatStep
  BY <1>1, <1>2, LenProperties DEF ChatStep, ChatInv, Streaming
<1>8. ReadsLess
  BY <1>3, UnreadLess
<1>. QED BY <1>2, <1>6, <1>7, <1>8

\* The post a reply is sent as, when it is not there yet.
LEMMA PostedFacts ==
  ASSUME ChatInv, SendsInv, NEW r \in DOMAIN sends, posts' = posts \/ posts' = WithReply(r),
         late' = late, UNCHANGED server, hurt' = hurt
  PROVE  /\ ChatInv' /\ ChatStep /\ Len(posts') >= Len(posts) /\ DOMAIN posts \subseteq DOMAIN posts'
         /\ \A p \in DOMAIN posts : posts'[p] = posts[p]
         /\ \A p \in DOMAIN posts' : p \notin DOMAIN posts => ~Streaming(p)'
<1>1. CASE posts' = posts
  BY <1>1, ChatSame, LenProperties DEF chat, ChatInv
<1>2. CASE posts' # posts
  <2> DEFINE q == Post("published", <<Reply(r)>>, SendKey(r))
  <2>1. r \in Nat \ {0} /\ SendKey(r) = r
    BY SendTyped DEF SendKey
  <2>2. q \in PostSet /\ Tells(q) /\ q.key = r /\ q.status = "published"
    BY <2>1, ReplyPost
  <2>3. posts' = Append(posts, q) /\ Keyed(r) = {}
    BY <1>2, <2>1 DEF WithReply
  <2> HIDE DEF q
  <2>4. /\ ChatInv' /\ ChatStep /\ Len(posts') = Len(posts) + 1
        /\ posts'[Len(posts')] = q /\ DOMAIN posts' = DOMAIN posts \cup {Len(posts')}
        /\ \A p \in DOMAIN posts : posts'[p] = posts[p]
    BY <2>2, <2>3, NewPost
  <2>. QED BY <2>2, <2>4, LenProperties DEF ChatInv, Streaming
<1>. QED BY <1>1, <1>2

\* A tool's block or question, in the chat or lost.
LEMMA BlockFacts ==
  ASSUME ChatInv, NEW i \in Nat, late' = late, UNCHANGED server, hurt' = hurt,
         posts' = posts \/ posts' = Append(posts, Post("published", <<Block(i)>>, 0))
  PROVE  /\ ChatInv' /\ ChatStep /\ Len(posts') >= Len(posts) /\ DOMAIN posts \subseteq DOMAIN posts'
         /\ \A p \in DOMAIN posts : posts'[p] = posts[p]
         /\ \A p \in DOMAIN posts' : p \notin DOMAIN posts => ~Streaming(p)'
<1>1. CASE posts' = posts
  BY <1>1, ChatSame, LenProperties DEF chat, ChatInv
<1>2. CASE posts' # posts
  <2> DEFINE q == Post("published", <<Block(i)>>, 0)
  <2>1. q \in PostSet /\ Tells(q) /\ q.key = 0 /\ q.status = "published"
    BY BlockPost
  <2>2. posts' = Append(posts, q)
    BY <1>2
  <2> HIDE DEF q
  <2>3. /\ ChatInv' /\ ChatStep /\ Len(posts') = Len(posts) + 1
        /\ posts'[Len(posts')] = q /\ DOMAIN posts' = DOMAIN posts \cup {Len(posts')}
        /\ \A p \in DOMAIN posts : posts'[p] = posts[p]
    BY <2>1, <2>2, NewPost
  <2>. QED BY <2>1, <2>3, LenProperties DEF ChatInv, Streaming
<1>. QED BY <1>1, <1>2

\* A draft that was asked for: it streams, and either the answer tells of it or it is hurt.
LEMMA DraftFacts ==
  ASSUME ChatInv, NEW fate \in {"done", "lost", "unheard"}, late' = late, UNCHANGED server,
         posts' = IF fate = "lost" THEN posts ELSE Append(posts, Post("streaming", <<>>, 0)),
         hurt' = IF fate = "unheard" THEN hurt \cup {Len(posts')} ELSE hurt
  PROVE  /\ ChatInv' /\ ChatStep /\ Len(posts') >= Len(posts) /\ DOMAIN posts \subseteq DOMAIN posts'
         /\ \A p \in DOMAIN posts : posts'[p] = posts[p]
         /\ \A p \in DOMAIN posts' : p \notin DOMAIN posts => fate # "lost" /\ p = Len(posts')
         /\ fate = "unheard" => Len(posts') \in hurt'
         /\ fate = "done" =>
              /\ Len(posts') \in DOMAIN posts' \ DOMAIN posts /\ Len(posts') \in Nat \ {0}
              /\ posts'[Len(posts')].body = <<>>
<1>1. CASE fate = "lost"
  BY <1>1, ChatSame, LenProperties DEF chat, ChatInv
<1>2. CASE fate # "lost"
  <2> DEFINE q == Post("streaming", <<>>, 0)
  <2>1. q \in PostSet /\ Tells(q) /\ q.key = 0 /\ q.body = <<>>
    BY DraftPost
  <2>2. posts' = Append(posts, q) /\ (hurt' = hurt \/ hurt' = hurt \cup {Len(posts')})
    BY <1>2
  <2> HIDE DEF q
  <2>3. /\ ChatInv' /\ ChatStep /\ Len(posts') = Len(posts) + 1
        /\ posts'[Len(posts')] = q /\ DOMAIN posts' = DOMAIN posts \cup {Len(posts')}
        /\ Len(posts') \notin DOMAIN posts
        /\ \A p \in DOMAIN posts : posts'[p] = posts[p]
    BY <2>1, <2>2, NewPost
  <2>4. Len(posts) \in Nat
    BY LenProperties DEF ChatInv
  <2>. QED BY <1>2, <2>1, <2>3, <2>4
<1>. QED BY <1>1, <1>2

\* Every step keeps the chat.
LEMMA ChatNext == IInv /\ [Next]_vars => ChatInv' /\ ChatStep
<1> SUFFICES ASSUME IInv, [Next]_vars PROVE ChatInv' /\ ChatStep
  OBVIOUS
<1>1. ChatInv /\ OursInv /\ SendsInv /\ ToolsInv /\ FlightInv
  BY DEF IInv
<1>2. CASE UNCHANGED chat
  BY <1>1, <1>2, ChatSame
<1>3. CASE TurnOpens
  <2>1. PICK fate \in {"done", "lost", "unheard"} :
          /\ posts' = IF fate = "lost" THEN posts ELSE Append(posts, Post("streaming", <<>>, 0))
          /\ hurt' = IF fate = "unheard" THEN hurt \cup {Len(posts')} ELSE hurt
    BY <1>3 DEF TurnOpens
  <2>2. late' = late /\ UNCHANGED server
    BY <1>3 DEF TurnOpens
  <2>. QED BY <1>1, <2>1, <2>2, DraftFacts
<1>4. CASE TurnSettles
  BY <1>1, <1>4, SentFacts DEF TurnSettles, OursInv
<1>5. CASE FlushAnswered
  BY <1>1, <1>5, SentFacts DEF FlushAnswered, FlightInv
<1>6. CASE DraftFinished
  <2>1. PICK r \in DOMAIN sends, fate \in Fates : sends[r].at = "patching" /\ Sent(SendPatch(r), fate)
    BY <1>6 DEF DraftFinished
  <2>. QED BY <1>1, <2>1, SendMeant, SentFacts
<1>7. CASE ReplyPosted
  <2>1. PICK r \in DOMAIN sends : posts' = posts \/ posts' = WithReply(r)
    BY <1>7 DEF ReplyPosted
  <2>. QED BY <1>1, <1>7, <2>1, PostedFacts DEF ReplyPosted
<1>8. CASE ToolPosted
  <2>1. PICK i \in DOMAIN tools : posts' = posts \/ posts' = Append(posts, Post("published", <<Block(i)>>, 0))
    BY <1>8 DEF ToolPosted
  <2>. QED BY <1>1, <1>8, <2>1, ToolTyped, BlockFacts DEF ToolPosted
<1>9. CASE DraftEnded
  <2>1. PICK i \in DOMAIN tools, fate \in Fates : tools[i].at = "ending" /\ Sent(EndPatch(i), fate)
    BY <1>9 DEF DraftEnded
  <2>. QED BY <1>1, <2>1, EndMeant, SentFacts
<1>10. CASE DraftOpened
  <2>1. PICK fate \in {"done", "lost", "unheard"} :
          /\ posts' = IF fate = "lost" THEN posts ELSE Append(posts, Post("streaming", <<>>, 0))
          /\ hurt' = IF fate = "unheard" THEN hurt \cup {Len(posts')} ELSE hurt
    BY <1>10 DEF DraftOpened
  <2>2. late' = late /\ UNCHANGED server
    BY <1>10 DEF DraftOpened
  <2>. QED BY <1>1, <2>1, <2>2, DraftFacts
<1>11. CASE DraftDropped
  <2>1. PICK i \in DOMAIN tools, fate \in Fates : tools[i].at = "dropping" /\ Sent(Cancel(tools[i].draft), fate)
    BY <1>11 DEF DraftDropped
  <2>. QED BY <1>1, <2>1, DropMeant, SentFacts
<1>12. CASE Server
  BY <1>12, ServerFacts
<1>13. CASE Crash
  BY <1>13, CrashFacts
<1>14. CASE \/ TurnStarts \/ TurnOpensBare \/ StopAsked \/ TurnEnds \/ Says \/ Rewrites \/ FlushStarts
            \/ ReplyMade \/ SendRetried \/ ToolStarts \/ DraftHanded \/ QuestionOver
  <2>1. UNCHANGED chat
    BY <1>14 DEF TurnStarts, TurnOpensBare, StopAsked, TurnEnds, Says, Rewrites, FlushStarts,
       ReplyMade, SendRetried, ToolStarts, DraftHanded, QuestionOver
  <2>. QED BY <1>2, <2>1
<1>15. CASE UNCHANGED vars
  BY <1>2, <1>15 DEF vars
<1>. QED
  BY <1>3, <1>4, <1>5, <1>6, <1>7, <1>8, <1>9, <1>10, <1>11, <1>12, <1>13, <1>14, <1>15
  DEF Next, Turns, Stream, Sends, Tools

-----------------------------------------------------------------------------
(* The turn *)

SpentSet == [texts : 0..MaxTexts, rewrites : Nat, upsets : Nat]

LEMMA SpentTyped ==
  ASSUME OursInv
  PROVE  /\ spent.texts \in 0..MaxTexts /\ spent.texts \in Nat /\ MaxTexts \in Nat
         /\ spent.rewrites \in Nat /\ spent.upsets \in Nat
BY DraftBounds DEF OursInv

LEMMA FaultySpent ==
  ASSUME OursInv, NEW fate, Faulty(fate)
  PROVE  spent' \in SpentSet /\ spent'.texts = spent.texts
<1>1. spent \in SpentSet
  BY DEF OursInv, SpentSet
<1>2. CASE spent' = spent
  BY <1>1, <1>2
<1>3. CASE spent' = [spent EXCEPT !.upsets = @ + 1]
  BY <1>1, <1>3 DEF SpentSet
<1>. QED BY <1>2, <1>3 DEF Faulty, Upset

LEMMA OursFrame ==
  ASSUME OursInv, ChatInv, ChatStep, UNCHANGED ours, spent' = spent \/ spent' \in SpentSet,
         ref' = ref \/ ref' = 0 \/ (phase = "running" /\ ref' = Len(posts')),
         orphan' = orphan \/ orphan' = 0 \/ orphan' = Len(posts')
  PROVE  OursInv'
<1>1. Len(posts) \in Nat /\ Len(posts') \in Nat /\ Len(posts) <= Len(posts')
  BY LenProperties DEF ChatInv, ChatStep
<1>2. ref' \in 0..Len(posts') /\ orphan' \in 0..Len(posts')
  BY <1>1 DEF OursInv
<1>3. phase' = phase /\ turn' = turn /\ stop' = stop /\ settle' = settle
  BY DEF ours
<1>4. ref' # 0 => phase' = "running"
  BY <1>3 DEF OursInv
<1>5. phase' = "settling" => Meant(settle)' /\ settle'.do \in {"done", "cancel"}
  <2> SUFFICES ASSUME phase = "settling" PROVE Meant(settle)' /\ settle.do \in {"done", "cancel"}
    BY <1>3
  <2>1. Meant(settle) /\ settle.do \in {"done", "cancel"}
    BY DEF OursInv
  <2>. QED BY <1>3, <2>1 DEF ChatStep, Meant
<1>6. spent' \in SpentSet
  BY DEF OursInv, SpentSet
<1>. QED BY <1>2, <1>3, <1>4, <1>5, <1>6 DEF OursInv, SpentSet

\* What the finally-block sends is meant for the turn's draft.
LEMMA EndingMeant ==
  ASSUME ChatInv, FlightInv, NEW p \in DOMAIN posts, NEW told
  PROVE  Meant(Ending(p, told)) /\ Ending(p, told).do \in {"done", "cancel"} /\ Ending(p, told).post = p
<1>1. Stopped \in Speech /\ Failed \in Speech /\ lane.cum \in Said
  BY DEF Stopped, Failed, Speech, FlightInv, LaneSet
<1>2. Append(lane.cum, Stopped) \in Said /\ <<Failed>> \in Said
  BY <1>1, AppendProperties DEF Said
<1>. QED BY <1>2, FinishMeant, CancelMeant DEF Ending

LEMMA OursNext == IInv /\ [Next]_vars => OursInv'
<1> SUFFICES ASSUME IInv, [Next]_vars PROVE OursInv'
  OBVIOUS
<1>1. ChatInv /\ OursInv /\ SendsInv /\ ToolsInv /\ FlightInv /\ ChatInv' /\ ChatStep
  BY ChatNext DEF IInv
<1>2. /\ Len(posts) \in Nat /\ Len(posts') \in Nat /\ Len(posts) <= Len(posts')
      /\ DOMAIN posts \subseteq DOMAIN posts'
  BY <1>1, LenProperties DEF ChatInv, ChatStep
<1>3. CASE TurnStarts
  <2>1. /\ phase' = "opening" /\ turn' = turn + 1 /\ turn < MaxTurns /\ stop' = FALSE
        /\ ref' = ref /\ orphan' = orphan /\ spent' = spent /\ posts' = posts /\ phase = "idle"
    BY <1>3 DEF TurnStarts, draft, chat
  <2>2. turn + 1 \in 0..MaxTurns /\ ref = 0
    BY <1>1, <2>1, DraftBounds DEF OursInv
  <2>. QED BY <1>1, <2>1, <2>2 DEF OursInv
<1>4. CASE TurnOpens
  <2>1. PICK fate \in {"done", "lost", "unheard"} :
          /\ Faulty(fate)
          /\ ref' = IF fate = "done" THEN Len(posts') ELSE 0
          /\ orphan' = IF fate = "done" THEN Len(posts') ELSE orphan
    BY <1>4 DEF TurnOpens
  <2>2. phase' = "running" /\ turn' = turn /\ stop' = stop
    BY <1>4 DEF TurnOpens
  <2>3. spent' \in SpentSet
    BY <1>1, <2>1, FaultySpent
  <2>4. ref' \in 0..Len(posts') /\ orphan' \in 0..Len(posts')
    BY <1>1, <1>2, <2>1 DEF OursInv
  <2>. QED BY <1>1, <2>2, <2>3, <2>4 DEF OursInv, SpentSet
<1>5. CASE TurnOpensBare
  BY <1>1, <1>5 DEF TurnOpensBare, OursInv, chat, draft
<1>6. CASE StopAsked
  <2>1. /\ stop' = TRUE /\ phase = "running" /\ phase' = phase /\ turn' = turn
        /\ ref' = ref /\ orphan' = orphan /\ spent' = spent /\ posts' = posts
    BY <1>6 DEF StopAsked, Open, chat, draft
  <2>. QED BY <1>1, <2>1 DEF OursInv
<1>7. CASE TurnEnds
  <2>1. /\ phase' = IF ref = 0 THEN "idle" ELSE "settling"
        /\ ref' = 0 /\ orphan' = 0 /\ turn' = turn /\ stop' = stop /\ spent' = spent /\ posts' = posts
    BY <1>7 DEF TurnEnds, chat
  <2>2. PICK told \in BOOLEAN : settle' = IF ref = 0 THEN NoPatch ELSE Ending(ref, told)
    BY <1>7 DEF TurnEnds
  <2>3. ref # 0 => ref \in DOMAIN posts
    BY <1>1, LenProperties DEF OursInv, ChatInv
  <2>4. phase' = "settling" => Meant(settle') /\ settle'.do \in {"done", "cancel"}
    BY <1>1, <2>1, <2>2, <2>3, EndingMeant
  <2>5. phase' = "settling" => Meant(settle)'
    BY <2>1, <2>4 DEF Meant
  <2>. QED BY <1>1, <1>2, <2>1, <2>4, <2>5 DEF OursInv
<1>8. CASE TurnSettles
  <2>1. PICK fate \in Fates : Faulty(fate)
    BY <1>8 DEF TurnSettles, Sent
  <2>2. spent' \in SpentSet
    BY <1>1, <2>1, FaultySpent
  <2>3. /\ phase' = "idle" /\ phase = "settling" /\ turn' = turn /\ stop' = stop
        /\ ref' = ref /\ orphan' = orphan
    BY <1>8 DEF TurnSettles, draft
  <2>. QED BY <1>1, <1>2, <2>2, <2>3 DEF OursInv, SpentSet
<1>9. CASE Crash
  <2>1. phase' = "idle" /\ ref' = 0 /\ stop' = FALSE
    BY <1>9, Zenon DEF Crash
  <2>2. turn' = turn /\ orphan' = orphan
    BY <1>9, Zenon DEF Crash
  <2>3. spent' = [spent EXCEPT !.upsets = @ + 1]
    BY <1>9, Zenon DEF Crash, Upset
  <2>4. spent' \in SpentSet
    BY <1>1, <2>3, SpentTyped DEF OursInv, SpentSet
  <2>5. turn' \in 0..MaxTurns /\ orphan' \in 0..Len(posts')
    BY <1>1, <1>2, <2>2 DEF OursInv
  <2>6. ref' \in 0..Len(posts')
    BY <1>2, <2>1
  <2>7. stop' \in BOOLEAN
    BY <2>1, Zenon
  <2>8. phase' # "settling" /\ phase' \in {"idle", "opening", "running", "settling"}
    BY <2>1
  <2>. QED BY <2>1, <2>4, <2>5, <2>6, <2>7, <2>8 DEF OursInv, SpentSet
<1>10. CASE Says \/ Rewrites
  <2>1. /\ UNCHANGED ours /\ ref' = ref /\ orphan' = orphan /\ spent.texts < MaxTexts
        /\ \/ spent' = [spent EXCEPT !.texts = @ + 1]
           \/ spent' = [spent EXCEPT !.texts = @ + 1, !.rewrites = @ + 1]
    BY <1>10 DEF Says, Rewrites, draft
  <2>2. spent' \in SpentSet
    <3>1. spent.texts + 1 \in 0..MaxTexts /\ spent.rewrites + 1 \in Nat
      BY <1>1, <2>1, SpentTyped
    <3>. QED BY <1>1, <2>1, <3>1 DEF OursInv, SpentSet
  <2>. QED BY <1>1, <2>1, <2>2, OursFrame
<1>11. CASE FlushAnswered \/ DraftFinished \/ DraftEnded \/ DraftDropped
  <2>1. UNCHANGED ours /\ ref' = ref /\ orphan' = orphan
    BY <1>11 DEF FlushAnswered, DraftFinished, DraftEnded, DraftDropped, draft
  <2>2. \E fate \in Fates : Faulty(fate)
    <3>1. CASE FlushAnswered
      BY <3>1, Zenon DEF FlushAnswered, Sent
    <3>2. CASE DraftFinished
      BY <3>2, Zenon DEF DraftFinished, Sent
    <3>3. CASE DraftEnded
      BY <3>3, Zenon DEF DraftEnded, Sent
    <3>4. CASE DraftDropped
      BY <3>4, Zenon DEF DraftDropped, Sent
    <3>. QED BY <1>11, <3>1, <3>2, <3>3, <3>4
  <2>3. spent' \in SpentSet
    BY <1>1, <2>2, FaultySpent
  <2>. QED BY <1>1, <2>1, <2>3, OursFrame
<1>12. CASE ReplyPosted \/ ToolPosted
  <2>1. UNCHANGED ours /\ ((ref' = ref /\ orphan' = orphan) \/ (ref' = 0 /\ orphan' = 0))
    BY <1>12 DEF ReplyPosted, ToolPosted, draft, Claimed
  <2>2. \E fate \in {"done", "lost", "unheard"} : Faulty(fate)
    <3>1. CASE ReplyPosted
      BY <3>1, Zenon DEF ReplyPosted
    <3>2. CASE ToolPosted
      BY <3>2, Zenon DEF ToolPosted
    <3>. QED BY <1>12, <3>1, <3>2
  <2>3. spent' \in SpentSet
    BY <1>1, <2>2, FaultySpent
  <2>. QED BY <1>1, <2>1, <2>3, OursFrame
<1>13. CASE DraftOpened
  <2>1. PICK fate \in {"done", "lost", "unheard"}, i \in DOMAIN tools :
          /\ Faulty(fate)
          /\ IF fate = "done" /\ StillOpen(i)
             THEN ref' = Len(posts') /\ orphan' = Len(posts') ELSE UNCHANGED draft
    BY <1>13 DEF DraftOpened
  <2>2. UNCHANGED ours
    BY <1>13 DEF DraftOpened
  <2>3. spent' \in SpentSet
    BY <1>1, <2>1, FaultySpent
  <2>4. \/ ref' = ref /\ orphan' = orphan
        \/ phase = "running" /\ ref' = Len(posts') /\ orphan' = Len(posts')
    BY <2>1 DEF draft, StillOpen, Registered, Open
  <2>. QED BY <1>1, <2>2, <2>3, <2>4, OursFrame
<1>14. CASE \/ FlushStarts \/ ReplyMade \/ SendRetried \/ ToolStarts \/ DraftHanded \/ QuestionOver
  <2>1. UNCHANGED ours /\ spent' = spent /\ ((ref' = ref /\ orphan' = orphan) \/ (ref' = 0 /\ orphan' = 0))
    BY <1>14 DEF FlushStarts, ReplyMade, SendRetried, ToolStarts, DraftHanded, QuestionOver, draft, Claimed
  <2>. QED BY <1>1, <2>1, OursFrame
<1>15. CASE UNCHANGED vars
  BY <1>1, <1>15, OursFrame DEF vars, draft
<1>16. CASE Server
  <2>1. /\ UNCHANGED <<phase, turn, stop, settle, ref, orphan>>
        /\ spent' = spent \/ spent' = [spent EXCEPT !.upsets = @ + 1]
    BY <1>16, ServerOnly
  <2>2. spent' \in SpentSet
    BY <1>1, <2>1, SpentTyped DEF OursInv, SpentSet
  <2>. QED BY <1>1, <2>1, <2>2, OursFrame DEF ours
<1>. QED
  BY <1>3, <1>4, <1>5, <1>6, <1>7, <1>8, <1>9, <1>10, <1>11, <1>12, <1>13, <1>14, <1>15, <1>16
  DEF Next, Turns, Stream, Sends, Tools

-----------------------------------------------------------------------------
(* The sends *)

\* A draft given up is nobody's, one that is new nobody's but the turn's.
RefStep == ref' = ref \/ ref' \notin DOMAIN posts

LEMMA SendsFrame ==
  ASSUME SendsInv, ChatStep, RefStep, sends' = sends
  PROVE  SendsInv'
BY DEF SendsInv, ChatStep, RefStep

\* One send moves on; what it holds is a post, and not the turn's draft.
LEMMA SendsMoved ==
  ASSUME SendsInv, ChatStep, RefStep, NEW r \in DOMAIN sends, NEW s \in SendSet,
         sends' = [sends EXCEPT ![r] = s],
         s.at = "patching" => s.draft \in DOMAIN posts' \ {ref'}
  PROVE  SendsInv'
<1>1. sends \in Seq(SendSet)
  BY DEF SendsInv
<1>2. /\ sends' \in Seq(SendSet) /\ DOMAIN sends' = DOMAIN sends
      /\ \A j \in DOMAIN sends : sends'[j] = IF j = r THEN s ELSE sends[j]
  BY <1>1, SeqExcept
<1>3. ASSUME NEW j \in DOMAIN sends', sends'[j].at = "patching"
      PROVE  sends'[j].draft \in DOMAIN posts' \ {ref'}
  <2>1. CASE j = r
    BY <1>2, <1>3, <2>1
  <2>2. CASE j # r
    BY <1>2, <1>3, <2>2 DEF SendsInv, ChatStep, RefStep
  <2>. QED BY <2>1, <2>2
<1>. QED BY <1>2, <1>3 DEF SendsInv

LEMMA SendAtTyped ==
  ASSUME SendsInv, NEW r \in DOMAIN sends, NEW at \in {"posting", "waiting", "sent", "dropped"}
  PROVE  \E s \in SendSet :
           /\ SendAt(r, at) = [sends EXCEPT ![r] = s]
           /\ s.at = at /\ s.turn = sends[r].turn /\ s.draft = 0
<1> DEFINE s == [sends[r] EXCEPT !.at = at, !.draft = 0]
<1>1. SendAt(r, at) = [sends EXCEPT ![r] = s]
  BY DEF SendAt
<1>2. s.at = at /\ s.turn = sends[r].turn /\ s.draft = 0 /\ s \in SendSet
  BY SendTyped DEF SendSet
<1>. QED BY <1>1, <1>2

LEMMA SendAtStep ==
  ASSUME SendsInv, ChatStep, RefStep, NEW r \in DOMAIN sends,
         NEW at \in {"posting", "waiting", "sent", "dropped"}, sends' = SendAt(r, at)
  PROVE  SendsInv'
<1>1. PICK s \in SendSet : SendAt(r, at) = [sends EXCEPT ![r] = s] /\ s.at = at
  BY SendAtTyped
<1>. QED BY <1>1, SendsMoved

\* claimDraft gives a post, which the turn has no more.
LEMMA SendTakes ==
  ASSUME ChatInv, OursInv, NEW r \in Nat, NEW t \in Nat, ref' = 0
  PROVE  /\ Send(r, t) \in SendSet /\ Send(r, t).turn = t
         /\ Send(r, t).at = "patching" =>
              /\ Send(r, t).draft \in DOMAIN posts \ {ref'}
              /\ ref # 0 => Send(r, t).draft = ref
         /\ ref # 0 => Send(r, t).at = "patching"
<1>1. DOMAIN posts = 1 .. Len(posts) /\ Len(posts) \in Nat
  BY LenProperties DEF ChatInv
<1>2. Claimable \in 0 .. Len(posts) /\ (ref # 0 => Claimable = ref)
  BY DEF Claimable, OursInv
<1>3. Claimable \in Nat /\ (Claimable # 0 => Claimable \in DOMAIN posts)
  BY <1>1, <1>2
<1>. QED BY <1>2, <1>3 DEF Send, SendSet

LEMMA RefStepNext == IInv /\ [Next]_vars => RefStep
<1> SUFFICES ASSUME IInv, [Next]_vars PROVE RefStep
  OBVIOUS
<1>1. ChatInv
  BY DEF IInv
<1>2. 0 \notin DOMAIN posts
  BY <1>1, PostTyped
<1>3. CASE ref' = ref \/ ref' = 0
  BY <1>2, <1>3 DEF RefStep
<1>4. CASE TurnOpens
  <2>1. PICK fate \in {"done", "lost", "unheard"} :
          /\ posts' = IF fate = "lost" THEN posts ELSE Append(posts, Post("streaming", <<>>, 0))
          /\ hurt' = IF fate = "unheard" THEN hurt \cup {Len(posts')} ELSE hurt
          /\ ref' = IF fate = "done" THEN Len(posts') ELSE 0
    BY <1>4 DEF TurnOpens
  <2>2. late' = late /\ UNCHANGED server
    BY <1>4 DEF TurnOpens
  <2>3. fate = "done" => Len(posts') \notin DOMAIN posts
    BY <1>1, <2>1, <2>2, DraftFacts
  <2>. QED BY <1>3, <2>1, <2>3 DEF RefStep
<1>5. CASE DraftOpened
  <2>1. PICK fate \in {"done", "lost", "unheard"}, i \in DOMAIN tools :
          /\ posts' = IF fate = "lost" THEN posts ELSE Append(posts, Post("streaming", <<>>, 0))
          /\ hurt' = IF fate = "unheard" THEN hurt \cup {Len(posts')} ELSE hurt
          /\ IF fate = "done" /\ StillOpen(i)
             THEN ref' = Len(posts') /\ orphan' = Len(posts') ELSE UNCHANGED draft
    BY <1>5 DEF DraftOpened
  <2>2. late' = late /\ UNCHANGED server
    BY <1>5 DEF DraftOpened
  <2>3. fate = "done" => Len(posts') \notin DOMAIN posts
    BY <1>1, <2>1, <2>2, DraftFacts
  <2>. QED BY <1>3, <2>1, <2>3 DEF RefStep, draft
<1>6. CASE \/ TurnStarts \/ TurnOpensBare \/ StopAsked \/ TurnEnds \/ TurnSettles
           \/ Says \/ Rewrites \/ FlushStarts \/ FlushAnswered
  BY <1>3, <1>6 DEF TurnStarts, TurnOpensBare, StopAsked, TurnEnds, TurnSettles, Says, Rewrites,
     FlushStarts, FlushAnswered, draft
<1>7. CASE ReplyMade \/ SendRetried \/ DraftFinished \/ ReplyPosted
  BY <1>3, <1>7 DEF ReplyMade, SendRetried, DraftFinished, ReplyPosted, draft, Claimed
<1>8. CASE ToolStarts \/ ToolPosted \/ DraftHanded \/ DraftEnded \/ QuestionOver \/ DraftDropped
  BY <1>3, <1>8 DEF ToolStarts, ToolPosted, DraftHanded, DraftEnded, QuestionOver, DraftDropped, draft, Claimed
<1>9. CASE Server \/ UNCHANGED vars
  BY <1>3, <1>9, ServerOnly DEF vars, draft
<1>10. CASE Crash
  <2>1. ref' = 0
    BY <1>10, Zenon DEF Crash
  <2>. QED BY <1>3, <2>1
<1>. QED
  BY <1>4, <1>5, <1>6, <1>7, <1>8, <1>9, <1>10 DEF Next, Turns, Stream, Sends, Tools

LEMMA SendsNext == IInv /\ [Next]_vars => SendsInv'
<1> SUFFICES ASSUME IInv, [Next]_vars PROVE SendsInv'
  OBVIOUS
<1>1. ChatInv /\ OursInv /\ SendsInv /\ ChatStep /\ RefStep
  BY ChatNext, RefStepNext DEF IInv
<1>2. CASE sends' = sends
  BY <1>1, <1>2, SendsFrame
<1>3. CASE ReplyMade
  <2> DEFINE s == Send(Len(sends) + 1, turn)
  <2>1. sends \in Seq(SendSet) /\ Len(sends) + 1 \in Nat /\ turn \in Nat /\ ref' = 0
    BY <1>1, <1>3, LenProperties, DraftBounds DEF SendsInv, OursInv, ReplyMade, Claimed
  <2>2. s \in SendSet /\ (s.at = "patching" => s.draft \in DOMAIN posts \ {ref'})
    BY <1>1, <2>1, SendTakes
  <2>3. sends' = Append(sends, s)
    BY <1>3 DEF ReplyMade
  <2> HIDE DEF s
  <2>4. /\ sends' \in Seq(SendSet) /\ DOMAIN sends' = DOMAIN sends \cup {Len(sends) + 1}
        /\ \A j \in DOMAIN sends : sends'[j] = sends[j]
        /\ sends'[Len(sends) + 1] = s
    BY <2>1, <2>2, <2>3, SeqAppend
  <2>5. ASSUME NEW j \in DOMAIN sends', sends'[j].at = "patching"
        PROVE  sends'[j].draft \in DOMAIN posts' \ {ref'}
    BY <1>1, <2>2, <2>4, <2>5 DEF SendsInv, ChatStep, RefStep
  <2>. QED BY <2>4, <2>5 DEF SendsInv
<1>4. CASE SendRetried
  <2>1. PICK r \in DOMAIN sends : sends' = [sends EXCEPT ![r] = Send(r, 0)]
    BY <1>4 DEF SendRetried
  <2>2. r \in Nat /\ ref' = 0
    BY <1>1, <1>4, SendTyped DEF SendRetried, Claimed
  <2>3. Send(r, 0) \in SendSet /\ (Send(r, 0).at = "patching" => Send(r, 0).draft \in DOMAIN posts \ {ref'})
    BY <1>1, <2>2, SendTakes
  <2>. QED BY <1>1, <2>1, <2>3, SendsMoved DEF ChatStep
<1>5. CASE DraftFinished
  <2>1. PICK r \in DOMAIN sends, at \in {"sent", "posting"} : sends' = SendAt(r, at)
    BY <1>5 DEF DraftFinished
  <2>. QED BY <1>1, <2>1, SendAtStep
<1>6. CASE ReplyPosted
  <2>1. PICK r \in DOMAIN sends, at \in {"sent", "waiting", "dropped"} : sends' = SendAt(r, at)
    BY <1>6 DEF ReplyPosted
  <2>. QED BY <1>1, <2>1, SendAtStep
<1>7. CASE Crash
  <2>1. sends' = [r \in DOMAIN sends |->
          IF sends[r].at \in {"patching", "posting"} THEN [at |-> "waiting", turn |-> 0, draft |-> 0]
          ELSE sends[r]]
    BY <1>7, Zenon DEF Crash
  <2>2. sends \in [1 .. Len(sends) -> SendSet] /\ Len(sends) \in Nat /\ DOMAIN sends = 1 .. Len(sends)
    BY <1>1, SendTyped, LenProperties DEF SendsInv
  <2>3. [at |-> "waiting", turn |-> 0, draft |-> 0] \in SendSet
    BY DEF SendSet
  <2>4. /\ DOMAIN sends' = DOMAIN sends
        /\ \A r \in DOMAIN sends : sends'[r] \in SendSet /\ sends'[r].at # "patching"
    BY <2>1, <2>2, <2>3
  <2>5. sends' \in [1 .. Len(sends) -> SendSet]
    BY <2>1, <2>2, <2>3
  <2>6. sends' \in Seq(SendSet)
    BY <2>2, <2>5, SeqDef
  <2>. QED BY <2>4, <2>6 DEF SendsInv
<1>8. CASE \/ TurnStarts \/ TurnOpens \/ TurnOpensBare \/ StopAsked \/ TurnEnds \/ TurnSettles
           \/ Says \/ Rewrites \/ FlushStarts \/ FlushAnswered
  BY <1>2, <1>8 DEF TurnStarts, TurnOpens, TurnOpensBare, StopAsked, TurnEnds, TurnSettles,
     Says, Rewrites, FlushStarts, FlushAnswered, jobs
<1>9. CASE \/ ToolStarts \/ ToolPosted \/ DraftHanded \/ DraftEnded \/ QuestionOver
           \/ DraftOpened \/ DraftDropped
  BY <1>2, <1>9 DEF ToolStarts, ToolPosted, DraftHanded, DraftEnded, QuestionOver,
     DraftOpened, DraftDropped
<1>10. CASE Server \/ UNCHANGED vars
  BY <1>2, <1>10, ServerOnly DEF vars, jobs
<1>. QED
  BY <1>3, <1>4, <1>5, <1>6, <1>7, <1>8, <1>9, <1>10 DEF Next, Turns, Stream, Sends, Tools

-----------------------------------------------------------------------------
(* The tools *)

LEMMA ToolHoldsTyped ==
  ASSUME ToolsInv, NEW i \in DOMAIN tools, NEW from \in Nat, NEW text \in Said,
         NEW at \in {"posting", "handing", "ending", "asked", "opening", "dropping", "over"}
  PROVE  \E t \in ToolSet :
           /\ ToolHolds(i, at, from, text) = [tools EXCEPT ![i] = t]
           /\ t.at = at /\ t.turn = tools[i].turn /\ t.draft = from
           /\ t.text = text /\ t.kind = tools[i].kind /\ t.drafted = tools[i].drafted
<1> DEFINE t == [tools[i] EXCEPT !.at = at, !.draft = from, !.text = text]
<1>1. ToolHolds(i, at, from, text) = [tools EXCEPT ![i] = t]
  BY DEF ToolHolds
<1>2. /\ t.at = at /\ t.turn = tools[i].turn /\ t.draft = from
      /\ t.text = text /\ t.kind = tools[i].kind /\ t.drafted = tools[i].drafted
      /\ t \in ToolSet
  BY ToolTyped DEF ToolSet
<1>. QED BY <1>1, <1>2

LEMMA ToolsFrame ==
  ASSUME ToolsInv, ChatStep, RefStep, tools' = tools, turn' = turn,
         phase' # "opening" \/ phase' = phase,
         ref' = 0 \/ (ref' = ref /\ phase' = phase) \/ phase = "opening"
  PROVE  ToolsInv'
<1>1. ASSUME NEW i \in DOMAIN tools'
      PROVE  /\ tools'[i].turn <= turn'
             /\ phase' = "opening" => tools'[i].turn < turn'
             /\ IF tools'[i].at \in {"handing", "ending", "dropping"}
                THEN tools'[i].draft \in DOMAIN posts' \ {ref'} ELSE tools'[i].draft = 0
             /\ tools'[i].at \in Off /\ Registered(tools[i].turn)' => ref' = 0
  <2>1. tools'[i].turn <= turn' /\ (phase' = "opening" => tools'[i].turn < turn')
    BY <1>1 DEF ToolsInv
  <2>2. IF tools'[i].at \in {"handing", "ending", "dropping"}
        THEN tools'[i].draft \in DOMAIN posts' \ {ref'} ELSE tools'[i].draft = 0
    BY <1>1 DEF ToolsInv, ChatStep, RefStep
  <2>3. tools'[i].at \in Off /\ Registered(tools[i].turn)' => ref' = 0
    <3>1. CASE phase = "opening"
      <4>1. tools[i].turn < turn /\ tools[i].turn \in Nat
        BY <1>1, <3>1, ToolTyped DEF ToolsInv
      <4>. QED BY <4>1 DEF Registered
    <3>2. CASE ref' = ref /\ phase' = phase
      BY <1>1, <3>2 DEF ToolsInv, Registered, Open
    <3>. QED BY <3>1, <3>2
  <2>. QED BY <2>1, <2>2, <2>3
<1>2. \A i, j \in DOMAIN tools' : Busy(i)' /\ Busy(j)' => i = j
  BY DEF ToolsInv, Busy
<1>. QED BY <1>1, <1>2 DEF ToolsInv

\* One tool moves on; nobody gives the turn a draft but the one tool at work in it.
LEMMA ToolMoved ==
  ASSUME ToolsInv, ChatStep, RefStep, turn' = turn, phase' = phase,
         NEW i \in DOMAIN tools, NEW t \in ToolSet,
         tools' = [tools EXCEPT ![i] = t], t.turn = tools[i].turn, tools[i].at # "over",
         IF t.at \in {"handing", "ending", "dropping"}
         THEN t.draft \in DOMAIN posts' \ {ref'} ELSE t.draft = 0,
         t.at \in Off /\ Registered(tools[i].turn) => ref' = 0,
         ref' = 0 \/ ref' = ref \/ Busy(i)
  PROVE  ToolsInv'
<1>1. tools \in Seq(ToolSet) /\ tools[i].at # "gone"
  BY ToolTyped DEF ToolsInv, ToolSet
<1>2. /\ tools' \in Seq(ToolSet) /\ DOMAIN tools' = DOMAIN tools
      /\ \A j \in DOMAIN tools : tools'[j] = IF j = i THEN t ELSE tools[j]
  BY <1>1, SeqExcept
<1>3. \A j \in DOMAIN tools : Busy(j)' => Busy(j)
  BY <1>1, <1>2 DEF Busy
<1>4. \A j, k \in DOMAIN tools' : Busy(j)' /\ Busy(k)' => j = k
  BY <1>2, <1>3 DEF ToolsInv
<1>5. \A j \in DOMAIN tools' : tools'[j].turn = tools[j].turn
  BY <1>2
<1>6. ASSUME NEW j \in DOMAIN tools'
      PROVE  IF tools'[j].at \in {"handing", "ending", "dropping"}
             THEN tools'[j].draft \in DOMAIN posts' \ {ref'} ELSE tools'[j].draft = 0
  <2>1. CASE j = i
    BY <1>2, <2>1
  <2>2. CASE j # i
    BY <1>2, <1>6, <2>2 DEF ToolsInv, ChatStep, RefStep
  <2>. QED BY <2>1, <2>2
<1>7. ASSUME NEW j \in DOMAIN tools', tools'[j].at \in Off, Open, turn = tools'[j].turn
      PROVE  ref' = 0
  <2>1. CASE j = i
    BY <1>2, <1>7, <2>1 DEF Registered
  <2>2. CASE j # i
    <3>1. tools[j].at \in Off /\ Registered(tools[j].turn) /\ Busy(j)
      BY <1>2, <1>7, <2>2 DEF Registered, Busy, Off
    <3>2. ref = 0
      BY <1>2, <3>1 DEF ToolsInv
    <3>3. ~Busy(i)
      BY <1>2, <2>2, <3>1 DEF ToolsInv
    <3>. QED BY <3>2, <3>3
  <2>. QED BY <2>1, <2>2
<1>8. \A j \in DOMAIN tools' : tools'[j].at \in Off /\ Registered(tools[j].turn)' => ref' = 0
  BY <1>7 DEF Registered, Open
<1>9. \A j \in DOMAIN tools' : tools'[j].turn <= turn' /\ (phase' = "opening" => tools'[j].turn < turn')
  BY <1>2, <1>5 DEF ToolsInv
<1>. QED BY <1>2, <1>4, <1>6, <1>8, <1>9 DEF ToolsInv

LEMMA ToolHoldsStep ==
  ASSUME ToolsInv, ChatStep, RefStep, turn' = turn, phase' = phase,
         NEW i \in DOMAIN tools, tools[i].at # "over",
         NEW at \in {"posting", "handing", "ending", "asked", "opening", "dropping", "over"},
         NEW from \in Nat, NEW text \in Said,
         tools' = ToolHolds(i, at, from, text),
         IF at \in {"handing", "ending", "dropping"}
         THEN from \in DOMAIN posts' \ {ref'} ELSE from = 0,
         at \in Off /\ Registered(tools[i].turn) => ref' = 0,
         ref' = 0 \/ ref' = ref \/ Busy(i)
  PROVE  ToolsInv'
<1>1. PICK t \in ToolSet :
        /\ ToolHolds(i, at, from, text) = [tools EXCEPT ![i] = t]
        /\ t.at = at /\ t.turn = tools[i].turn /\ t.draft = from
  BY ToolHoldsTyped
<1>2. tools' = [tools EXCEPT ![i] = t]
  BY <1>1
<1>. QED BY <1>1, <1>2, ToolMoved

LEMMA ToolDies ==
  ASSUME NEW t \in ToolSet
  PROVE  LET u == [t EXCEPT !.at = "over", !.draft = 0, !.text = <<>>] IN
           u \in ToolSet /\ u.at = "over" /\ u.draft = 0 /\ u.turn = t.turn
BY SaidIsEntries DEF ToolSet

LEMMA ToolsNext == IInv /\ [Next]_vars => ToolsInv'
<1> SUFFICES ASSUME IInv, [Next]_vars PROVE ToolsInv'
  OBVIOUS
<1>1. ChatInv /\ OursInv /\ SendsInv /\ ToolsInv /\ FlightInv /\ ChatStep /\ RefStep
  BY ChatNext, RefStepNext DEF IInv
<1>2. /\ 0 \in Nat /\ <<>> \in Said /\ turn \in Nat
      /\ \A i \in DOMAIN tools : tools[i].draft \in Nat /\ tools[i].text \in Said /\ tools[i].turn \in Nat
  BY <1>1, SaidIsEntries, ToolTyped, DraftBounds DEF OursInv
<1>3. CASE UNCHANGED <<tools, turn, phase>> /\ (ref' = ref \/ ref' = 0)
  BY <1>1, <1>3, ToolsFrame
<1>4. CASE TurnStarts
  <2>1. /\ tools' = tools /\ turn' = turn + 1 /\ ref' = ref /\ posts' = posts /\ phase' = "opening"
    BY <1>4 DEF TurnStarts, jobs, draft, chat
  <2>2. \A i \in DOMAIN tools : tools[i].turn < turn + 1
    BY <1>1, <1>2 DEF ToolsInv
  <2>3. \A i \in DOMAIN tools' : ~Busy(i)'
    BY <1>2, <2>1, <2>2 DEF Busy
  <2>4. \A i \in DOMAIN tools' : ~Registered(tools[i].turn)'
    BY <2>1 DEF Registered, Open
  <2>5. \A i \in DOMAIN tools' : tools'[i].turn <= turn' /\ tools'[i].turn < turn'
    BY <1>2, <2>1, <2>2
  <2>. QED BY <1>1, <2>1, <2>3, <2>4, <2>5 DEF ToolsInv
<1>5. CASE TurnOpens \/ TurnOpensBare
  <2>1. tools' = tools /\ turn' = turn /\ phase' = "running" /\ phase = "opening"
    BY <1>5 DEF TurnOpens, TurnOpensBare, jobs
  <2>. QED BY <1>1, <2>1, ToolsFrame
<1>6. CASE TurnEnds
  <2>1. tools' = tools /\ turn' = turn /\ phase' # "opening" /\ ref' = 0
    BY <1>6 DEF TurnEnds, jobs
  <2>. QED BY <1>1, <2>1, ToolsFrame
<1>7. CASE TurnSettles
  <2>1. tools' = tools /\ turn' = turn /\ phase' = "idle" /\ phase = "settling" /\ ref' = ref
    BY <1>7 DEF TurnSettles, jobs, draft
  <2>2. ref' = 0
    BY <1>1, <2>1 DEF OursInv
  <2>. QED BY <1>1, <2>1, <2>2, ToolsFrame
<1>8. CASE StopAsked \/ Says \/ Rewrites \/ FlushStarts \/ FlushAnswered
  BY <1>3, <1>8 DEF StopAsked, Says, Rewrites, FlushStarts, FlushAnswered, ours, jobs, draft
<1>9. CASE ReplyMade \/ SendRetried \/ DraftFinished \/ ReplyPosted
  BY <1>3, <1>9 DEF ReplyMade, SendRetried, DraftFinished, ReplyPosted, ours, draft, Claimed
<1>10. CASE Server \/ UNCHANGED vars
  BY <1>3, <1>10, ServerOnly DEF vars, ours, draft, jobs
<1>11. CASE ToolStarts
  <2>1. PICK kind \in {"surface", "question"} :
          tools' = Append(tools, [kind |-> kind, turn |-> turn, at |-> "posting",
                                  drafted |-> ref # 0, draft |-> 0, text |-> <<>>])
    BY <1>11 DEF ToolStarts
  <2> DEFINE t == [kind |-> kind, turn |-> turn, at |-> "posting",
                   drafted |-> ref # 0, draft |-> 0, text |-> <<>>]
  <2>2. t \in ToolSet /\ t.at = "posting" /\ t.draft = 0 /\ t.turn = turn
    BY <1>2 DEF ToolSet
  <2>3. tools' = Append(tools, t) /\ tools \in Seq(ToolSet)
    BY <1>1, <2>1 DEF ToolsInv
  <2>4. /\ turn' = turn /\ phase' = phase /\ ref' = ref /\ posts' = posts /\ phase = "running"
        /\ \A i \in DOMAIN tools : ~Busy(i)
    BY <1>11 DEF ToolStarts, ours, draft, chat, Open, AtWork
  <2> HIDE DEF t
  <2>5. /\ tools' \in Seq(ToolSet) /\ DOMAIN tools' = DOMAIN tools \cup {Len(tools) + 1}
        /\ \A j \in DOMAIN tools : tools'[j] = tools[j]
        /\ tools'[Len(tools) + 1] = t
    BY <2>2, <2>3, SeqAppend
  <2>6. \A i, j \in DOMAIN tools' : Busy(i)' /\ Busy(j)' => i = j
    BY <2>4, <2>5 DEF Busy
  <2>7. ASSUME NEW i \in DOMAIN tools'
        PROVE  /\ tools'[i].turn <= turn' /\ (phase' = "opening" => tools'[i].turn < turn')
               /\ IF tools'[i].at \in {"handing", "ending", "dropping"}
                  THEN tools'[i].draft \in DOMAIN posts' \ {ref'} ELSE tools'[i].draft = 0
               /\ tools'[i].at \in Off /\ Registered(tools[i].turn)' => ref' = 0
    <3>1. CASE i \in DOMAIN tools
      BY <1>1, <2>4, <2>5, <3>1 DEF ToolsInv, Registered, Open
    <3>2. CASE i = Len(tools) + 1
      BY <1>2, <2>2, <2>4, <2>5, <3>2 DEF Off
    <3>. QED BY <2>5, <3>1, <3>2
  <2>. QED BY <2>5, <2>6, <2>7 DEF ToolsInv
<1>12. CASE ToolPosted
  <2>1. PICK i \in DOMAIN tools :
          /\ tools[i].at = "posting"
          /\ \/ tools' = ToolAt(i, "over") /\ UNCHANGED draft
             \/ tools' = ToolAt(i, Parked(i)) /\ UNCHANGED draft /\ ~TakesDraft(i)
             \/ tools' = ToolHolds(i, "handing", ref, lane.cum) /\ Claimed /\ TakesDraft(i)
    BY <1>12, Zenon DEF ToolPosted
  <2>2. turn' = turn /\ phase' = phase
    BY <1>12 DEF ToolPosted, ours
  <2>3. CASE tools' = ToolAt(i, "over") /\ UNCHANGED draft
    BY <1>1, <1>2, <2>1, <2>2, <2>3, ToolHoldsStep DEF ToolAt, draft, Off
  <2>4. CASE tools' = ToolAt(i, Parked(i)) /\ UNCHANGED draft /\ ~TakesDraft(i)
    <3>1. Parked(i) \in {"asked", "over"} /\ ref' = ref
      BY <2>4 DEF Parked, draft
    <3>2. Registered(tools[i].turn) => ref' = 0
      BY <2>4, <3>1 DEF TakesDraft
    <3>. QED BY <1>1, <1>2, <2>1, <2>2, <2>4, <3>1, <3>2, ToolHoldsStep DEF ToolAt
  <2>5. CASE tools' = ToolHolds(i, "handing", ref, lane.cum) /\ Claimed /\ TakesDraft(i)
    <3>1. ref' = 0 /\ ref # 0 /\ lane.cum \in Said
      BY <1>1, <2>5 DEF Claimed, TakesDraft, FlightInv, LaneSet
    <3>2. ref \in DOMAIN posts /\ ref \in Nat /\ DOMAIN posts \subseteq DOMAIN posts'
      BY <1>1, <3>1, LenProperties DEF OursInv, ChatInv, ChatStep
    <3>. QED BY <1>1, <1>2, <2>1, <2>2, <2>5, <3>1, <3>2, ToolHoldsStep
  <2>. QED BY <2>1, <2>3, <2>4, <2>5
<1>13. CASE DraftHanded
  <2>1. PICK i \in DOMAIN tools :
          tools[i].at = "handing" /\ tools' = ToolHolds(i, "ending", tools[i].draft, tools[i].text)
    BY <1>13 DEF DraftHanded
  <2>2. turn' = turn /\ phase' = phase /\ ref' = ref
    BY <1>13 DEF DraftHanded, ours, draft
  <2>3. tools[i].draft \in DOMAIN posts' \ {ref'} /\ (Registered(tools[i].turn) => ref' = 0)
    BY <1>1, <2>1, <2>2 DEF ToolsInv, ChatStep, Off
  <2>. QED BY <1>1, <1>2, <2>1, <2>2, <2>3, ToolHoldsStep
<1>14. CASE DraftEnded
  <2>1. PICK i \in DOMAIN tools :
          /\ tools[i].at = "ending"
          /\ tools' = ToolAt(i, IF tools[i].kind = "question" THEN "asked" ELSE "opening")
    BY <1>14 DEF DraftEnded
  <2>2. turn' = turn /\ phase' = phase /\ ref' = ref
    BY <1>14 DEF DraftEnded, ours, draft
  <2>3. Registered(tools[i].turn) => ref' = 0
    BY <1>1, <2>1, <2>2 DEF ToolsInv, Off
  <2>. QED BY <1>1, <1>2, <2>1, <2>2, <2>3, ToolHoldsStep DEF ToolAt
<1>15. CASE QuestionOver
  <2>1. PICK i \in DOMAIN tools :
          tools[i].at = "asked" /\ tools' = ToolAt(i, IF tools[i].drafted THEN "opening" ELSE "over")
    BY <1>15 DEF QuestionOver
  <2>2. turn' = turn /\ phase' = phase /\ ref' = ref
    BY <1>15 DEF QuestionOver, ours, draft
  <2>3. Registered(tools[i].turn) => ref' = 0
    BY <1>1, <2>1, <2>2 DEF ToolsInv, Off
  <2>. QED BY <1>1, <1>2, <2>1, <2>2, <2>3, ToolHoldsStep DEF ToolAt
<1>16. CASE DraftOpened
  <2>1. PICK i \in DOMAIN tools, fate \in {"done", "lost", "unheard"} :
          /\ tools[i].at = "opening"
          /\ posts' = IF fate = "lost" THEN posts ELSE Append(posts, Post("streaming", <<>>, 0))
          /\ hurt' = IF fate = "unheard" THEN hurt \cup {Len(posts')} ELSE hurt
          /\ IF fate = "done" /\ StillOpen(i)
             THEN ref' = Len(posts') /\ orphan' = Len(posts') ELSE UNCHANGED draft
          /\ tools' = IF fate = "done" /\ ~StillOpen(i)
                      THEN ToolHolds(i, "dropping", Len(posts'), <<>>) ELSE ToolAt(i, "over")
    BY <1>16 DEF DraftOpened
  <2>2. turn' = turn /\ phase' = phase /\ late' = late /\ UNCHANGED server
    BY <1>16 DEF DraftOpened, ours
  <2>3. fate = "done" => Len(posts') \in DOMAIN posts' \ DOMAIN posts /\ Len(posts') \in Nat
    BY <1>1, <2>1, <2>2, DraftFacts
  <2>4. CASE fate = "done" /\ ~StillOpen(i)
    <3>1. tools' = ToolHolds(i, "dropping", Len(posts'), <<>>) /\ ref' = ref
      BY <2>1, <2>4 DEF draft
    <3>2. ref = 0 \/ ref \in DOMAIN posts
      BY <1>1, LenProperties DEF OursInv, ChatInv
    <3>3. Len(posts') \in DOMAIN posts' \ {ref'}
      <4>1. 0 \notin DOMAIN posts'
        BY <1>1, LenProperties DEF ChatStep
      <4>. QED BY <2>3, <2>4, <3>1, <3>2, <4>1
    <3>. QED BY <1>1, <1>2, <2>1, <2>2, <2>3, <2>4, <3>1, <3>3, ToolHoldsStep DEF Off
  <2>5. CASE ~(fate = "done" /\ ~StillOpen(i))
    <3>1. tools' = ToolHolds(i, "over", 0, <<>>)
      BY <2>1, <2>5 DEF ToolAt
    <3>2. ref' = ref \/ Busy(i)
      BY <2>1, <2>5 DEF draft, StillOpen, Registered, Busy
    <3>. QED BY <1>1, <1>2, <2>1, <2>2, <3>1, <3>2, ToolHoldsStep DEF Off
  <2>. QED BY <2>4, <2>5
<1>17. CASE DraftDropped
  <2>1. PICK i \in DOMAIN tools : tools[i].at = "dropping" /\ tools' = ToolAt(i, "over")
    BY <1>17 DEF DraftDropped
  <2>2. turn' = turn /\ phase' = phase /\ ref' = ref
    BY <1>17 DEF DraftDropped, ours, draft
  <2>. QED BY <1>1, <1>2, <2>1, <2>2, ToolHoldsStep DEF ToolAt, Off
<1>18. CASE Crash
  <2>1. tools' = [i \in DOMAIN tools |-> [tools[i] EXCEPT !.at = "over", !.draft = 0, !.text = <<>>]]
    BY <1>18, Zenon DEF Crash
  <2>2. phase' = "idle" /\ turn' = turn /\ ref' = 0
    BY <1>18, Zenon DEF Crash
  <2>3. ASSUME NEW i \in DOMAIN tools
        PROVE  /\ tools'[i] \in ToolSet /\ tools'[i].at = "over" /\ tools'[i].draft = 0
               /\ tools'[i].turn = tools[i].turn
    <3>1. tools'[i] = [tools[i] EXCEPT !.at = "over", !.draft = 0, !.text = <<>>]
      BY <2>1, Zenon
    <3>2. tools[i] \in ToolSet
      BY <1>1, ToolTyped
    <3>. QED BY <3>1, <3>2, ToolDies, Zenon
  <2>4. DOMAIN tools' = DOMAIN tools
    BY <2>1, Zenon
  <2>5. tools' \in Seq(ToolSet)
    <3>1. DOMAIN tools = 1 .. Len(tools) /\ Len(tools) \in Nat
      BY <1>1, LenProperties DEF ToolsInv
    <3>2. tools' = [i \in DOMAIN tools' |-> tools'[i]]
      BY <2>1, Zenon
    <3>3. tools' \in [1 .. Len(tools) -> ToolSet]
      BY <2>3, <2>4, <3>1, <3>2
    <3>. QED BY <3>1, <3>3, SeqDef
  <2>6. \A i \in DOMAIN tools' : ~Busy(i)'
    BY <2>3, <2>4 DEF Busy
  <2>7. \A i \in DOMAIN tools' : tools'[i].turn <= turn'
    BY <1>1, <2>2, <2>3, <2>4 DEF ToolsInv
  <2>. QED BY <2>2, <2>3, <2>4, <2>5, <2>6, <2>7 DEF ToolsInv
<1>. QED
  BY <1>4, <1>5, <1>6, <1>7, <1>8, <1>9, <1>10, <1>11, <1>12, <1>13, <1>14, <1>15, <1>16, <1>17, <1>18
  DEF Next, Turns, Stream, Sends, Tools

-----------------------------------------------------------------------------
(* Nobody loses sight of a draft *)

LEMMA FirmFrame ==
  ASSUME FirmInv, ChatStep,
         \A p \in DOMAIN posts' : p \notin DOMAIN posts => ~Streaming(p)' \/ p \in hurt' \/ Firm(p)',
         \A p \in DOMAIN posts : Firm(p) /\ Streaming(p)' => p \in hurt' \/ Firm(p)'
  PROVE  FirmInv'
BY DEF FirmInv, ChatStep

\* Whoever held a post holds it still.
LEMMA FirmSame ==
  ASSUME FirmInv, ChatStep, DOMAIN posts' = DOMAIN posts, UNCHANGED <<ref, phase, settle, sends, tools>>
  PROVE  FirmInv'
<1>1. \A p \in DOMAIN posts : Firm(p) => Firm(p)'
  BY DEF Firm
<1>. QED BY <1>1, FirmFrame

LEMMA ToolHoldsDrafts ==
  ASSUME ToolsInv, NEW i \in DOMAIN tools, NEW from \in Nat, NEW text \in Said,
         NEW at \in {"posting", "handing", "ending", "asked", "opening", "dropping", "over"},
         tools' = ToolHolds(i, at, from, text)
  PROVE  /\ DOMAIN tools' = DOMAIN tools /\ tools'[i].draft = from
         /\ \A j \in DOMAIN tools : j # i => tools'[j] = tools[j]
<1>1. tools \in Seq(ToolSet)
  BY DEF ToolsInv
<1>2. PICK t \in ToolSet : tools' = [tools EXCEPT ![i] = t] /\ t.draft = from
  BY ToolHoldsTyped
<1>. QED BY <1>1, <1>2, SeqExcept

LEMMA SendAtDrafts ==
  ASSUME SendsInv, NEW r \in DOMAIN sends, NEW at \in {"posting", "waiting", "sent", "dropped"},
         sends' = SendAt(r, at)
  PROVE  /\ DOMAIN sends' = DOMAIN sends
         /\ \A j \in DOMAIN sends : j # r => sends'[j] = sends[j]
<1>1. sends \in Seq(SendSet)
  BY DEF SendsInv
<1>2. PICK s \in SendSet : sends' = [sends EXCEPT ![r] = s]
  BY SendAtTyped
<1>. QED BY <1>1, <1>2, SeqExcept

\* A tool moves on: what it held before is its own still, ended, hurt or the turn's.
LEMMA FirmTool ==
  ASSUME FirmInv, ChatStep, ToolsInv, UNCHANGED <<phase, settle, sends>>,
         NEW i \in DOMAIN tools, NEW from \in Nat, NEW text \in Said,
         NEW at \in {"posting", "handing", "ending", "asked", "opening", "dropping", "over"},
         tools' = ToolHolds(i, at, from, text),
         ref \in DOMAIN posts => ref' = ref \/ from = ref,
         \A p \in DOMAIN posts : p = tools[i].draft /\ Streaming(p)' => p = from \/ p \in hurt',
         \A p \in DOMAIN posts' : p \notin DOMAIN posts =>
           ~Streaming(p)' \/ p \in hurt' \/ p = ref' \/ p = from
  PROVE  FirmInv'
<1>1. /\ DOMAIN tools' = DOMAIN tools /\ tools'[i].draft = from
      /\ \A j \in DOMAIN tools : j # i => tools'[j] = tools[j]
  BY ToolHoldsDrafts
<1>2. \A p : p = from => Firm(p)'
  BY <1>1 DEF Firm
<1>3. \A p : p = ref' => Firm(p)'
  BY DEF Firm
<1>4. ASSUME NEW p \in DOMAIN posts, Firm(p), Streaming(p)' PROVE p \in hurt' \/ Firm(p)'
  <2>1. CASE p = ref
    BY <1>2, <1>3, <2>1
  <2>2. CASE phase = "settling" /\ settle.post = p
    BY <2>2 DEF Firm
  <2>3. CASE \E r \in DOMAIN sends : sends[r].at = "patching" /\ sends[r].draft = p
    BY <2>3 DEF Firm
  <2>4. CASE \E j \in DOMAIN tools : tools[j].draft = p
    <3>1. PICK j \in DOMAIN tools : tools[j].draft = p
      BY <2>4
    <3>2. CASE j = i
      BY <1>2, <1>4, <3>1, <3>2
    <3>3. CASE j # i
      BY <1>1, <3>1, <3>3 DEF Firm
    <3>. QED BY <3>2, <3>3
  <2>. QED BY <1>4, <2>1, <2>2, <2>3, <2>4 DEF Firm
<1>. QED BY <1>2, <1>3, <1>4, FirmFrame

LEMMA FirmNext == IInv /\ [Next]_vars => FirmInv'
<1> SUFFICES ASSUME IInv, [Next]_vars PROVE FirmInv'
  OBVIOUS
<1>1. ChatInv /\ OursInv /\ SendsInv /\ ToolsInv /\ FlightInv /\ FirmInv /\ ChatStep
  BY ChatNext DEF IInv
<1>2. 0 \notin DOMAIN posts
  BY <1>1, PostTyped
<1>3. CASE UNCHANGED <<posts, ref, phase, settle, sends, tools>>
  BY <1>1, <1>3, FirmSame
<1>4. CASE TurnStarts \/ TurnOpensBare
  <2>1. /\ posts' = posts /\ ref' = ref /\ sends' = sends /\ tools' = tools /\ phase # "settling"
    BY <1>4 DEF TurnStarts, TurnOpensBare, draft, jobs, chat
  <2>2. \A p \in DOMAIN posts : Firm(p) => Firm(p)'
    BY <2>1 DEF Firm
  <2>. QED BY <1>1, <2>1, <2>2, FirmFrame
<1>5. CASE TurnOpens
  <2>1. PICK fate \in {"done", "lost", "unheard"} :
          /\ posts' = IF fate = "lost" THEN posts ELSE Append(posts, Post("streaming", <<>>, 0))
          /\ hurt' = IF fate = "unheard" THEN hurt \cup {Len(posts')} ELSE hurt
          /\ ref' = IF fate = "done" THEN Len(posts') ELSE 0
    BY <1>5 DEF TurnOpens
  <2>2. late' = late /\ UNCHANGED server /\ sends' = sends /\ tools' = tools /\ phase = "opening"
    BY <1>5 DEF TurnOpens, jobs
  <2>3. /\ \A p \in DOMAIN posts' : p \notin DOMAIN posts => fate # "lost" /\ p = Len(posts')
        /\ fate = "unheard" => Len(posts') \in hurt'
    BY <1>1, <2>1, <2>2, DraftFacts
  <2>4. \A p \in DOMAIN posts' : p \notin DOMAIN posts => p \in hurt' \/ Firm(p)'
    BY <2>1, <2>3 DEF Firm
  <2>5. ref = 0
    BY <1>1, <2>2 DEF OursInv
  <2>6. \A p \in DOMAIN posts : Firm(p) => Firm(p)'
    BY <1>2, <2>2, <2>5 DEF Firm
  <2>. QED BY <1>1, <2>4, <2>6, FirmFrame
<1>6. CASE TurnEnds
  <2>1. /\ posts' = posts /\ sends' = sends /\ tools' = tools /\ phase = "running"
        /\ phase' = IF ref = 0 THEN "idle" ELSE "settling"
    BY <1>6 DEF TurnEnds, jobs, chat, Open
  <2>2. PICK told \in BOOLEAN : settle' = IF ref = 0 THEN NoPatch ELSE Ending(ref, told)
    BY <1>6 DEF TurnEnds
  <2>3. ref \in DOMAIN posts => phase' = "settling" /\ settle'.post = ref
    BY <1>1, <1>2, <2>1, <2>2, EndingMeant
  <2>4. \A p \in DOMAIN posts : Firm(p) => Firm(p)'
    BY <2>1, <2>3 DEF Firm
  <2>. QED BY <1>1, <2>1, <2>4, FirmFrame
<1>7. CASE TurnSettles
  <2>1. PICK x : \E fate \in Fates : x = settle /\ Sent(x, fate)
    BY <1>7 DEF TurnSettles
  <2>2. /\ ref' = ref /\ sends' = sends /\ tools' = tools /\ phase = "settling"
    BY <1>7 DEF TurnSettles, jobs, draft
  <2>3. Meant(x) /\ x.do \in {"done", "cancel"}
    BY <1>1, <2>1, <2>2 DEF OursInv
  <2>4. DOMAIN posts' = DOMAIN posts /\ (Streaming(x.post)' => x.post \in hurt')
    BY <1>1, <2>1, <2>3, SentFacts
  <2>5. \A p \in DOMAIN posts : Firm(p) /\ p # x.post => Firm(p)'
    BY <2>1, <2>2 DEF Firm
  <2>. QED BY <1>1, <2>4, <2>5, FirmFrame
<1>8. CASE StopAsked \/ Says \/ Rewrites \/ FlushStarts \/ UNCHANGED vars
  BY <1>3, <1>8 DEF StopAsked, Says, Rewrites, FlushStarts, vars, ours, draft, jobs, chat
<1>9. CASE FlushAnswered
  <2>1. UNCHANGED <<ref, phase, settle, sends, tools>> /\ flight.on
    BY <1>9 DEF FlushAnswered, ours, draft, jobs
  <2>2. DOMAIN posts' = DOMAIN posts
    BY <1>1, <1>9, SentFacts DEF FlushAnswered, FlightInv
  <2>. QED BY <1>1, <2>1, <2>2, FirmSame
<1>10. CASE Server
  <2>1. UNCHANGED <<ref, phase, settle, sends, tools>>
    BY <1>10, ServerOnly
  <2>2. DOMAIN posts' = DOMAIN posts
    BY <1>10, ServerFacts
  <2>. QED BY <1>1, <2>1, <2>2, FirmSame
<1>11. CASE Crash
  <2>1. posts' = posts
    BY <1>11, Zenon DEF Crash
  <2>2. hurt' = hurt \cup {p \in DOMAIN posts : Streaming(p)}
    BY <1>11, Zenon DEF Crash
  <2>. QED BY <2>1, <2>2 DEF FirmInv, Streaming
<1>12. CASE ReplyMade
  <2> DEFINE s == Send(Len(sends) + 1, turn)
  <2>1. sends \in Seq(SendSet) /\ Len(sends) + 1 \in Nat /\ turn \in Nat /\ ref' = 0
    BY <1>1, <1>12, LenProperties, DraftBounds DEF SendsInv, OursInv, ReplyMade, Claimed
  <2>2. s \in SendSet /\ (ref # 0 => s.at = "patching" /\ s.draft = ref)
    BY <1>1, <2>1, SendTakes
  <2>3. sends' = Append(sends, s) /\ posts' = posts /\ UNCHANGED <<phase, settle, tools>>
    BY <1>12 DEF ReplyMade, chat, ours
  <2> HIDE DEF s
  <2>4. /\ DOMAIN sends' = DOMAIN sends \cup {Len(sends) + 1}
        /\ \A j \in DOMAIN sends : sends'[j] = sends[j]
        /\ sends'[Len(sends) + 1] = s
    BY <2>1, <2>2, <2>3, SeqAppend
  <2>5. \A p \in DOMAIN posts : Firm(p) => Firm(p)'
    BY <1>2, <2>2, <2>3, <2>4 DEF Firm
  <2>. QED BY <1>1, <2>3, <2>5, FirmFrame
<1>13. CASE SendRetried
  <2>1. PICK r \in DOMAIN sends : sends[r].at = "waiting" /\ sends' = [sends EXCEPT ![r] = Send(r, 0)]
    BY <1>13 DEF SendRetried
  <2>2. r \in Nat /\ ref' = 0 /\ posts' = posts /\ UNCHANGED <<phase, settle, tools>>
    BY <1>1, <1>13, SendTyped DEF SendRetried, Claimed, chat, ours
  <2> DEFINE s == Send(r, 0)
  <2>3. s \in SendSet /\ (ref # 0 => s.at = "patching" /\ s.draft = ref)
    BY <1>1, <2>2, SendTakes
  <2>4. sends \in Seq(SendSet) /\ sends' = [sends EXCEPT ![r] = s]
    BY <1>1, <2>1 DEF SendsInv
  <2> HIDE DEF s
  <2>5. DOMAIN sends' = DOMAIN sends /\ \A j \in DOMAIN sends : sends'[j] = IF j = r THEN s ELSE sends[j]
    BY <2>3, <2>4, SeqExcept
  <2>6. \A p \in DOMAIN posts : Firm(p) => Firm(p)'
    BY <1>2, <2>1, <2>2, <2>3, <2>5 DEF Firm
  <2>. QED BY <1>1, <2>2, <2>6, FirmFrame
<1>14. CASE DraftFinished
  <2>1. PICK r \in DOMAIN sends, fate \in Fates :
          /\ sends[r].at = "patching" /\ Sent(SendPatch(r), fate)
          /\ \E at \in {"sent", "posting"} : sends' = SendAt(r, at)
    BY <1>14 DEF DraftFinished
  <2>2. UNCHANGED <<ref, phase, settle, tools>>
    BY <1>14 DEF DraftFinished, ours, draft
  <2>3. PICK x : x = SendPatch(r)
    OBVIOUS
  <2>4. Meant(x) /\ x.do = "done" /\ x.post = sends[r].draft /\ Sent(x, fate)
    BY <1>1, <2>1, <2>3, SendMeant
  <2>5. DOMAIN posts' = DOMAIN posts /\ (Streaming(x.post)' => x.post \in hurt')
    BY <1>1, <2>4, SentFacts
  <2>6. DOMAIN sends' = DOMAIN sends /\ \A j \in DOMAIN sends : j # r => sends'[j] = sends[j]
    BY <1>1, <2>1, SendAtDrafts
  <2>7. \A p \in DOMAIN posts : Firm(p) /\ p # x.post => Firm(p)'
    BY <2>2, <2>4, <2>6 DEF Firm
  <2>. QED BY <1>1, <2>5, <2>7, FirmFrame
<1>15. CASE ReplyPosted
  <2>1. PICK r \in DOMAIN sends :
          /\ sends[r].at = "posting" /\ (posts' = posts \/ posts' = WithReply(r))
          /\ \E at \in {"sent", "waiting", "dropped"} : sends' = SendAt(r, at)
    BY <1>15 DEF ReplyPosted
  <2>2. UNCHANGED <<ref, phase, settle, tools>> /\ late' = late /\ UNCHANGED server /\ hurt' = hurt
    BY <1>15 DEF ReplyPosted, ours, draft
  <2>3. \A p \in DOMAIN posts' : p \notin DOMAIN posts => ~Streaming(p)'
    BY <1>1, <2>1, <2>2, PostedFacts
  <2>4. DOMAIN sends' = DOMAIN sends /\ \A j \in DOMAIN sends : j # r => sends'[j] = sends[j]
    BY <1>1, <2>1, SendAtDrafts
  <2>5. \A p \in DOMAIN posts : Firm(p) => Firm(p)'
    BY <2>1, <2>2, <2>4 DEF Firm
  <2>. QED BY <1>1, <2>3, <2>5, FirmFrame
<1>16. CASE ToolStarts
  <2>1. PICK t \in ToolSet : tools' = Append(tools, t)
    <3>1. PICK kind \in {"surface", "question"} :
            tools' = Append(tools, [kind |-> kind, turn |-> turn, at |-> "posting",
                                    drafted |-> ref # 0, draft |-> 0, text |-> <<>>])
      BY <1>16 DEF ToolStarts
    <3>2. turn \in Nat /\ <<>> \in Said
      BY <1>1, DraftBounds, SaidIsEntries DEF OursInv
    <3>3. [kind |-> kind, turn |-> turn, at |-> "posting",
           drafted |-> ref # 0, draft |-> 0, text |-> <<>>] \in ToolSet
      BY <3>2 DEF ToolSet
    <3>. QED BY <3>1, <3>3
  <2>2. posts' = posts /\ UNCHANGED <<ref, phase, settle, sends>>
    BY <1>16 DEF ToolStarts, chat, ours, draft
  <2>3. tools \in Seq(ToolSet)
    BY <1>1 DEF ToolsInv
  <2>4. DOMAIN tools \subseteq DOMAIN tools' /\ \A j \in DOMAIN tools : tools'[j] = tools[j]
    BY <2>1, <2>3, SeqAppend
  <2>5. \A p \in DOMAIN posts : Firm(p) => Firm(p)'
    BY <2>2, <2>4 DEF Firm
  <2>. QED BY <1>1, <2>2, <2>5, FirmFrame
<1>17. /\ 0 \in Nat /\ <<>> \in Said /\ ref \in Nat /\ lane.cum \in Said
       /\ \A i \in DOMAIN tools : tools[i].draft \in Nat /\ tools[i].text \in Said
  BY <1>1, SaidIsEntries, ToolTyped, LenProperties DEF OursInv, ChatInv, FlightInv, LaneSet
<1>18. CASE ToolPosted
  <2>1. PICK i \in DOMAIN tools :
          /\ tools[i].at = "posting"
          /\ posts' = posts \/ posts' = Append(posts, Post("published", <<Block(i)>>, 0))
          /\ \/ tools' = ToolAt(i, "over") /\ UNCHANGED draft
             \/ tools' = ToolAt(i, Parked(i)) /\ UNCHANGED draft
             \/ tools' = ToolHolds(i, "handing", ref, lane.cum) /\ Claimed
    BY <1>18, Zenon DEF ToolPosted
  <2>2. UNCHANGED <<phase, settle, sends>> /\ late' = late /\ UNCHANGED server /\ hurt' = hurt
    BY <1>18 DEF ToolPosted, ours
  <2>3. i \in Nat /\ tools[i].draft = 0
    BY <1>1, <2>1, ToolTyped DEF ToolsInv
  <2>4. \A p \in DOMAIN posts' : p \notin DOMAIN posts => ~Streaming(p)'
    BY <1>1, <2>1, <2>2, <2>3, BlockFacts
  <2>5. PICK at \in {"handing", "asked", "over"}, from \in Nat, text \in Said :
          tools' = ToolHolds(i, at, from, text) /\ (ref' = ref \/ from = ref)
    <3>1. Parked(i) \in {"asked", "over"}
      BY DEF Parked
    <3>. QED BY <1>17, <2>1, <3>1 DEF ToolAt, draft
  <2>. QED BY <1>1, <1>2, <2>2, <2>3, <2>4, <2>5, FirmTool
<1>19. CASE DraftHanded
  <2>1. PICK i \in DOMAIN tools : tools' = ToolHolds(i, "ending", tools[i].draft, tools[i].text)
    BY <1>19 DEF DraftHanded
  <2>2. UNCHANGED <<posts, ref, phase, settle, sends>>
    BY <1>19 DEF DraftHanded, ours, draft, chat
  <2>. QED BY <1>1, <1>17, <2>1, <2>2, FirmTool
<1>20. CASE DraftEnded
  <2>1. PICK i \in DOMAIN tools, fate \in Fates :
          /\ tools[i].at = "ending" /\ Sent(EndPatch(i), fate)
          /\ tools' = ToolAt(i, IF tools[i].kind = "question" THEN "asked" ELSE "opening")
    BY <1>20 DEF DraftEnded
  <2>2. UNCHANGED <<ref, phase, settle, sends>>
    BY <1>20 DEF DraftEnded, ours, draft
  <2>3. PICK x : x = EndPatch(i)
    OBVIOUS
  <2>4. Meant(x) /\ x.do \in {"done", "cancel"} /\ x.post = tools[i].draft /\ Sent(x, fate)
    BY <1>1, <2>1, <2>3, EndMeant
  <2>5. DOMAIN posts' = DOMAIN posts /\ (Streaming(x.post)' => x.post \in hurt')
    BY <1>1, <2>4, SentFacts
  <2>6. PICK at \in {"asked", "opening"} : tools' = ToolHolds(i, at, 0, <<>>)
    BY <2>1 DEF ToolAt
  <2>. QED BY <1>1, <1>17, <2>2, <2>4, <2>5, <2>6, FirmTool
<1>21. CASE QuestionOver
  <2>1. PICK i \in DOMAIN tools :
          tools[i].at = "asked" /\ tools' = ToolAt(i, IF tools[i].drafted THEN "opening" ELSE "over")
    BY <1>21 DEF QuestionOver
  <2>2. UNCHANGED <<posts, ref, phase, settle, sends>>
    BY <1>21 DEF QuestionOver, ours, draft, chat
  <2>3. PICK at \in {"over", "opening"} : tools' = ToolHolds(i, at, 0, <<>>)
    BY <2>1 DEF ToolAt
  <2>4. tools[i].draft = 0
    BY <1>1, <2>1 DEF ToolsInv
  <2>. QED BY <1>1, <1>2, <1>17, <2>2, <2>3, <2>4, FirmTool
<1>22. CASE DraftOpened
  <2>1. PICK i \in DOMAIN tools, fate \in {"done", "lost", "unheard"} :
          /\ tools[i].at = "opening"
          /\ posts' = IF fate = "lost" THEN posts ELSE Append(posts, Post("streaming", <<>>, 0))
          /\ hurt' = IF fate = "unheard" THEN hurt \cup {Len(posts')} ELSE hurt
          /\ IF fate = "done" /\ StillOpen(i)
             THEN ref' = Len(posts') /\ orphan' = Len(posts') ELSE UNCHANGED draft
          /\ tools' = IF fate = "done" /\ ~StillOpen(i)
                      THEN ToolHolds(i, "dropping", Len(posts'), <<>>) ELSE ToolAt(i, "over")
    BY <1>22 DEF DraftOpened
  <2>2. UNCHANGED <<phase, settle, sends>> /\ late' = late /\ UNCHANGED server
    BY <1>22 DEF DraftOpened, ours
  <2>3. /\ \A p \in DOMAIN posts' : p \notin DOMAIN posts => fate # "lost" /\ p = Len(posts')
        /\ fate = "unheard" => Len(posts') \in hurt'
        /\ fate = "done" => Len(posts') \in Nat
    BY <1>1, <2>1, <2>2, DraftFacts
  <2>4. tools[i].draft = 0
    BY <1>1, <2>1 DEF ToolsInv
  <2>5. ref \in DOMAIN posts => ref' = ref
    <3>1. StillOpen(i) => ref = 0
      BY <1>1, <2>1 DEF ToolsInv, StillOpen, Off
    <3>. QED BY <1>2, <2>1, <3>1 DEF draft
  <2>6. PICK at \in {"dropping", "over"}, from \in Nat :
          /\ tools' = ToolHolds(i, at, from, <<>>)
          /\ fate = "done" => Len(posts') = ref' \/ Len(posts') = from
    BY <1>17, <2>1, <2>3 DEF ToolAt
  <2>7. \A p \in DOMAIN posts' : p \notin DOMAIN posts => p \in hurt' \/ p = ref' \/ p = from
    BY <2>1, <2>3, <2>6
  <2>. QED BY <1>1, <1>2, <1>17, <2>2, <2>4, <2>5, <2>6, <2>7, FirmTool
<1>23. CASE DraftDropped
  <2>1. PICK i \in DOMAIN tools, fate \in Fates :
          /\ tools[i].at = "dropping" /\ Sent(Cancel(tools[i].draft), fate)
          /\ tools' = ToolHolds(i, "over", 0, <<>>)
    BY <1>23 DEF DraftDropped, ToolAt
  <2>2. UNCHANGED <<ref, phase, settle, sends>>
    BY <1>23 DEF DraftDropped, ours, draft
  <2>3. PICK x : x = Cancel(tools[i].draft)
    OBVIOUS
  <2>4. Meant(x) /\ x.do = "cancel" /\ x.post = tools[i].draft /\ Sent(x, fate)
    BY <1>1, <2>1, <2>3, DropMeant
  <2>5. DOMAIN posts' = DOMAIN posts /\ (Streaming(x.post)' => x.post \in hurt')
    BY <1>1, <2>4, SentFacts
  <2>. QED BY <1>1, <1>17, <2>1, <2>2, <2>4, <2>5, FirmTool
<1>. QED
  BY <1>4, <1>5, <1>6, <1>7, <1>8, <1>9, <1>10, <1>11, <1>12, <1>13, <1>14, <1>15, <1>16, <1>18,
     <1>19, <1>20, <1>21, <1>22, <1>23
  DEF Next, Turns, Stream, Sends, Tools

-----------------------------------------------------------------------------
(* The stream *)

LEMMA LaneTyped ==
  ASSUME FlightInv
  PROVE  /\ lane \in LaneSet /\ lane.cum \in Said /\ lane.said \in Said /\ lane.sent \in Nat
         /\ lane.rewrite \in BOOLEAN /\ lane.stopped \in BOOLEAN
         /\ Len(lane.cum) \in Nat
         /\ flight.on \in BOOLEAN /\ flight.mine \in BOOLEAN /\ flight.patch \in PatchSet
         /\ Len(flight.patch.body) \in Nat
<1>1. lane.cum \in Said /\ flight.patch \in PatchSet
  BY DEF FlightInv, LaneSet
<1>2. Len(lane.cum) \in Nat
  BY <1>1, LenProperties DEF Said
<1>3. Len(flight.patch.body) \in Nat
  BY <1>1, LenProperties DEF PatchSet
<1>. QED BY <1>1, <1>2, <1>3 DEF FlightInv, LaneSet

LEMMA ConfirmedIs ==
  ASSUME FlightInv
  PROVE  /\ Confirmed \in LaneSet /\ Confirmed.cum = lane.cum /\ Confirmed.said = lane.said
         /\ Confirmed.rewrite = lane.rewrite /\ Confirmed.stopped = lane.stopped
         /\ Confirmed.sent = IF flight.patch.do = "replace" THEN Len(flight.patch.body)
                             ELSE lane.sent + Len(flight.patch.body)
         /\ Confirmed.sent \in Nat
BY LaneTyped DEF Confirmed, LaneSet

LEMMA FreshLane ==
  Fresh \in LaneSet /\ Fresh.sent = 0 /\ Fresh.cum = <<>> /\ Len(Fresh.cum) = 0 /\ ~Fresh.rewrite
BY SaidIsEntries DEF Fresh, LaneSet

LEMMA NoFlightTyped ==
  /\ NoFlight \in [on : BOOLEAN, mine : BOOLEAN, patch : PatchSet]
  /\ ~NoFlight.on /\ ~NoFlight.mine
<1>1. NoPatch \in PatchSet
  BY SaidIsEntries DEF NoPatch, Patch, PatchSet
<1>. QED BY <1>1 DEF NoFlight

\* What is left to send of a text.
LEMMA UnsentIs ==
  ASSUME FlightInv
  PROVE  /\ Unsent \in Said /\ Len(Unsent) \in Nat
         /\ Len(Unsent) = IF lane.sent < Len(lane.cum) THEN Len(lane.cum) - lane.sent ELSE 0
<1>1. lane.cum \in Seq(Speech) /\ lane.sent \in Nat /\ Len(lane.cum) \in Nat
  BY LaneTyped DEF Said
<1>2. \A i \in lane.sent + 1 .. Len(lane.cum) : lane.cum[i] \in Speech
  BY <1>1, ElementOfSeq
<1>3. /\ Unsent \in Seq(Speech)
      /\ Len(Unsent) = IF lane.sent + 1 <= Len(lane.cum) THEN Len(lane.cum) - (lane.sent + 1) + 1 ELSE 0
  BY <1>1, <1>2, SubSeqProperties DEF Unsent
<1>. QED BY <1>1, <1>3 DEF Said

LEMMA FlightToMeant ==
  ASSUME ChatInv, FlightInv, NEW p \in DOMAIN posts
  PROVE  LET f == FlightTo(p) IN
           /\ f \in [on : BOOLEAN, mine : BOOLEAN, patch : PatchSet]
           /\ f.on /\ f.mine /\ Meant(f.patch) /\ f.patch.post = p
           /\ f.patch.do = IF lane.rewrite THEN "replace" ELSE "append"
           /\ f.patch.body = IF lane.rewrite THEN lane.cum ELSE Unsent
<1>1. lane.cum \in Said /\ Unsent \in Said /\ p \in Nat
  BY LaneTyped, UnsentIs, PostTyped
<1>2. lane.cum \in Seq(Entries) /\ Unsent \in Seq(Entries)
  BY <1>1, SaidIsEntries
<1>3. /\ Replace(p, lane.cum) \in PatchSet /\ Meant(Replace(p, lane.cum))
      /\ AppendTo(p, Unsent) \in PatchSet /\ Meant(AppendTo(p, Unsent))
  BY <1>1, <1>2 DEF Replace, AppendTo, Patch, PatchSet, Meant, Tells
<1>4. CASE lane.rewrite
  BY <1>3, <1>4 DEF FlightTo, Replace, Patch
<1>5. CASE ~lane.rewrite
  BY <1>3, <1>5 DEF FlightTo, AppendTo, Patch
<1>. QED BY <1>4, <1>5

\* An event of the runner: the text grows, or is another.
LEMMA SaysLane ==
  ASSUME OursInv, FlightInv, Says
  PROVE  /\ lane' \in LaneSet /\ spent'.texts = spent.texts + 1
         /\ lane'.sent = lane.sent /\ lane'.rewrite = lane.rewrite /\ lane'.stopped = lane.stopped
         /\ \/ lane'.cum = lane.cum
            \/ ~lane.stopped /\ \E e \in Speech : lane'.cum = Append(lane.cum, e)
<1> DEFINE e == Text(spent.texts + 1)
<1>1. spent.texts + 1 \in Nat /\ spent'.texts = spent.texts + 1
  BY SpentTyped DEF Says, OursInv
<1>2. e \in Speech
  BY <1>1 DEF Text, Speech
<1>3. lane' = [lane EXCEPT !.said = Append(@, e), !.cum = IF lane.stopped THEN @ ELSE Append(@, e)]
  BY <1>1 DEF Says
<1> HIDE DEF e
<1>4. Append(lane.said, e) \in Said /\ Append(lane.cum, e) \in Said
  BY <1>2, LaneTyped, AppendProperties DEF Said
<1>5. lane'.cum = IF lane.stopped THEN lane.cum ELSE Append(lane.cum, e)
  BY <1>3, LaneTyped DEF LaneSet
<1>6. /\ lane' \in LaneSet
      /\ lane'.sent = lane.sent /\ lane'.rewrite = lane.rewrite /\ lane'.stopped = lane.stopped
  BY <1>3, <1>4, LaneTyped DEF LaneSet
<1>. QED BY <1>1, <1>2, <1>5, <1>6

LEMMA RewritesLane ==
  ASSUME OursInv, FlightInv, Rewrites
  PROVE  /\ lane' \in LaneSet /\ spent'.texts = spent.texts + 1
         /\ lane'.sent = lane.sent /\ lane'.stopped = lane.stopped /\ Len(lane'.cum) = 1
         /\ lane'.rewrite <=> lane.rewrite \/ lane.sent > 0
<1> DEFINE new == <<Text(spent.texts + 1)>>
<1>1. spent.texts + 1 \in Nat /\ spent'.texts = spent.texts + 1
  BY SpentTyped DEF Rewrites, OursInv
<1>2. new \in Said /\ Len(new) = 1
  BY <1>1 DEF Text, Speech, Said
<1>3. lane' = [lane EXCEPT !.said = new, !.cum = new, !.rewrite = @ \/ lane.sent > 0]
  BY <1>1 DEF Rewrites
<1> HIDE DEF new
<1>4. (lane.rewrite \/ lane.sent > 0) \in BOOLEAN
  OBVIOUS
<1>5. lane'.cum = new /\ lane'.said = new /\ lane'.sent = lane.sent /\ lane'.stopped = lane.stopped
  BY <1>3, LaneTyped DEF LaneSet
<1>6. lane'.rewrite = (lane.rewrite \/ lane.sent > 0)
  BY <1>3, LaneTyped DEF LaneSet
<1>7. lane' \in LaneSet
  BY <1>2, <1>3, <1>4, LaneTyped DEF LaneSet
<1>. QED BY <1>1, <1>2, <1>5, <1>6, <1>7

LEMMA StoppedLane ==
  ASSUME FlightInv
  PROVE  LET l == [lane EXCEPT !.stopped = TRUE] IN
           /\ l \in LaneSet /\ l.stopped /\ l.cum = lane.cum /\ l.sent = lane.sent
           /\ l.rewrite = lane.rewrite
BY LaneTyped DEF LaneSet

LEMMA NotMine ==
  ASSUME FlightInv
  PROVE  LET f == [flight EXCEPT !.mine = FALSE] IN
           /\ f \in [on : BOOLEAN, mine : BOOLEAN, patch : PatchSet]
           /\ f.on = flight.on /\ ~f.mine /\ f.patch = flight.patch
BY DEF FlightInv

\* A flight that stays, of a lane that is another now.
LEMMA FlightKept ==
  ASSUME FlightInv, ChatStep, flight' = [flight EXCEPT !.mine = FALSE], raced' = raced,
         ref' = 0 \/ (ref' = ref /\ ~flight.mine) \/ ref' \notin DOMAIN posts, 0 \notin DOMAIN posts,
         lane' \in LaneSet, lane'.sent <= spent.texts, Len(lane'.cum) <= spent.texts,
         spent'.texts = spent.texts
  PROVE  FlightInv'
<1>1. /\ flight' \in [on : BOOLEAN, mine : BOOLEAN, patch : PatchSet]
      /\ flight'.on = flight.on /\ ~flight'.mine /\ flight'.patch = flight.patch
  BY NotMine
<1>2. flight.on => flight.patch.post \in DOMAIN posts /\ Meant(flight.patch)
  BY DEF FlightInv, Meant
<1>3. flight'.on => Meant(flight.patch)'
  BY <1>1, <1>2 DEF Meant, ChatStep
<1>4. flight'.on => flight'.patch.post # ref'
  BY <1>1, <1>2 DEF FlightInv
<1>5. flight'.on => flight'.patch.do \in {"append", "replace"}
  BY <1>1 DEF FlightInv
<1>6. raced' \in BOOLEAN
  BY DEF FlightInv
<1>. QED BY <1>1, <1>3, <1>4, <1>5, <1>6 DEF FlightInv

LEMMA FlightFrame ==
  ASSUME FlightInv, ChatStep, RefStep, UNCHANGED <<lane, flight, raced>>,
         spent'.texts = spent.texts, phase' = phase
  PROVE  FlightInv'
<1>1. flight.on => flight.patch.post \in DOMAIN posts /\ Meant(flight.patch)
  BY DEF FlightInv, Meant
<1>2. flight'.on => Meant(flight.patch)'
  BY <1>1 DEF Meant, ChatStep
<1>3. flight'.on /\ ~flight'.mine => flight'.patch.post # ref'
  BY <1>1 DEF FlightInv, RefStep
<1>4. Confirmed' = Confirmed
  BY DEF Confirmed
<1>. QED BY <1>2, <1>3, <1>4 DEF FlightInv

\* A flush that finds the draft sends it what is unsent, or all of a rewritten text.
LEMMA FlushTakes ==
  ASSUME ChatInv, OursInv, FlightInv, FlushStarts, ref # 0
  PROVE  /\ ref \in DOMAIN posts /\ ~flight.on /\ ~lane.stopped
         /\ flight' \in [on : BOOLEAN, mine : BOOLEAN, patch : PatchSet]
         /\ flight'.on /\ flight'.mine /\ Meant(flight.patch)' /\ flight'.patch.post = ref
         /\ flight'.patch.do = IF lane.rewrite THEN "replace" ELSE "append"
         /\ flight'.patch.body = IF lane.rewrite THEN lane.cum ELSE Unsent
         /\ lane' \in LaneSet /\ lane'.sent = lane.sent /\ lane'.cum = lane.cum /\ ~lane'.rewrite
         /\ Confirmed'.sent = IF lane.rewrite THEN Len(lane.cum) ELSE lane.sent + Len(Unsent)
<1>1. /\ UNCHANGED posts /\ ~flight.on /\ ~lane.stopped
      /\ lane' = [lane EXCEPT !.rewrite = FALSE] /\ flight' = FlightTo(ref)
  BY DEF FlushStarts, chat
<1>2. PICK p \in DOMAIN posts : p = ref
  BY LenProperties DEF OursInv, ChatInv
<1>3. flight' = FlightTo(p)
  BY <1>1, <1>2
<1>4. /\ flight' \in [on : BOOLEAN, mine : BOOLEAN, patch : PatchSet]
      /\ flight'.on /\ flight'.mine /\ flight'.patch.post = ref
      /\ flight'.patch.do = IF lane.rewrite THEN "replace" ELSE "append"
      /\ flight'.patch.body = IF lane.rewrite THEN lane.cum ELSE Unsent
  BY <1>2, <1>3, FlightToMeant
<1>5. Meant(flight.patch)'
  <2>1. PICK x : x = FlightTo(p).patch
    OBVIOUS
  <2>2. Meant(x) /\ flight'.patch = x
    BY <1>3, <2>1, FlightToMeant
  <2>3. Meant(x)'
    BY <1>1, <2>2, MeantLater
  <2>. QED BY <2>2, <2>3 DEF Meant
<1>6. lane' \in LaneSet /\ lane'.sent = lane.sent /\ lane'.cum = lane.cum /\ ~lane'.rewrite
  BY <1>1, LaneTyped DEF LaneSet
<1>7. Confirmed' = [lane' EXCEPT !.sent = IF flight'.patch.do = "replace"
                     THEN Len(flight'.patch.body) ELSE lane'.sent + Len(flight'.patch.body)]
  BY DEF Confirmed
<1>8. Confirmed'.sent = IF lane.rewrite THEN Len(lane.cum) ELSE lane.sent + Len(Unsent)
  BY <1>4, <1>6, <1>7 DEF LaneSet
<1>. QED BY <1>1, <1>2, <1>4, <1>5, <1>6, <1>8

LEMMA FlightNext == IInv /\ [Next]_vars => FlightInv'
<1> SUFFICES ASSUME IInv, [Next]_vars PROVE FlightInv'
  OBVIOUS
<1>1. /\ ChatInv /\ OursInv /\ SendsInv /\ ToolsInv /\ FlightInv
      /\ ChatInv' /\ ChatStep /\ RefStep /\ OursInv'
  BY ChatNext, RefStepNext, OursNext DEF IInv
<1>2. 0 \notin DOMAIN posts /\ spent.texts \in Nat
  BY <1>1, PostTyped, SpentTyped
<1>3. CASE UNCHANGED <<lane, flight, raced, phase>> /\ spent'.texts = spent.texts
  BY <1>1, <1>3, FlightFrame
<1>4. CASE TurnStarts
  <2>1. UNCHANGED <<posts, ref, lane, flight, raced, spent>> /\ phase = "idle"
    BY <1>4 DEF TurnStarts, chat, draft, stream
  <2>2. ~flight.mine
    BY <1>1, <2>1 DEF FlightInv
  <2>3. flight.on => Meant(flight.patch)'
    BY <1>1, <2>1 DEF FlightInv, Meant
  <2>. QED BY <1>1, <2>1, <2>2, <2>3 DEF FlightInv
<1>5. CASE TurnOpens \/ TurnOpensBare
  <2>1. lane' = Fresh /\ flight' = flight /\ raced' = raced /\ phase = "opening"
    BY <1>5 DEF TurnOpens, TurnOpensBare
  <2>2. spent'.texts = spent.texts
    BY <1>1, <1>5, FaultySpent DEF TurnOpens, TurnOpensBare
  <2>3. ~flight.mine
    BY <1>1, <2>1 DEF FlightInv
  <2>4. flight' = [flight EXCEPT !.mine = FALSE]
    BY <1>1, <2>1, <2>3 DEF FlightInv
  <2>5. ref' = 0 \/ (ref' = ref /\ ~flight.mine) \/ ref' \notin DOMAIN posts
    BY <1>1, <2>3 DEF RefStep
  <2>6. lane' \in LaneSet /\ lane'.sent <= spent.texts /\ Len(lane'.cum) <= spent.texts
    BY <1>2, <2>1, FreshLane
  <2>. QED BY <1>1, <1>2, <2>1, <2>2, <2>4, <2>5, <2>6, FlightKept
<1>6. CASE TurnEnds
  <2>1. /\ lane' = [lane EXCEPT !.stopped = TRUE] /\ flight' = [flight EXCEPT !.mine = FALSE]
        /\ raced' = raced /\ ref' = 0 /\ spent' = spent
    BY <1>6 DEF TurnEnds
  <2>2. lane' \in LaneSet /\ lane'.sent <= spent.texts /\ Len(lane'.cum) <= spent.texts
    BY <1>1, <2>1, StoppedLane DEF FlightInv
  <2>. QED BY <1>1, <1>2, <2>1, <2>2, FlightKept
<1>7. CASE TurnSettles
  <2>1. UNCHANGED <<lane, flight, raced>> /\ phase = "settling" /\ ref' = ref
    BY <1>7 DEF TurnSettles, stream, draft
  <2>2. ~flight.mine
    BY <1>1, <2>1 DEF FlightInv
  <2>3. flight' = [flight EXCEPT !.mine = FALSE]
    BY <1>1, <2>1, <2>2 DEF FlightInv
  <2>4. spent'.texts = spent.texts
    BY <1>1, <1>7, FaultySpent DEF TurnSettles, Sent
  <2>5. lane' \in LaneSet /\ lane'.sent <= spent.texts /\ Len(lane'.cum) <= spent.texts
    BY <1>1, <2>1 DEF FlightInv
  <2>. QED BY <1>1, <1>2, <2>1, <2>2, <2>3, <2>4, <2>5, FlightKept
<1>8. CASE Says \/ Rewrites
  <2>1. UNCHANGED <<posts, ref, flight, phase>> /\ raced' \in BOOLEAN
    BY <1>1, <1>8 DEF Says, Rewrites, chat, ours, draft, FlightInv
  <2>2. /\ lane' \in LaneSet /\ spent'.texts = spent.texts + 1 /\ lane'.sent = lane.sent
        /\ Len(lane'.cum) <= spent.texts + 1
    <3>1. CASE Says
      <4>1. /\ lane' \in LaneSet /\ spent'.texts = spent.texts + 1 /\ lane'.sent = lane.sent
            /\ lane'.cum = lane.cum \/ \E e \in Speech : lane'.cum = Append(lane.cum, e)
        BY <1>1, <3>1, SaysLane
      <4>2. Len(lane'.cum) <= Len(lane.cum) + 1
        BY <1>1, <4>1, LaneTyped, AppendProperties DEF Said
      <4>3. Len(lane'.cum) \in Nat
        BY <4>1, LenProperties DEF LaneSet, Said
      <4>. QED BY <1>1, <1>2, <4>1, <4>2, <4>3, LaneTyped DEF FlightInv
    <3>2. CASE Rewrites
      <4>1. /\ lane' \in LaneSet /\ spent'.texts = spent.texts + 1 /\ lane'.sent = lane.sent
            /\ Len(lane'.cum) = 1
        BY <1>1, <3>2, RewritesLane
      <4>. QED BY <1>2, <4>1
    <3>. QED BY <1>8, <3>1, <3>2
  <2>3. flight.mine => Confirmed'.sent <= spent.texts + 1
    <3>1. ASSUME flight.mine PROVE Confirmed'.sent <= spent.texts + 1
      <4>1. Confirmed.sent <= spent.texts /\ Confirmed.sent \in Nat
        BY <1>1, <3>1, ConfirmedIs DEF FlightInv
      <4>2. Confirmed' = [lane' EXCEPT !.sent = IF flight.patch.do = "replace"
                            THEN Len(flight.patch.body) ELSE lane'.sent + Len(flight.patch.body)]
        BY <2>1 DEF Confirmed
      <4>3. Confirmed'.sent = Confirmed.sent
        BY <1>1, <2>2, <4>2, ConfirmedIs DEF LaneSet
      <4>. QED BY <1>2, <4>1, <4>3
    <3>. QED BY <3>1
  <2>4. lane'.sent <= spent'.texts
    BY <1>1, <1>2, <2>2, LaneTyped DEF FlightInv
  <2>5. flight.on => Meant(flight.patch)'
    BY <1>1, <2>1 DEF FlightInv, Meant
  <2>. QED BY <1>1, <2>1, <2>2, <2>3, <2>4, <2>5 DEF FlightInv
<1>9. CASE FlushStarts
  <2>1. /\ UNCHANGED <<posts, ref, raced, phase, spent>> /\ phase = "running" /\ ~flight.on
        /\ \/ ref = 0 /\ lane' = [lane EXCEPT !.stopped = TRUE] /\ flight' = flight
           \/ ref # 0 /\ lane' = [lane EXCEPT !.rewrite = FALSE] /\ flight' = FlightTo(ref)
    BY <1>9 DEF FlushStarts, chat, ours, draft, Open
  <2>2. CASE ref = 0
    <3>1. ~flight.mine /\ lane' = [lane EXCEPT !.stopped = TRUE]
      BY <1>1, <2>1, <2>2 DEF FlightInv
    <3>2. flight' = [flight EXCEPT !.mine = FALSE]
      BY <1>1, <2>1, <2>2, <3>1 DEF FlightInv
    <3>3. lane' \in LaneSet /\ lane'.sent <= spent.texts /\ Len(lane'.cum) <= spent.texts
      BY <1>1, <3>1, StoppedLane DEF FlightInv
    <3>. QED BY <1>1, <1>2, <2>1, <2>2, <3>2, <3>3, FlightKept
  <2>3. CASE ref # 0
    <3>1. /\ flight' \in [on : BOOLEAN, mine : BOOLEAN, patch : PatchSet]
          /\ flight'.on /\ flight'.mine /\ Meant(flight.patch)'
          /\ flight'.patch.do = IF lane.rewrite THEN "replace" ELSE "append"
          /\ lane' \in LaneSet /\ lane'.sent = lane.sent /\ lane'.cum = lane.cum
          /\ Confirmed'.sent = IF lane.rewrite THEN Len(lane.cum) ELSE lane.sent + Len(Unsent)
      BY <1>1, <1>9, <2>3, FlushTakes
    <3>2. Confirmed'.sent <= spent.texts
      BY <1>1, <1>2, <3>1, UnsentIs, LaneTyped DEF FlightInv
    <3>. QED BY <1>1, <2>1, <3>1, <3>2 DEF FlightInv
  <2>. QED BY <2>2, <2>3
<1>10. CASE FlushAnswered
  <2>1. /\ flight' = NoFlight /\ raced' = raced
        /\ \/ lane' = lane
           \/ lane' = [lane EXCEPT !.stopped = TRUE]
           \/ flight.mine /\ lane' = Confirmed
    BY <1>10 DEF FlushAnswered
  <2>2. spent'.texts = spent.texts
    BY <1>1, <1>10, FaultySpent DEF FlushAnswered, Sent
  <2>3. lane' \in LaneSet /\ lane'.sent <= spent.texts /\ Len(lane'.cum) <= spent.texts
    BY <1>1, <2>1, StoppedLane, ConfirmedIs DEF FlightInv
  <2>. QED BY <1>1, <2>1, <2>2, <2>3, NoFlightTyped DEF FlightInv
<1>11. CASE ToolPosted
  <2>1. \/ UNCHANGED <<lane, flight>>
        \/ lane' = Fresh /\ flight' = [flight EXCEPT !.mine = FALSE] /\ ref' = 0
    BY <1>11, Zenon DEF ToolPosted, Claimed
  <2>2. raced' = raced /\ phase' = phase
    BY <1>11 DEF ToolPosted, ours
  <2>3. spent'.texts = spent.texts
    <3>1. \E fate \in {"done", "lost", "unheard"} : Faulty(fate)
      BY <1>11, Zenon DEF ToolPosted
    <3>. QED BY <1>1, <3>1, FaultySpent
  <2>. QED BY <1>1, <1>2, <1>3, <2>1, <2>2, <2>3, FreshLane, FlightKept
<1>12. CASE Crash
  <2>1. lane' = Fresh /\ flight' = NoFlight
    BY <1>12, Zenon DEF Crash
  <2>2. raced' = raced
    BY <1>12, Zenon DEF Crash
  <2>3. spent' = [spent EXCEPT !.upsets = @ + 1]
    BY <1>12, Zenon DEF Crash, Upset
  <2>4. spent'.texts = spent.texts
    BY <1>1, <2>3 DEF OursInv
  <2>. QED BY <1>1, <1>2, <2>1, <2>2, <2>4, FreshLane, NoFlightTyped DEF FlightInv
<1>13. CASE DraftFinished \/ DraftEnded \/ DraftDropped
  <2>1. UNCHANGED <<lane, flight, raced, phase>>
    BY <1>13 DEF DraftFinished, DraftEnded, DraftDropped, ours, stream
  <2>2. \E fate \in Fates : Faulty(fate)
    <3>1. CASE DraftFinished
      BY <3>1, Zenon DEF DraftFinished, Sent
    <3>2. CASE DraftEnded
      BY <3>2, Zenon DEF DraftEnded, Sent
    <3>3. CASE DraftDropped
      BY <3>3, Zenon DEF DraftDropped, Sent
    <3>. QED BY <1>13, <3>1, <3>2, <3>3
  <2>. QED BY <1>1, <1>3, <2>1, <2>2, FaultySpent
<1>14. CASE ReplyPosted \/ DraftOpened
  <2>1. UNCHANGED <<lane, flight, raced, phase>>
    BY <1>14 DEF ReplyPosted, DraftOpened, ours, stream
  <2>2. \E fate \in {"done", "lost", "unheard"} : Faulty(fate)
    <3>1. CASE ReplyPosted
      BY <3>1, Zenon DEF ReplyPosted
    <3>2. CASE DraftOpened
      BY <3>2, Zenon DEF DraftOpened
    <3>. QED BY <1>14, <3>1, <3>2
  <2>. QED BY <1>1, <1>3, <2>1, <2>2, FaultySpent
<1>15. CASE \/ StopAsked \/ ReplyMade \/ SendRetried \/ ToolStarts \/ DraftHanded \/ QuestionOver
  <2>1. UNCHANGED <<lane, flight, raced, phase, spent>>
    BY <1>15 DEF StopAsked, ReplyMade, SendRetried, ToolStarts, DraftHanded, QuestionOver,
       ours, stream
  <2>. QED BY <1>3, <2>1
<1>16. CASE UNCHANGED vars
  <2>1. UNCHANGED <<lane, flight, raced, phase, spent>>
    BY <1>16 DEF vars, ours, stream
  <2>. QED BY <1>3, <2>1
<1>17. CASE Server
  <2>1. /\ UNCHANGED <<lane, flight, raced, phase>>
        /\ spent' = spent \/ spent' = [spent EXCEPT !.upsets = @ + 1]
    BY <1>17, ServerOnly
  <2>2. spent'.texts = spent.texts
    BY <1>1, <2>1 DEF OursInv
  <2>. QED BY <1>3, <2>1, <2>2
<1>. QED
  BY <1>4, <1>5, <1>6, <1>7, <1>8, <1>9, <1>10, <1>11, <1>12, <1>13, <1>14, <1>15, <1>16, <1>17
  DEF Next, Turns, Stream, Sends, Tools

-----------------------------------------------------------------------------
(* The order of the text *)

\* A stretch of a text is the same in the text that grew from it.
LEMMA StretchStays ==
  ASSUME NEW s \in Said, NEW e \in Speech, NEW m \in Nat \ {0}, NEW n \in Nat, n <= Len(s)
  PROVE  SubSeq(Append(s, e), m, n) = SubSeq(s, m, n)
<1> DEFINE t == Append(s, e)
<1>1. s \in Seq(Speech) /\ Len(s) \in Nat
  BY LenProperties DEF Said
<1>2. t \in Seq(Speech) /\ \A i \in 1 .. Len(s) : t[i] = s[i]
  BY <1>1, AppendProperties
<1> HIDE DEF t
<1>3. \A i \in m .. n : s[i] \in Speech /\ t[i] = s[i] /\ t[i] \in Speech
  <2> TAKE i \in m .. n
  <2>1. i \in 1 .. Len(s)
    BY <1>1
  <2>. QED BY <1>1, <1>2, <2>1, ElementOfSeq
<1>4. /\ SubSeq(s, m, n) \in Seq(Speech)
      /\ Len(SubSeq(s, m, n)) = IF m <= n THEN n - m + 1 ELSE 0
      /\ \A i \in 1 .. n - m + 1 : SubSeq(s, m, n)[i] = s[m + i - 1]
  BY <1>3, SubSeqProperties
<1>5. /\ SubSeq(t, m, n) \in Seq(Speech)
      /\ Len(SubSeq(t, m, n)) = IF m <= n THEN n - m + 1 ELSE 0
      /\ \A i \in 1 .. n - m + 1 : SubSeq(t, m, n)[i] = t[m + i - 1]
  BY <1>3, SubSeqProperties
<1>6. \A i \in 1 .. n - m + 1 : m + i - 1 \in m .. n
  OBVIOUS
<1>7. \A i \in 1 .. Len(SubSeq(s, m, n)) : SubSeq(t, m, n)[i] = SubSeq(s, m, n)[i]
  BY <1>3, <1>4, <1>5, <1>6
<1>. QED BY <1>4, <1>5, <1>7, SeqEqual DEF t

LEMMA SentLater ==
  ASSUME FlightInv, lane' \in LaneSet, lane'.sent = lane.sent, flight' = flight
  PROVE  Confirmed'.sent = Confirmed.sent
<1>1. Confirmed' = [lane' EXCEPT !.sent = IF flight.patch.do = "replace"
                     THEN Len(flight.patch.body) ELSE lane'.sent + Len(flight.patch.body)]
  BY DEF Confirmed
<1>. QED BY <1>1, ConfirmedIs DEF LaneSet

LEMMA OrderFrame ==
  ASSUME OrderInv, UNCHANGED <<lane, flight, raced>>
  PROVE  OrderInv'
BY DEF OrderInv, Replacing, Confirmed

LEMMA OrderOff ==
  ASSUME ~flight'.mine, lane'.stopped \/ lane' = Fresh
  PROVE  OrderInv'
BY FreshLane DEF OrderInv

LEMMA OrderSays ==
  ASSUME OursInv, FlightInv, OrderInv, Says
  PROVE  OrderInv'
<1>1. flight' = flight /\ raced' = raced
  BY DEF Says
<1>2. /\ lane' \in LaneSet
      /\ lane'.sent = lane.sent /\ lane'.rewrite = lane.rewrite /\ lane'.stopped = lane.stopped
      /\ lane'.cum = lane.cum \/ \E e \in Speech : lane'.cum = Append(lane.cum, e)
  BY SaysLane
<1>3. Confirmed'.sent = Confirmed.sent /\ Replacing' = Replacing
  BY <1>1, <1>2, SentLater DEF Replacing
<1>4. CASE lane'.cum = lane.cum
  BY <1>1, <1>2, <1>3, <1>4 DEF OrderInv
<1>5. ASSUME NEW e \in Speech, lane'.cum = Append(lane.cum, e) PROVE OrderInv'
  <2>1. Len(lane'.cum) = Len(lane.cum) + 1 /\ Len(lane.cum) \in Nat
    BY <1>5, LaneTyped, AppendProperties DEF Said
  <2>2. lane.sent \in Nat /\ Confirmed.sent \in Nat /\ lane.cum \in Said
    BY LaneTyped, ConfirmedIs
  <2>3. \A m \in Nat \ {0}, n \in Nat : n <= Len(lane.cum) =>
          SubSeq(lane'.cum, m, n) = SubSeq(lane.cum, m, n)
    BY <1>5, <2>2, StretchStays
  <2>4. (IF Replacing THEN 1 ELSE lane.sent + 1) \in Nat \ {0}
    BY <2>2
  <2>5. Confirmed.sent <= Len(lane.cum) =>
          SubSeq(lane'.cum, IF Replacing THEN 1 ELSE lane.sent + 1, Confirmed.sent)
            = SubSeq(lane.cum, IF Replacing THEN 1 ELSE lane.sent + 1, Confirmed.sent)
    BY <2>2, <2>3, <2>4
  <2>6. Confirmed.sent <= Len(lane.cum) => Confirmed.sent <= Len(lane'.cum)
    BY <2>1, <2>2
  <2>7. lane.sent <= Len(lane.cum) => lane.sent <= Len(lane'.cum)
    BY <2>1, <2>2
  <2>. QED BY <1>1, <1>2, <1>3, <2>5, <2>6, <2>7 DEF OrderInv
<1>. QED BY <1>2, <1>4, <1>5

LEMMA OrderFlush ==
  ASSUME ChatInv, OursInv, FlightInv, OrderInv, FlushStarts
  PROVE  OrderInv'
<1>1. raced' = raced
  BY DEF FlushStarts
<1>2. CASE ref = 0
  <2>1. lane' = [lane EXCEPT !.stopped = TRUE] /\ flight' = flight /\ ~flight.on
    BY <1>2 DEF FlushStarts
  <2>2. lane'.stopped /\ ~flight'.mine
    BY <2>1, StoppedLane DEF FlightInv
  <2>. QED BY <2>2, OrderOff
<1>3. CASE ref # 0
  <2>1. /\ ~flight.on /\ ~lane.stopped /\ flight'.mine
        /\ flight'.patch.do = IF lane.rewrite THEN "replace" ELSE "append"
        /\ flight'.patch.body = IF lane.rewrite THEN lane.cum ELSE Unsent
        /\ lane'.sent = lane.sent /\ lane'.cum = lane.cum /\ ~lane'.rewrite
        /\ Confirmed'.sent = IF lane.rewrite THEN Len(lane.cum) ELSE lane.sent + Len(Unsent)
    BY <1>3, FlushTakes
  <2>2. lane.cum \in Seq(Speech) /\ Len(lane.cum) \in Nat /\ lane.sent \in Nat /\ ~Replacing
    BY <2>1, LaneTyped DEF Said, Replacing, FlightInv
  <2>3. CASE lane.rewrite
    <3>1. Replacing' /\ flight'.patch.body = lane'.cum /\ Confirmed'.sent = Len(lane'.cum)
      BY <2>1, <2>3 DEF Replacing
    <3>2. flight'.patch.body = SubSeq(lane'.cum, 1, Confirmed'.sent)
      BY <2>1, <2>2, <3>1, SubSeqFull
    <3>3. Confirmed'.sent <= Len(lane'.cum)
      BY <2>1, <2>2, <3>1
    <3>. QED BY <2>1, <3>1, <3>2, <3>3 DEF OrderInv
  <2>4. CASE ~lane.rewrite /\ ~raced
    <3>1. lane.sent <= Len(lane.cum)
      BY <2>1, <2>2, <2>4 DEF OrderInv
    <3>2. ~Replacing' /\ Confirmed'.sent = Len(lane.cum)
      BY <2>1, <2>2, <2>4, <3>1, UnsentIs DEF Replacing
    <3>3. flight'.patch.body = SubSeq(lane'.cum, lane'.sent + 1, Confirmed'.sent)
      BY <2>1, <2>4, <3>2 DEF Unsent
    <3>4. Confirmed'.sent <= Len(lane'.cum) /\ lane'.sent <= Len(lane'.cum)
      BY <2>1, <2>2, <3>1, <3>2
    <3>. QED BY <2>1, <3>2, <3>3, <3>4 DEF OrderInv
  <2>5. CASE raced
    BY <1>1, <2>5 DEF OrderInv
  <2>. QED BY <2>3, <2>4, <2>5
<1>. QED BY <1>2, <1>3

LEMMA OrderNext == IInv /\ [Next]_vars => OrderInv'
<1> SUFFICES ASSUME IInv, [Next]_vars PROVE OrderInv'
  OBVIOUS
<1>1. ChatInv /\ OursInv /\ FlightInv /\ OrderInv
  BY DEF IInv
<1>2. CASE UNCHANGED <<lane, flight, raced>>
  BY <1>1, <1>2, OrderFrame
<1>3. CASE TurnOpens \/ TurnOpensBare
  <2>1. lane' = Fresh /\ flight' = flight /\ phase = "opening"
    BY <1>3 DEF TurnOpens, TurnOpensBare
  <2>2. ~flight'.mine
    BY <1>1, <2>1 DEF FlightInv
  <2>. QED BY <2>1, <2>2, OrderOff
<1>4. CASE TurnEnds
  <2>1. lane' = [lane EXCEPT !.stopped = TRUE] /\ flight' = [flight EXCEPT !.mine = FALSE]
    BY <1>4 DEF TurnEnds
  <2>2. lane'.stopped /\ ~flight'.mine
    BY <1>1, <2>1, StoppedLane, NotMine
  <2>. QED BY <2>2, OrderOff
<1>5. CASE Says
  BY <1>1, <1>5, OrderSays
<1>6. CASE Rewrites
  <2>1. flight' = flight /\ (~raced' => ~flight.mine)
    BY <1>1, <1>6 DEF Rewrites, FlightInv
  <2>2. /\ lane'.sent = lane.sent /\ lane.sent \in Nat /\ Len(lane'.cum) = 1
        /\ lane'.rewrite <=> lane.rewrite \/ lane.sent > 0
    BY <1>1, <1>6, RewritesLane, LaneTyped
  <2>3. lane'.rewrite \/ lane'.sent <= Len(lane'.cum)
    BY <2>2
  <2>. QED BY <2>1, <2>3 DEF OrderInv
<1>7. CASE FlushStarts
  BY <1>1, <1>7, OrderFlush
<1>8. CASE FlushAnswered
  <2>1. /\ ~flight'.mine /\ raced' = raced
        /\ \/ ~flight.mine /\ lane' = lane
           \/ lane' = [lane EXCEPT !.stopped = TRUE]
           \/ flight.mine /\ lane' = Confirmed
    BY <1>8, NoFlightTyped DEF FlushAnswered
  <2>2. CASE ~flight.mine /\ lane' = lane
    BY <1>1, <2>1, <2>2 DEF OrderInv, Replacing
  <2>3. CASE lane' = [lane EXCEPT !.stopped = TRUE]
    BY <1>1, <2>1, <2>3, StoppedLane, OrderOff
  <2>4. CASE flight.mine /\ lane' = Confirmed
    <3>1. ~raced => lane'.sent <= Len(lane'.cum)
      BY <1>1, <2>4, ConfirmedIs DEF OrderInv
    <3>. QED BY <2>1, <3>1 DEF OrderInv
  <2>. QED BY <2>1, <2>2, <2>3, <2>4
<1>9. CASE ToolPosted
  <2>1. \/ UNCHANGED <<lane, flight>>
        \/ lane' = Fresh /\ flight' = [flight EXCEPT !.mine = FALSE]
    BY <1>9, Zenon DEF ToolPosted
  <2>2. raced' = raced
    BY <1>9 DEF ToolPosted
  <2>. QED BY <1>1, <1>2, <2>1, <2>2, NotMine, OrderOff
<1>10. CASE Crash
  <2>1. lane' = Fresh
    BY <1>10, Zenon DEF Crash
  <2>2. flight' = NoFlight
    BY <1>10, Zenon DEF Crash
  <2>. QED BY <2>1, <2>2, NoFlightTyped, OrderOff
<1>11. CASE TurnStarts \/ StopAsked \/ TurnSettles \/ Sends
  BY <1>2, <1>11 DEF TurnStarts, StopAsked, TurnSettles, Sends, ReplyMade, SendRetried, DraftFinished,
     ReplyPosted, stream
<1>12. CASE \/ ToolStarts \/ DraftHanded \/ DraftEnded \/ QuestionOver \/ DraftOpened
            \/ DraftDropped \/ Server \/ UNCHANGED vars
  BY <1>2, <1>12, ServerOnly DEF ToolStarts, DraftHanded, DraftEnded, QuestionOver, DraftOpened,
     DraftDropped, vars, stream
<1>. QED
  BY <1>3, <1>4, <1>5, <1>6, <1>7, <1>8, <1>9, <1>10, <1>11, <1>12 DEF Next, Turns, Stream, Tools

-----------------------------------------------------------------------------
(* What the draft shows *)

LEMMA RefIsPost == ChatInv /\ OursInv /\ ref # 0 => ref \in DOMAIN posts
BY LenProperties DEF ChatInv, OursInv

LEMMA ShownFrame ==
  ASSUME ChatInv, OursInv, ShownInv, ChatStep, UNCHANGED <<ref, lane, flight, raced>>,
         \A p \in DOMAIN posts : p = ref /\ p \notin hurt' /\ Streaming(p)' => posts'[p] = posts[p]
  PROVE  ShownInv'
<1> SUFFICES ASSUME ref' # 0, ref' \notin hurt', ~raced', Streaming(ref)'
             PROVE  /\ \/ lane'.rewrite \/ Replacing' \/ posts'[ref'].body = <<>>
                       \/ Stretch(posts[ref].body)'
                    /\ flight'.mine /\ flight'.patch.post # ref' => posts'[ref'].body = <<>>
  BY DEF ShownInv
<1>1. PICK p \in DOMAIN posts : p = ref
  BY RefIsPost
<1>2. p \notin hurt' /\ Streaming(p)'
  BY <1>1 DEF Streaming
<1>3. p \notin hurt /\ Streaming(p) /\ posts'[p] = posts[p]
  BY <1>1, <1>2 DEF ChatStep
<1>4. /\ \/ lane.rewrite \/ Replacing \/ posts[ref].body = <<>> \/ Stretch(posts[ref].body)
      /\ flight.mine /\ flight.patch.post # ref => posts[ref].body = <<>>
  BY <1>1, <1>3 DEF ShownInv, Streaming
<1>5. Replacing' = Replacing /\ posts'[ref'] = posts[ref]
  BY <1>1, <1>3 DEF Replacing
<1>. QED BY <1>4, <1>5 DEF Stretch

LEMMA ShownNone == ref' = 0 => ShownInv'
BY DEF ShownInv

LEMMA ShownNew == posts'[ref'].body = <<>> => ShownInv'
BY DEF ShownInv

LEMMA ShownSays ==
  ASSUME ChatInv, OursInv, FlightInv, ShownInv, Says
  PROVE  ShownInv'
<1>1. UNCHANGED <<posts, hurt, ref, flight, raced>>
  BY DEF Says, chat, draft
<1>2. /\ lane'.sent = lane.sent /\ lane'.rewrite = lane.rewrite
      /\ lane'.cum = lane.cum \/ \E e \in Speech : lane'.cum = Append(lane.cum, e)
  BY SaysLane
<1>3. Replacing' = Replacing /\ Streaming(ref)' = Streaming(ref)
  BY <1>1 DEF Replacing, Streaming
<1>4. Stretch(posts[ref].body) => Stretch(posts[ref].body)'
  <2>1. CASE lane'.cum = lane.cum
    BY <1>1, <1>2, <2>1 DEF Stretch
  <2>2. ASSUME NEW e \in Speech, lane'.cum = Append(lane.cum, e), Stretch(posts[ref].body)
        PROVE  Stretch(posts[ref].body)'
    <3>1. lane.sent <= Len(lane.cum) /\ lane.sent \in Nat /\ lane.cum \in Said /\ Len(lane.cum) \in Nat
      BY <2>2, LaneTyped DEF Stretch
    <3>2. PICK i \in 0 .. lane.sent : posts[ref].body = SubSeq(lane.cum, i + 1, lane.sent)
      BY <2>2 DEF Stretch
    <3>3. SubSeq(Append(lane.cum, e), i + 1, lane.sent) = SubSeq(lane.cum, i + 1, lane.sent)
      BY <3>1, StretchStays
    <3>4. Len(lane'.cum) = Len(lane.cum) + 1
      BY <2>2, <3>1, AppendProperties DEF Said
    <3>5. lane'.sent <= Len(lane'.cum)
      BY <1>2, <3>1, <3>4
    <3>6. posts'[ref'].body = SubSeq(lane'.cum, i + 1, lane'.sent) /\ i \in 0 .. lane'.sent
      BY <1>1, <1>2, <2>2, <3>2, <3>3
    <3>. QED BY <3>5, <3>6 DEF Stretch
  <2>. QED BY <1>2, <2>1, <2>2
<1>. QED BY <1>1, <1>2, <1>3, <1>4 DEF ShownInv

LEMMA ShownRewrites ==
  ASSUME ChatInv, OursInv, FlightInv, ShownInv, Rewrites
  PROVE  ShownInv'
<1>1. UNCHANGED <<posts, hurt, ref, flight>> /\ (~raced' => ~raced /\ ~flight.mine)
  BY DEF Rewrites, chat, draft, FlightInv
<1>2. /\ lane'.sent = lane.sent /\ lane.sent \in Nat /\ Len(lane'.cum) = 1 /\ lane' \in LaneSet
      /\ lane'.rewrite <=> lane.rewrite \/ lane.sent > 0
  BY RewritesLane, LaneTyped
<1>3. lane'.rewrite \/ lane.sent = 0
  BY <1>2
<1>4. lane.sent = 0 /\ Stretch(posts[ref].body) => posts[ref].body = <<>>
  <2>1. SUFFICES ASSUME lane.sent = 0, Stretch(posts[ref].body) PROVE posts[ref].body = <<>>
    OBVIOUS
  <2>2. PICK i \in 0 .. 0 : posts[ref].body = SubSeq(lane.cum, i + 1, 0)
    BY <2>1 DEF Stretch
  <2>. QED BY <2>2, SubSeqEmpty
<1>5. Streaming(ref)' = Streaming(ref)
  BY <1>1 DEF Streaming
<1>. QED BY <1>1, <1>2, <1>3, <1>4, <1>5 DEF ShownInv, Replacing

LEMMA ShownFlush ==
  ASSUME ChatInv, OursInv, FlightInv, ShownInv, FlushStarts
  PROVE  ShownInv'
<1>1. UNCHANGED <<posts, hurt, ref, raced>>
  BY DEF FlushStarts, chat, draft
<1>2. CASE ref = 0
  BY <1>1, <1>2, ShownNone
<1>3. CASE ref # 0
  <2>1. /\ ~flight.on /\ flight'.mine /\ flight'.patch.post = ref
        /\ flight'.patch.do = IF lane.rewrite THEN "replace" ELSE "append"
        /\ lane'.sent = lane.sent /\ lane'.cum = lane.cum
    BY <1>3, FlushTakes
  <2>2. ~Replacing /\ (lane.rewrite => Replacing')
    BY <2>1 DEF Replacing, FlightInv
  <2>3. Streaming(ref)' = Streaming(ref)
    BY <1>1 DEF Streaming
  <2>4. Stretch(posts[ref].body) => Stretch(posts[ref].body)'
    BY <1>1, <2>1 DEF Stretch
  <2>. QED BY <1>1, <2>1, <2>2, <2>3, <2>4 DEF ShownInv
<1>. QED BY <1>2, <1>3

\* A stretch goes on with the next one.
LEMMA NextStretch ==
  ASSUME NEW s \in Seq(Speech), NEW k \in Nat, NEW m \in Nat, k <= m, m <= Len(s), NEW i \in 0 .. k
  PROVE  SubSeq(s, i + 1, k) \o SubSeq(s, k + 1, m) = SubSeq(s, i + 1, m)
<1>1. Len(s) \in Nat
  BY LenProperties
<1>2. i + 1 \in 1 .. Len(s) + 1
  BY <1>1
<1>3. (i + 1) - 1 = i /\ k \in i .. Len(s) /\ m \in k .. Len(s)
  BY <1>1
<1>4. k \in (i + 1) - 1 .. Len(s)
  BY <1>3
<1>. QED BY <1>2, <1>3, <1>4, ConcatAdjacentSubSeq

\* The PATCH that was heard carried the draft on to what is confirmed now.
LEMMA ShownCarried ==
  ASSUME ChatInv, OursInv, FlightInv, OrderInv, ShownInv, ref # 0, flight.mine, ~raced, ref \notin hurt,
         flight.patch.post = ref, Takes(flight.patch), posts' = Patched(flight.patch), ref' = ref,
         Streaming(ref), Was(flight.patch) = posts[ref],
         lane' = Confirmed, raced' = raced
  PROVE  lane'.sent <= Len(lane'.cum) /\ \E i \in 0 .. lane'.sent :
           posts'[ref].body = SubSeq(lane'.cum, i + 1, lane'.sent)
<1> DEFINE b == posts[ref].body
           m == Confirmed.sent
           s == flight.patch.body
<1>1. ref \in DOMAIN posts /\ posts \in Seq(PostSet) /\ Streaming(ref)
  BY RefIsPost DEF ChatInv
<1>2. /\ flight.on /\ Meant(flight.patch) /\ flight.patch.do \in {"append", "replace"}
      /\ flight.patch \in PatchSet
  BY DEF FlightInv
<1>3. PICK q \in PostSet :
        /\ Patched(flight.patch) = [posts EXCEPT ![flight.patch.post] = q]
        /\ flight.patch.do = "append" => q.body = posts[flight.patch.post].body \o flight.patch.body
        /\ flight.patch.do = "replace" => q.body = flight.patch.body
  <2>1. ~Deletes(flight.patch)
    BY <1>2 DEF Deletes
  <2>2. Body(flight.patch) = Message(flight.patch)
    BY <1>2, <2>1, BodyIs
  <2>3. PICK q \in PostSet :
          Patched(flight.patch) = [posts EXCEPT ![flight.patch.post] = q] /\ q.body = Body(flight.patch)
    BY <1>2, <2>1, PatchTaken
  <2>. QED BY <2>2, <2>3 DEF Message
<1>4. posts'[ref] = q
  BY <1>1, <1>3, SeqExcept
<1>5. /\ lane.cum \in Seq(Speech) /\ lane.sent \in Nat /\ Len(lane.cum) \in Nat
      /\ m \in Nat /\ Len(s) \in Nat
  BY LaneTyped, ConfirmedIs DEF Said
<1>6. /\ ~lane.rewrite /\ m <= Len(lane.cum)
      /\ s = SubSeq(lane.cum, IF Replacing THEN 1 ELSE lane.sent + 1, m)
  BY DEF OrderInv
<1>7. lane'.sent = m /\ lane'.cum = lane.cum
  BY ConfirmedIs
<1>8. CASE flight.patch.do = "replace"
  <2>1. s = SubSeq(lane.cum, 0 + 1, m)
    <3>1. Replacing /\ 0 + 1 = 1
      BY <1>8 DEF Replacing
    <3>. QED BY <1>6, <3>1
  <2>2. posts'[ref].body = SubSeq(lane'.cum, 0 + 1, lane'.sent)
    BY <1>3, <1>4, <1>7, <1>8, <2>1
  <2>3. 0 \in 0 .. lane'.sent
    BY <1>5, <1>7
  <2>. QED BY <1>6, <1>7, <2>2, <2>3
<1>9. CASE flight.patch.do = "append"
  <2>1. ~Replacing
    BY <1>9 DEF Replacing
  <2>2. s = SubSeq(lane.cum, lane.sent + 1, m) /\ s \in Seq(Speech)
    <3>1. s \in Said
      BY <1>2, <1>9 DEF Meant, Tells
    <3>. QED BY <1>6, <2>1, <3>1 DEF Said
  <2>3. m = lane.sent + Len(s) /\ lane.sent <= m
    BY <1>5, <1>9, ConfirmedIs
  <2>4. posts'[ref].body = b \o s
    BY <1>3, <1>4, <1>9
  <2>5. b = <<>> \/ Stretch(b)
    BY <1>1, <1>6, <2>1 DEF ShownInv
  <2>6. CASE b = <<>>
    <3>1. posts'[ref].body = SubSeq(lane'.cum, lane.sent + 1, lane'.sent)
      BY <1>7, <2>2, <2>4, <2>6, ConcatEmptySeq
    <3>2. lane.sent \in 0 .. lane'.sent
      BY <1>5, <1>7, <2>3
    <3>. QED BY <1>6, <1>7, <3>1, <3>2
  <2>7. CASE Stretch(b)
    <3>1. PICK i \in 0 .. lane.sent : b = SubSeq(lane.cum, i + 1, lane.sent)
      BY <2>7 DEF Stretch
    <3>2. /\ lane.cum \in Seq(Speech) /\ lane.sent \in Nat /\ m \in Nat
          /\ lane.sent <= m /\ m <= Len(lane.cum)
      BY <1>5, <1>6, <2>3
    <3>3. SubSeq(lane.cum, i + 1, lane.sent) \o SubSeq(lane.cum, lane.sent + 1, m)
            = SubSeq(lane.cum, i + 1, m)
      BY ONLY <3>2, i \in 0 .. lane.sent, NextStretch
    <3>4. i \in 0 .. lane'.sent
      BY <1>5, <1>7, <2>3
    <3>5. posts'[ref].body = SubSeq(lane'.cum, i + 1, lane'.sent)
      BY <1>7, <2>2, <2>4, <3>1, <3>3
    <3>. QED BY <1>6, <1>7, <3>4, <3>5
  <2>. QED BY <2>5, <2>6, <2>7
<1>. QED BY <1>2, <1>8, <1>9

LEMMA ShownAnswered ==
  ASSUME ChatInv, OursInv, FlightInv, OrderInv, ShownInv, SlowInv, FlushAnswered
  PROVE  ShownInv'
<1>1. PICK fate \in Fates :
        /\ Sent(flight.patch, fate)
        /\ lane' = IF ~flight.mine THEN lane
                   ELSE IF Heard(flight.patch, fate) THEN Confirmed
                   ELSE [lane EXCEPT !.stopped = TRUE]
  BY DEF FlushAnswered
<1>2. flight.on /\ flight' = NoFlight /\ ref' = ref /\ raced' = raced
  BY DEF FlushAnswered, draft
<1>3. Meant(flight.patch) /\ ~flight'.mine
  BY <1>2, NoFlightTyped DEF FlightInv
<1>4. /\ ChatStep /\ \A p \in DOMAIN posts : p # flight.patch.post => posts'[p] = posts[p]
      /\ flight.patch.post \notin hurt' => Heard(flight.patch, fate) /\ posts' = Patched(flight.patch)
  BY <1>1, <1>3, SentFacts
<1> SUFFICES ASSUME ref # 0, ref \notin hurt', ~raced, posts'[ref].status = "streaming"
             PROVE  \/ lane'.rewrite \/ posts'[ref].body = <<>>
                    \/ lane'.sent <= Len(lane'.cum) /\ \E i \in 0 .. lane'.sent :
                         posts'[ref].body = SubSeq(lane'.cum, i + 1, lane'.sent)
  BY <1>2, <1>3 DEF ShownInv, Streaming, Stretch
<1>5. PICK p \in DOMAIN posts : p = ref
  BY RefIsPost
<1>6. ref \notin hurt /\ Streaming(ref)
  <2>1. Streaming(p)'
    BY <1>5 DEF Streaming
  <2>. QED BY <1>4, <1>5, <2>1 DEF ChatStep
<1>7. /\ lane.rewrite \/ Replacing \/ posts[ref].body = <<>> \/ Stretch(posts[ref].body)
      /\ flight.mine /\ flight.patch.post # ref => posts[ref].body = <<>>
  BY <1>6 DEF ShownInv
<1>8. CASE ~flight.mine
  <2>1. lane' = lane /\ flight.patch.post # ref /\ ~Replacing
    BY <1>1, <1>2, <1>8 DEF FlightInv, Replacing
  <2>2. posts'[ref] = posts[ref]
    BY <1>4, <1>5, <2>1
  <2>. QED BY <1>7, <2>1, <2>2 DEF Stretch
<1>9. CASE flight.mine /\ flight.patch.post # ref
  <2>1. posts'[ref] = posts[ref]
    BY <1>4, <1>5, <1>9
  <2>. QED BY <1>7, <1>9, <2>1
<1>10. CASE flight.mine /\ flight.patch.post = ref
  <2>1. Heard(flight.patch, fate) /\ posts' = Patched(flight.patch)
    BY <1>4, <1>10
  <2>2. lane' = Confirmed /\ Takes(flight.patch)
    BY <1>1, <1>10, <2>1 DEF Heard
  <2>3. flight.patch.do \in {"append", "replace"}
    BY <1>2 DEF FlightInv
  <2>4. Was(flight.patch) = posts[ref]
    BY <1>6, <1>10, <2>3 DEF SlowInv, Was
  <2>. QED BY <1>2, <1>6, <1>10, <2>1, <2>2, <2>4, ShownCarried
<1>. QED BY <1>8, <1>9, <1>10

LEMMA ShownNext == IInv /\ [Next]_vars => ShownInv'
<1> SUFFICES ASSUME IInv, [Next]_vars PROVE ShownInv'
  OBVIOUS
<1>1. /\ ChatInv /\ OursInv /\ SendsInv /\ ToolsInv /\ FlightInv /\ OrderInv /\ ShownInv /\ SlowInv
      /\ ChatStep
  BY ChatNext DEF IInv
<1>2. ref \in Nat /\ (phase # "running" => ref = 0)
  BY <1>1, LenProperties DEF OursInv, ChatInv
<1>3. CASE \/ TurnStarts \/ StopAsked \/ ToolStarts \/ DraftHanded \/ QuestionOver \/ UNCHANGED vars
  <2>1. UNCHANGED <<posts, ref, lane, flight, raced>>
    BY <1>3 DEF TurnStarts, StopAsked, ToolStarts, DraftHanded, QuestionOver, vars, chat, draft, stream
  <2>. QED BY <1>1, <2>1, ShownFrame
<1>4. CASE TurnOpens
  <2>1. PICK fate \in {"done", "lost", "unheard"} :
          /\ posts' = IF fate = "lost" THEN posts ELSE Append(posts, Post("streaming", <<>>, 0))
          /\ ref' = IF fate = "done" THEN Len(posts') ELSE 0
          /\ hurt' = IF fate = "unheard" THEN hurt \cup {Len(posts')} ELSE hurt
    BY <1>4 DEF TurnOpens
  <2>2. late' = late /\ UNCHANGED server
    BY <1>4 DEF TurnOpens
  <2>3. CASE fate = "done"
    <3>1. posts'[Len(posts')].body = <<>>
      BY <1>1, <2>1, <2>2, <2>3, DraftFacts
    <3>. QED BY <2>1, <2>3, <3>1, ShownNew
  <2>4. CASE fate # "done"
    BY <2>1, <2>4, ShownNone
  <2>. QED BY <2>3, <2>4
<1>5. CASE TurnOpensBare \/ TurnEnds \/ TurnSettles \/ ReplyMade \/ SendRetried
  <2>1. ref' = 0
    BY <1>2, <1>5 DEF TurnOpensBare, TurnEnds, TurnSettles, ReplyMade, SendRetried, Claimed, draft
  <2>. QED BY <2>1, ShownNone
<1>6. CASE Says
  BY <1>1, <1>6, ShownSays
<1>7. CASE Rewrites
  BY <1>1, <1>7, ShownRewrites
<1>8. CASE FlushStarts
  BY <1>1, <1>8, ShownFlush
<1>9. CASE FlushAnswered
  BY <1>1, <1>9, ShownAnswered
<1>10. CASE DraftFinished \/ DraftEnded \/ DraftDropped
  <2>1. UNCHANGED <<ref, lane, flight, raced>>
    BY <1>10 DEF DraftFinished, DraftEnded, DraftDropped, draft, stream
  <2>2. \E x : Meant(x) /\ x.post # ref /\ \E fate \in Fates : Sent(x, fate)
    <3>1. CASE DraftFinished
      <4>1. PICK r \in DOMAIN sends :
              sends[r].at = "patching" /\ \E fate \in Fates : Sent(SendPatch(r), fate)
        BY <3>1 DEF DraftFinished
      <4>2. sends[r].draft # ref
        BY <1>1, <4>1 DEF SendsInv
      <4>. QED BY <1>1, <4>1, <4>2, SendMeant
    <3>2. CASE DraftEnded
      <4>1. PICK i \in DOMAIN tools :
              tools[i].at = "ending" /\ \E fate \in Fates : Sent(EndPatch(i), fate)
        BY <3>2 DEF DraftEnded
      <4>2. tools[i].draft # ref
        BY <1>1, <4>1 DEF ToolsInv
      <4>. QED BY <1>1, <4>1, <4>2, EndMeant
    <3>3. CASE DraftDropped
      <4>1. PICK i \in DOMAIN tools :
              tools[i].at = "dropping" /\ \E fate \in Fates : Sent(Cancel(tools[i].draft), fate)
        BY <3>3 DEF DraftDropped
      <4>2. tools[i].draft # ref
        BY <1>1, <4>1 DEF ToolsInv
      <4>. QED BY <1>1, <4>1, <4>2, DropMeant
    <3>. QED BY <1>10, <3>1, <3>2, <3>3
  <2>3. \A p \in DOMAIN posts : p = ref => posts'[p] = posts[p]
    <3>1. PICK x : Meant(x) /\ x.post # ref /\ \E fate \in Fates : Sent(x, fate)
      BY <2>2
    <3>2. \A p \in DOMAIN posts : p # x.post => posts'[p] = posts[p]
      BY <1>1, <3>1, SentFacts
    <3>. QED BY <3>1, <3>2
  <2>. QED BY <1>1, <2>1, <2>3, ShownFrame
<1>11. CASE ReplyPosted
  <2>1. PICK r \in DOMAIN sends : posts' = posts \/ posts' = WithReply(r)
    BY <1>11, Zenon DEF ReplyPosted
  <2>2. UNCHANGED <<ref, lane, flight, raced>> /\ late' = late /\ UNCHANGED server /\ hurt' = hurt
    BY <1>11 DEF ReplyPosted, draft, stream
  <2>3. \A p \in DOMAIN posts : posts'[p] = posts[p]
    BY <1>1, <2>1, <2>2, PostedFacts
  <2>. QED BY <1>1, <2>2, <2>3, ShownFrame
<1>12. CASE ToolPosted
  <2>1. PICK i \in DOMAIN tools :
          /\ posts' = posts \/ posts' = Append(posts, Post("published", <<Block(i)>>, 0))
          /\ UNCHANGED <<draft, lane, flight>> \/ Claimed
    BY <1>12, Zenon DEF ToolPosted
  <2>2. late' = late /\ UNCHANGED server /\ hurt' = hurt /\ raced' = raced
    BY <1>12 DEF ToolPosted
  <2>3. i \in Nat
    BY <1>1, ToolTyped
  <2>4. \A p \in DOMAIN posts : posts'[p] = posts[p]
    BY <1>1, <2>1, <2>2, <2>3, BlockFacts
  <2>5. CASE UNCHANGED <<draft, lane, flight>>
    <3>1. UNCHANGED <<ref, lane, flight, raced>>
      BY <2>2, <2>5 DEF draft
    <3>. QED BY <1>1, <2>4, <3>1, ShownFrame
  <2>6. CASE Claimed
    BY <2>6, ShownNone DEF Claimed
  <2>. QED BY <2>1, <2>5, <2>6
<1>13. CASE DraftOpened
  <2>1. PICK i \in DOMAIN tools, fate \in {"done", "lost", "unheard"} :
          /\ posts' = IF fate = "lost" THEN posts ELSE Append(posts, Post("streaming", <<>>, 0))
          /\ hurt' = IF fate = "unheard" THEN hurt \cup {Len(posts')} ELSE hurt
          /\ IF fate = "done" /\ StillOpen(i)
             THEN ref' = Len(posts') /\ orphan' = Len(posts') ELSE UNCHANGED draft
    BY <1>13 DEF DraftOpened
  <2>2. late' = late /\ UNCHANGED server /\ UNCHANGED <<lane, flight, raced>>
    BY <1>13 DEF DraftOpened, stream
  <2>3. /\ \A p \in DOMAIN posts : posts'[p] = posts[p]
        /\ fate = "done" => posts'[Len(posts')].body = <<>>
    BY <1>1, <2>1, <2>2, DraftFacts
  <2>4. CASE fate = "done" /\ ref' = Len(posts')
    BY <2>3, <2>4, ShownNew
  <2>5. CASE UNCHANGED draft
    <3>1. UNCHANGED <<ref, lane, flight, raced>>
      BY <2>2, <2>5 DEF draft
    <3>. QED BY <1>1, <2>3, <3>1, ShownFrame
  <2>. QED BY <2>1, <2>4, <2>5
<1>14. CASE Server
  <2>1. UNCHANGED <<ref, lane, flight, raced>> /\ hurt' = hurt
    BY <1>14, ServerOnly
  <2>2. \A p \in DOMAIN posts : Streaming(p)' /\ p \notin hurt => posts'[p] = posts[p]
    BY <1>14, ServerFacts
  <2>. QED BY <1>1, <2>1, <2>2, ShownFrame
<1>15. CASE Crash
  <2>1. ref' = 0
    BY <1>15, Zenon DEF Crash
  <2>. QED BY <2>1, ShownNone
<1>. QED
  BY <1>3, <1>4, <1>5, <1>6, <1>7, <1>8, <1>9, <1>10, <1>11, <1>12, <1>13, <1>14, <1>15
  DEF Next, Turns, Stream, Sends, Tools

-----------------------------------------------------------------------------
(* What the server has read *)

\* Nothing is read anew, and the flush's post is left as it is, ended or hurt.
LEMMA SlowKept ==
  ASSUME SlowInv, ChatInv, ChatStep, ReadsLess, FlightInv,
         \A x \in DOMAIN reads' : flight.on /\ flight.patch = x =>
           \/ x.post \in hurt' \/ ~Streaming(x.post)'
           \/ flight'.on /\ flight'.patch = x /\ posts'[x.post] = posts[x.post]
  PROVE  SlowInv'
<1> SUFFICES ASSUME NEW x \in DOMAIN reads', x.do \in {"append", "replace"}
             PROVE  \/ x.post \in hurt' \/ ~Streaming(x.post)'
                    \/ flight'.on /\ x = flight'.patch /\ reads'[x] = posts'[x.post]
  BY DEF SlowInv
<1>1. x \in DOMAIN reads /\ reads'[x] = reads[x] /\ x.post \in DOMAIN posts
  BY DEF ReadsLess, ChatInv, Meant
<1>2. CASE x.post \in hurt \/ ~Streaming(x.post)
  BY <1>1, <1>2 DEF ChatStep
<1>3. CASE flight.on /\ x = flight.patch /\ reads[x] = posts[x.post]
  BY <1>1, <1>3
<1>. QED BY <1>1, <1>2, <1>3 DEF SlowInv

\* A PATCH that ends a draft meets its fate.
LEMMA SlowSent ==
  ASSUME SlowInv, ChatInv, FlightInv, NEW x, Meant(x), x.do \in {"done", "cancel"},
         NEW fate \in Fates, Sent(x, fate), flight' = flight
  PROVE  SlowInv'
<1>1. /\ ChatStep /\ ReadsLess
      /\ \A p \in DOMAIN posts : p # x.post => posts'[p] = posts[p]
      /\ Streaming(x.post)' => x.post \in hurt'
  BY SentFacts
<1>2. flight.on => flight.patch.post \in DOMAIN posts
  BY DEF FlightInv, Meant
<1>. QED BY <1>1, <1>2, SlowKept

\* The chat grows, or stays.
LEMMA SlowGrown ==
  ASSUME SlowInv, ChatInv, ChatStep, FlightInv, UNCHANGED server,
         flight'.on = flight.on, flight'.patch = flight.patch,
         \A p \in DOMAIN posts : posts'[p] = posts[p]
  PROVE  SlowInv'
<1>1. flight.on => flight.patch.post \in DOMAIN posts
  BY DEF FlightInv, Meant
<1>2. ReadsLess
  BY DEF ReadsLess, server
<1>. QED BY <1>1, <1>2, SlowKept

\* What the server reads a post for, once it streams.
LEMMA ReadOfFlight ==
  ASSUME ChatInv, OursInv, SendsInv, ToolsInv, NEW x \in InFlight \cup late, Streaming(x.post),
         x.do \in {"append", "replace"}
  PROVE  x.post \in hurt \/ (flight.on /\ x = flight.patch)
<1>1. CASE x \in late
  BY <1>1 DEF ChatInv
<1>2. CASE phase = "settling" /\ x = settle
  BY <1>2 DEF OursInv
<1>3. CASE \E r \in DOMAIN sends : sends[r].at = "patching" /\ x = SendPatch(r)
  BY <1>3, SendMeant
<1>4. CASE \E i \in DOMAIN tools : tools[i].at = "ending" /\ x = EndPatch(i)
  BY <1>4, EndMeant
<1>5. CASE \E i \in DOMAIN tools : tools[i].at = "dropping" /\ x = Cancel(tools[i].draft)
  BY <1>5, DropMeant
<1>. QED BY <1>1, <1>2, <1>3, <1>4, <1>5 DEF InFlight

LEMMA SlowServer == IInv /\ Server => SlowInv'
<1> SUFFICES ASSUME IInv, Server PROVE SlowInv'
  OBVIOUS
<1>1. /\ ChatInv /\ OursInv /\ SendsInv /\ ToolsInv /\ FlightInv /\ SlowInv /\ ChatStep
      /\ flight' = flight /\ hurt' = hurt
  BY ServerFacts, ServerOnly DEF IInv
<1>2. flight.on => flight.patch.post \in DOMAIN posts
  BY <1>1 DEF FlightInv, Meant
<1>3. CASE LateLands \/ Reaped \/ ReapedSlowly
  <2>1. ReadsLess /\ \A p \in DOMAIN posts : Streaming(p)' /\ p \notin hurt => posts'[p] = posts[p]
    BY <1>1, <1>3, WritesFacts
  <2>. QED BY <1>1, <1>2, <2>1, SlowKept
<1>4. ASSUME NEW x, Meant(x), ReadFor(x), UNCHANGED <<posts, late, hurt, crossed>>,
             x.do \in {"append", "replace"} => x.post \in hurt \/ (flight.on /\ x = flight.patch)
      PROVE  SlowInv'
  <2>1. \A y \in DOMAIN reads' :
          IF y = x THEN Streaming(x.post) /\ reads'[x] = posts[x.post]
          ELSE y \in DOMAIN reads /\ reads'[y] = reads[y]
    BY <1>1, <1>4, ReadFacts
  <2>2. \A p : Streaming(p)' = Streaming(p)
    BY <1>4 DEF Streaming
  <2>3. ASSUME NEW y \in DOMAIN reads', y.do \in {"append", "replace"}
        PROVE  \/ y.post \in hurt' \/ ~Streaming(y.post)'
               \/ flight'.on /\ y = flight'.patch /\ reads'[y] = posts'[y.post]
    <3>1. CASE y = x
      BY <1>1, <1>4, <2>1, <2>3, <3>1
    <3>2. CASE y # x
      BY <1>1, <1>4, <2>1, <2>2, <2>3, <3>2 DEF SlowInv
    <3>. QED BY <3>1, <3>2
  <2>. QED BY <2>3 DEF SlowInv
<1>5. CASE ReadForPatch
  <2>1. PICK x \in InFlight \cup late : ReadFor(x) /\ UNCHANGED <<posts, late, hurt, crossed>>
    BY <1>5 DEF ReadForPatch
  <2>2. Meant(x) /\ Streaming(x.post)
    BY <1>1, <2>1, InFlightMeant DEF ChatInv, ReadFor
  <2>. QED BY <1>1, <1>4, <2>1, <2>2, ReadOfFlight
<1>6. CASE ReadForReaper
  <2>1. PICK p \in DOMAIN posts : ReadFor(Reap(p)) /\ UNCHANGED <<posts, late, hurt, crossed>>
    BY <1>6 DEF ReadForReaper
  <2>2. Meant(Reap(p)) /\ Reap(p).do = "reap"
    BY <1>1, ReapMeant
  <2>. QED BY <1>4, <2>1, <2>2
<1>. QED BY <1>3, <1>5, <1>6 DEF Server

LEMMA SlowNext == IInv /\ [Next]_vars => SlowInv'
<1> SUFFICES ASSUME IInv, [Next]_vars PROVE SlowInv'
  OBVIOUS
<1>1. ChatInv /\ OursInv /\ SendsInv /\ ToolsInv /\ FlightInv /\ SlowInv /\ ChatStep
  BY ChatNext DEF IInv
<1>2. CASE UNCHANGED chat /\ flight'.on = flight.on /\ flight'.patch = flight.patch
  BY <1>1, <1>2, SlowGrown DEF chat
<1>3. CASE \/ TurnStarts \/ TurnOpensBare \/ StopAsked \/ Says \/ Rewrites
           \/ ReplyMade \/ SendRetried \/ ToolStarts \/ DraftHanded \/ QuestionOver \/ UNCHANGED vars
  <2>1. UNCHANGED chat /\ flight' = flight
    BY <1>3 DEF TurnStarts, TurnOpensBare, StopAsked, Says, Rewrites, ReplyMade, SendRetried,
       ToolStarts, DraftHanded, QuestionOver, vars, stream
  <2>. QED BY <1>2, <2>1
<1>4. CASE TurnEnds
  <2>1. UNCHANGED chat /\ flight' = [flight EXCEPT !.mine = FALSE]
    BY <1>4 DEF TurnEnds
  <2>. QED BY <1>1, <1>2, <2>1, NotMine
<1>5. CASE TurnOpens \/ DraftOpened
  <2>1. PICK fate \in {"done", "lost", "unheard"} :
          /\ posts' = IF fate = "lost" THEN posts ELSE Append(posts, Post("streaming", <<>>, 0))
          /\ hurt' = IF fate = "unheard" THEN hurt \cup {Len(posts')} ELSE hurt
    <3>1. CASE TurnOpens
      BY <3>1 DEF TurnOpens
    <3>2. CASE DraftOpened
      BY <3>2 DEF DraftOpened
    <3>. QED BY <1>5, <3>1, <3>2
  <2>2. late' = late /\ UNCHANGED server /\ flight' = flight
    BY <1>5 DEF TurnOpens, DraftOpened, stream
  <2>3. \A p \in DOMAIN posts : posts'[p] = posts[p]
    BY <1>1, <2>1, <2>2, DraftFacts
  <2>. QED BY <1>1, <2>2, <2>3, SlowGrown
<1>6. CASE ReplyPosted
  <2>1. PICK r \in DOMAIN sends : posts' = posts \/ posts' = WithReply(r)
    BY <1>6, Zenon DEF ReplyPosted
  <2>2. late' = late /\ UNCHANGED server /\ hurt' = hurt /\ flight' = flight
    BY <1>6 DEF ReplyPosted, stream
  <2>3. \A p \in DOMAIN posts : posts'[p] = posts[p]
    BY <1>1, <2>1, <2>2, PostedFacts
  <2>. QED BY <1>1, <2>2, <2>3, SlowGrown
<1>7. CASE ToolPosted
  <2>1. PICK i \in DOMAIN tools :
          /\ posts' = posts \/ posts' = Append(posts, Post("published", <<Block(i)>>, 0))
          /\ flight' = flight \/ flight' = [flight EXCEPT !.mine = FALSE]
    BY <1>7, Zenon DEF ToolPosted
  <2>2. late' = late /\ UNCHANGED server /\ hurt' = hurt
    BY <1>7 DEF ToolPosted
  <2>3. i \in Nat
    BY <1>1, ToolTyped
  <2>4. \A p \in DOMAIN posts : posts'[p] = posts[p]
    BY <1>1, <2>1, <2>2, <2>3, BlockFacts
  <2>5. flight'.on = flight.on /\ flight'.patch = flight.patch
    BY <1>1, <2>1, NotMine
  <2>. QED BY <1>1, <2>2, <2>4, <2>5, SlowGrown
<1>8. CASE TurnSettles
  <2>1. PICK fate \in Fates : Sent(settle, fate)
    BY <1>8 DEF TurnSettles
  <2>2. Meant(settle) /\ settle.do \in {"done", "cancel"} /\ flight' = flight
    BY <1>1, <1>8 DEF TurnSettles, OursInv, stream
  <2>. QED BY <1>1, <2>1, <2>2, SlowSent
<1>9. CASE DraftFinished
  <2>1. PICK r \in DOMAIN sends, fate \in Fates : sends[r].at = "patching" /\ Sent(SendPatch(r), fate)
    BY <1>9 DEF DraftFinished
  <2>2. flight' = flight
    BY <1>9 DEF DraftFinished, stream
  <2>3. Meant(SendPatch(r)) /\ SendPatch(r).do = "done"
    BY <1>1, <2>1, SendMeant
  <2>. QED BY <1>1, <2>1, <2>2, <2>3, SlowSent
<1>10. CASE DraftEnded
  <2>1. PICK i \in DOMAIN tools, fate \in Fates : tools[i].at = "ending" /\ Sent(EndPatch(i), fate)
    BY <1>10 DEF DraftEnded
  <2>2. flight' = flight
    BY <1>10 DEF DraftEnded, stream
  <2>3. Meant(EndPatch(i)) /\ EndPatch(i).do \in {"done", "cancel"}
    BY <1>1, <2>1, EndMeant
  <2>. QED BY <1>1, <2>1, <2>2, <2>3, SlowSent
<1>11. CASE DraftDropped
  <2>1. PICK i \in DOMAIN tools, fate \in Fates : tools[i].at = "dropping" /\ Sent(Cancel(tools[i].draft), fate)
    BY <1>11 DEF DraftDropped
  <2>2. flight' = flight
    BY <1>11 DEF DraftDropped, stream
  <2>3. Meant(Cancel(tools[i].draft)) /\ Cancel(tools[i].draft).do = "cancel"
    BY <1>1, <2>1, DropMeant
  <2>. QED BY <1>1, <2>1, <2>2, <2>3, SlowSent
<1>12. CASE FlushStarts
  <2>1. UNCHANGED chat /\ ~flight.on
    BY <1>12 DEF FlushStarts
  <2>. QED BY <1>1, <2>1, ChatSame, SlowKept
<1>13. CASE FlushAnswered
  <2>1. PICK fate \in Fates : flight.on /\ Sent(flight.patch, fate)
    BY <1>13 DEF FlushAnswered
  <2>2. Meant(flight.patch)
    BY <1>1, <2>1 DEF FlightInv
  <2>3. ReadsLess /\ (flight.patch \in DOMAIN reads' => flight.patch.post \in hurt')
    BY <1>1, <2>1, <2>2, SentFacts
  <2>. QED BY <1>1, <2>3, SlowKept
<1>14. CASE Crash
  <2>1. ReadsLess /\ posts' = posts /\ \A p \in DOMAIN posts : Streaming(p) => p \in hurt'
    BY <1>14, CrashFacts
  <2>2. flight.on => flight.patch.post \in DOMAIN posts
    BY <1>1 DEF FlightInv, Meant
  <2>3. \A p \in DOMAIN posts : p \in hurt' \/ ~Streaming(p)'
    BY <2>1 DEF Streaming
  <2>. QED BY <1>1, <2>1, <2>2, <2>3, SlowKept
<1>15. CASE Server
  BY <1>15, SlowServer
<1>. QED
  BY <1>3, <1>4, <1>5, <1>6, <1>7, <1>8, <1>9, <1>10, <1>11, <1>12, <1>13, <1>14, <1>15
  DEF Next, Turns, Stream, Sends, Tools

-----------------------------------------------------------------------------
(* The theorems *)

LEMMA InitIInv == Init => IInv
<1> SUFFICES ASSUME Init PROVE IInv
  OBVIOUS
<1>1. /\ posts = <<>> /\ late = {} /\ hurt = {} /\ DOMAIN reads = {} /\ crossed = {} /\ phase = "idle" /\ turn = 0 /\ stop = FALSE
      /\ ref = 0 /\ orphan = 0 /\ lane = Fresh /\ flight = NoFlight /\ raced = FALSE
      /\ sends = <<>> /\ tools = <<>> /\ spent = [texts |-> 0, rewrites |-> 0, upsets |-> 0]
  BY DEF Init
<1>2. DOMAIN posts = {} /\ DOMAIN sends = {} /\ DOMAIN tools = {} /\ Len(posts) = 0
  BY <1>1
<1>3. ChatInv
  <2>1. posts \in Seq(PostSet)
    BY <1>1, EmptySeq
  <2>. QED BY <1>1, <1>2, <2>1 DEF ChatInv
<1>4. OursInv
  <2>1. MaxTurns \in Nat /\ MaxTexts \in Nat
    BY DraftBounds
  <2>2. stop \in BOOLEAN
    BY <1>1, Zenon
  <2>3. turn \in 0 .. MaxTurns /\ ref \in 0 .. Len(posts) /\ orphan \in 0 .. Len(posts)
    BY <1>1, <1>2, <2>1
  <2>4. spent \in [texts : 0 .. MaxTexts, rewrites : Nat, upsets : Nat]
    BY <1>1, <2>1
  <2>. QED BY <1>1, <2>2, <2>3, <2>4 DEF OursInv
<1>5. SendsInv
  <2>1. sends \in Seq(SendSet)
    BY <1>1, EmptySeq
  <2>. QED BY <1>2, <2>1 DEF SendsInv
<1>6. ToolsInv
  <2>1. tools \in Seq(ToolSet)
    BY <1>1, EmptySeq
  <2>. QED BY <1>2, <2>1 DEF ToolsInv
<1>7. FirmInv
  BY <1>2 DEF FirmInv
<1>8. FlightInv
  <2>1. raced \in BOOLEAN
    BY <1>1, Zenon
  <2>2. lane \in LaneSet /\ lane.sent <= spent.texts /\ Len(lane.cum) <= spent.texts
    BY <1>1, FreshLane
  <2>3. flight \in [on : BOOLEAN, mine : BOOLEAN, patch : PatchSet] /\ ~flight.on /\ ~flight.mine
    BY <1>1, NoFlightTyped
  <2>. QED BY <2>1, <2>2, <2>3 DEF FlightInv
<1>9. OrderInv
  BY <1>1, FreshLane, NoFlightTyped DEF OrderInv
<1>10. ShownInv
  BY <1>1 DEF ShownInv
<1>11. SlowInv
  BY <1>1 DEF SlowInv
<1>. QED BY <1>3, <1>4, <1>5, <1>6, <1>7, <1>8, <1>9, <1>10, <1>11 DEF IInv

LEMMA StepIInv == IInv /\ [Next]_vars => IInv'
<1> SUFFICES ASSUME IInv, [Next]_vars PROVE IInv'
  OBVIOUS
<1>1. ChatInv' /\ OursInv' /\ SendsInv' /\ ToolsInv'
  BY ChatNext, OursNext, SendsNext, ToolsNext
<1>2. FirmInv' /\ FlightInv' /\ OrderInv' /\ ShownInv' /\ SlowInv'
  BY FirmNext, FlightNext, OrderNext, ShownNext, SlowNext
<1>. QED BY <1>1, <1>2 DEF IInv

(* The inductive invariant: what each holder of a draft may still rely on, in any order  *)
(* of the turn, its flushes, the sends of the queue, the tools, late requests and deaths *)
(* of the gateway (plugin/src/gateway-adapter.ts, outbound-adapter.ts).                  *)
THEOREM Invariance == Spec => []IInv
<1>1. Init => IInv
  BY InitIInv
<1>2. IInv /\ [Next]_vars => IInv'
  BY StepIInv
<1>. QED BY <1>1, <1>2, PTL DEF Spec

\* Text is no reply.
LEMMA TextIsNoReply ==
  ASSUME NEW s \in Said, NEW i \in 1 .. Len(s)
  PROVE  s[i] \in Speech /\ s[i].by # "reply"
<1>1. s[i] \in Speech
  BY ElementOfSeq DEF Said
<1>. QED BY <1>1 DEF Speech

(* A reply is in the chat once, whatever request was lost, repeated or came late, and    *)
(* the post that has its key says just that (the intent's key and the PATCH that         *)
(* publishes go together: sendText, outbound-adapter.ts), unless a PATCH wrote it that   *)
(* had read it as a draft before it was published (patch_mm_post locks nothing).         *)
THEOREM RepliesSaidOnce == Spec => []ReplyInv
<1>1. ASSUME IInv PROVE ReplyInv
  <2>1. ChatInv
    BY <1>1 DEF IInv
  <2>2. ASSUME NEW p \in DOMAIN posts, NEW q \in DOMAIN posts, posts[p].body = posts[q].body,
               posts[p].body # <<>>, posts[p].body[1].by = "reply"
        PROVE  p = q
    <3>1. posts[p] \in PostSet /\ posts[q] \in PostSet /\ Mixes(posts[p]) /\ Mixes(posts[q])
      BY <2>1, PostTyped
    <3>2. 1 \in 1 .. Len(posts[p].body)
      <4>1. posts[p].body \in Seq(Entries)
        BY <3>1 DEF PostSet
      <4>. QED BY <2>2, <4>1, EmptySeq, LenProperties
    <3>3. posts[p].body \notin Said /\ posts[q].body \notin Said
      BY <2>2, <3>2, TextIsNoReply
    <3>4. /\ posts[p].key # 0 /\ posts[p].body = <<Reply(posts[p].key)>>
          /\ posts[q].key # 0 /\ posts[q].body = <<Reply(posts[q].key)>>
      BY <3>1, <3>3 DEF Mixes
    <3>5. <<Reply(posts[p].key)>>[1] = <<Reply(posts[q].key)>>[1]
      BY <2>2, <3>4
    <3>6. posts[p].key = posts[q].key
      BY <3>5 DEF Reply
    <3>. QED BY <2>1, <3>4, <3>6 DEF ChatInv
  <2>3. ASSUME NEW p \in DOMAIN posts, NEW r \in DOMAIN sends, Contains(posts[p].body, Reply(r))
        PROVE  posts[p].body = <<Reply(r)>>
    <3>1. PICK i \in 1 .. Len(posts[p].body) : posts[p].body[i] = Reply(r)
      BY <2>3 DEF Contains
    <3>2. posts[p].body \notin Said
      BY <3>1, TextIsNoReply DEF Reply
    <3>3. posts[p].body = <<Reply(posts[p].key)>>
      BY <2>1, <3>2, PostTyped DEF Mixes
    <3>4. i = 1
      BY <3>1, <3>3
    <3>5. Reply(posts[p].key) = Reply(r)
      BY <3>1, <3>3, <3>4
    <3>. QED BY <3>3, <3>5
  <2>4. ASSUME NEW p \in DOMAIN posts \ crossed, NEW r \in DOMAIN sends, posts[p].key = r
        PROVE  posts[p].body = <<Reply(r)>>
    <3>1. Tells(posts[p]) /\ r # 0
      BY <1>1, <2>1, <2>4, PostTyped, SendTyped DEF IInv
    <3>. QED BY <2>4, <3>1 DEF Tells
  <2>. QED BY <2>2, <2>3, <2>4 DEF ReplyInv, ReplyOnce, ReplyExact, SaysJust
<1>. QED BY <1>1, Invariance, PTL

(* Nobody loses sight of a draft: one that shimmers is the turn's own, or the turn's     *)
(* finally-block, a send or a tool is about to end it, unless a request about it failed  *)
(* or the gateway died under it (dispatch, gateway-adapter.ts; endDraft, openDraft).     *)
THEOREM DraftsAreHeld == Spec => []NoDraftLeaked
<1>1. ASSUME IInv PROVE NoDraftLeaked
  <2>1. SUFFICES ASSUME NEW p \in DOMAIN posts, Streaming(p), p \notin hurt PROVE Held(p)
    BY DEF NoDraftLeaked
  <2>2. Firm(p) /\ ChatInv /\ SendsInv
    BY <1>1, <2>1 DEF IInv, FirmInv
  <2>3. CASE phase = "settling" /\ settle.post = p
    <3>1. settle \in InFlight
      BY <2>3 DEF InFlight
    <3>. QED BY <2>3, <3>1 DEF Held
  <2>4. ASSUME NEW r \in DOMAIN sends, sends[r].at = "patching", sends[r].draft = p PROVE Held(p)
    <3>1. SendPatch(r) \in InFlight
      BY <2>4 DEF InFlight
    <3>2. SendPatch(r).post = p
      BY <2>2, <2>4, SendMeant
    <3>. QED BY <3>1, <3>2 DEF Held
  <2>5. CASE p = ref \/ \E i \in DOMAIN tools : tools[i].draft = p
    BY <2>5 DEF Held
  <2>. QED BY <2>2, <2>3, <2>4, <2>5 DEF Firm
<1>. QED BY <1>1, Invariance, PTL

(* Nothing works below a question that waits, and a live draft shows a stretch of what   *)
(* the runner said, nothing twice and nothing left out, over any order of flushes, hand- *)
(* overs and answers (activity/stream-patcher.ts, endDraft in outbound-adapter.ts).      *)
THEOREM DraftsShowTheText == Spec => []DraftInv
<1>1. ASSUME IInv PROVE DraftInv
  <2>1. ChatInv /\ OursInv /\ ToolsInv /\ FlightInv /\ ShownInv
    BY <1>1 DEF IInv
  <2>2. lane.sent \in Nat /\ Len(lane.cum) \in Nat
    BY <2>1, LaneTyped
  <2>3. TypeOK
    <3>1. \A p \in DOMAIN posts : posts[p].status \in {"streaming", "published", "gone"}
      BY <2>1, PostTyped DEF PostSet
    <3>2. spent.texts \in 0 .. MaxTexts /\ MaxTexts \in Nat
      BY <2>1, DraftBounds DEF OursInv
    <3>3. lane.sent \in 0 .. MaxTexts
      BY <2>1, <2>2, <3>2 DEF FlightInv
    <3>. QED BY <2>1, <3>1, <3>3 DEF TypeOK, ChatInv, OursInv
  <2>4. QuietWhileAsked
    BY <2>1 DEF QuietWhileAsked, ToolsInv, Off
  <2>5. ShownInOrder
    <3>1. SUFFICES ASSUME ref # 0, ref \notin hurt, ~raced, Streaming(ref), ~lane.rewrite,
                          ~(flight.on /\ flight.patch.do = "replace")
                   PROVE  \E i, j \in 0 .. Len(lane.cum) : posts[ref].body = SubSeq(lane.cum, i + 1, j)
      BY DEF ShownInOrder
    <3>2. posts[ref].body = <<>> \/ Stretch(posts[ref].body)
      BY <2>1, <3>1 DEF ShownInv, Replacing, FlightInv
    <3>3. CASE posts[ref].body = <<>>
      <4>1. posts[ref].body = SubSeq(lane.cum, 0 + 1, 0)
        BY <3>3, SubSeqEmpty
      <4>2. 0 \in 0 .. Len(lane.cum)
        BY <2>2
      <4>. QED BY <4>1, <4>2
    <3>4. CASE Stretch(posts[ref].body)
      <4>1. PICK i \in 0 .. lane.sent : posts[ref].body = SubSeq(lane.cum, i + 1, lane.sent)
        BY <3>4 DEF Stretch
      <4>2. lane.sent <= Len(lane.cum)
        BY <3>4 DEF Stretch
      <4>3. i \in 0 .. Len(lane.cum) /\ lane.sent \in 0 .. Len(lane.cum)
        BY <2>2, <4>2
      <4>. QED BY <4>1, <4>3
    <3>. QED BY <3>2, <3>3, <3>4
  <2>. QED BY <2>3, <2>4, <2>5 DEF DraftInv
<1>. QED BY <1>1, Invariance, PTL

=============================================================================
