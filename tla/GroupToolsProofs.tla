--------------------------- MODULE GroupToolsProofs ---------------------------
(***************************************************************************)
(* What the tools of a group keep, for any members, items, tokens, slots   *)
(* and workers.  Whatever interleaves and fails, no announcement is made   *)
(* twice and no poll or reminder is stored that is not in the timeline;    *)
(* and as long as requests are handled one at a time and do not fail, the  *)
(* votes are the last choices of the members, one link is active, and the  *)
(* messages that the tools have pinned are those of pinned items.          *)
(*                                                                         *)
(* ToolsInv says what a request still has to do (Shape) and that the item  *)
(* it is going to store is its own, that the item it is going to update    *)
(* was stored; OnceInv, that what was or will be announced is over; and    *)
(* CalmInv, how far the sole request has come.                             *)
(***************************************************************************)
EXTENDS GroupTools, FiniteSetTheorems, SequenceTheorems, TLAPS

Pinnable == PollIds \cup ReminderIds
Active(i) == IsLive(i) /\ items[i].status = "ACTIVE"

\* What is stored is on, and not pinned.
NewItem(i, x) ==
  /\ "state" \in DOMAIN x /\ x.state = "live"
  /\ i \in Pinnable => {"status", "pinned"} \subseteq DOMAIN x /\ x.pinned = FALSE
  /\ i \in PollIds => "votes" \in DOMAIN x /\ \A u \in Members : Selection(x.votes, u) = {}

\* An update leaves the state alone, and no update opens a poll again.
Setting(c) ==
  /\ c.kind = "set" /\ c.id \in ItemIds
  /\ {"state", "pinned"} \cap DOMAIN c.set = {}
  /\ c.id \in PollIds /\ "status" \in DOMAIN c.set => c.set.status # "ACTIVE"
  /\ "vote" \in DOMAIN c =>
       c.id \in PollIds /\ c.vote.by \in Members /\ "votes" \in DOMAIN c.set

\* The last call of a request, and the last two.
Single(c) ==
  \/ c.kind = "insert" /\ c.id \in ItemIds /\ NewItem(c.id, c.item)
  \/ Setting(c)
  \/ c.kind \in {"pin", "pinAny"} /\ c.id \in Pinnable /\ c.pinned \in BOOLEAN
  \/ c.kind = "drop" /\ c.id \in ItemIds
  \/ c.kind = "findLink" /\ c.then \in {"get", "regenerate", "revoke"}
  \/ c.kind \in {"revokeLink", "newLink"}
Double(c, d) ==
  \/ /\ c.kind = "message" /\ d.kind = "insert" /\ c.show = d.id
     /\ d.id \in Pinnable /\ NewItem(d.id, d.item)
  \/ /\ c.kind = "set" /\ c.id \in Pinnable /\ c.set = [pinned |-> d.pinned] /\ "vote" \notin DOMAIN c
     /\ d.kind = "pin" /\ d.id = c.id /\ d.pinned \in BOOLEAN
  \/ c.kind = "pin" /\ c.id \in PollIds /\ c.pinned = FALSE /\ d.kind = "drop" /\ d.id = c.id
  \/ c.kind = "revokeLink" /\ d.kind = "newLink"
Shape(t) == \/ t = <<>>
            \/ t = <<t[1]>> /\ Single(t[1])
            \/ t = <<t[1], t[2]>> /\ Double(t[1], t[2])

Stores(t, i) == \E k \in DOMAIN t : t[k].kind = "insert" /\ t[k].id = i
Writes(t, i) == \E k \in DOMAIN t : t[k].kind \in {"set", "drop"} /\ t[k].id = i

ItemsOK ==
  /\ DOMAIN items = ItemIds
  /\ \A i \in ItemIds : IsLive(i) => "state" \in DOMAIN items[i]
  /\ \A i \in Pinnable : IsLive(i) => {"status", "pinned"} \subseteq DOMAIN items[i] /\ i \in shown
  /\ \A p \in PollIds : IsLive(p) => "votes" \in DOMAIN items[p]
SlotsOK ==
  /\ DOMAIN slots = Slots
  /\ \A r \in Slots : slots[r] = [todo |-> slots[r].todo] /\ Shape(slots[r].todo)

\* The item a request is going to store is missing and nobody else's; the item
\* it is going to update has been stored.
Claims ==
  \A r \in Slots, i \in ItemIds :
    /\ Stores(slots[r].todo, i) => /\ items[i] = Missing
                                   /\ i \in Pinnable => i \in shown \/ Doing(r, "message")
                                   /\ \A s \in Slots : Stores(slots[s].todo, i) => s = r
    /\ Writes(slots[r].todo, i) => items[i] # Missing

BooksOK ==
  /\ DOMAIN links = Tokens
  /\ armed \in [ReminderIds -> Nat]
  /\ DOMAIN chosen = PollIds /\ \A p \in PollIds : DOMAIN chosen[p] = Members
  /\ \A p \in PollIds : items[p] = Missing => \A u \in Members : chosen[p][u] = {}

Notices == (PollIds \X {0}) \cup (ReminderIds \X Nat)
Running(x) ==
  \/ x.pc = "polls" /\ {"pc", "now", "left"} \subseteq DOMAIN x /\ x.left \subseteq PollIds
  \/ x.pc = "reminders" /\ {"pc", "now", "read"} \subseteq DOMAIN x /\ DOMAIN x.read \subseteq ReminderIds
Working(x) ==
  \/ x = Resting
  \/ Running(x)
  \/ x.pc = "notify" /\ x.about \in Notices /\ Running(x.then)
WorkersOK == DOMAIN workers = Workers /\ \A w \in Workers : Working(workers[w])

ToolsInv == ItemsOK /\ SlotsOK /\ Claims /\ BooksOK /\ WorkersOK

-----------------------------------------------------------------------------
(* What was announced, or is about to be. *)

Notifying(w) == workers[w].pc = "notify"
Told(n) == n \in announced \/ \E w \in Workers : Notifying(w) /\ workers[w].about = n

\* A poll is stored once and never opened again.
Ended(p) == items[p] # Missing /\ ~Active(p)
\* Setting a reminder to go off is counted.
Past(i, k) == k < armed[i] \/ (k = armed[i] /\ ~Active(i))

OnceInv ==
  /\ repeated = {} /\ announced \subseteq Notices
  /\ \A w \in Workers : Notifying(w) =>
       /\ workers[w].about \notin announced
       /\ \A v \in Workers : Notifying(v) /\ workers[v].about = workers[w].about => v = w
  /\ \A p \in PollIds : Told(<<p, 0>>) => Ended(p)
  /\ \A i \in ReminderIds, k \in Nat : Told(<<i, k>>) => Past(i, k)

-----------------------------------------------------------------------------
(* One request at a time, and none has failed. *)

OneAtATime == \A r, s \in Slots : Busy(r) /\ Busy(s) => r = s
PinsAgree(i) == i \in byHand \/ (i \in pins <=> IsLive(i) /\ items[i].pinned)

\* The message is pinned or unpinned after the item, and before the item is dropped.
Midway(t, i) ==
  /\ t # <<>> /\ Tail(t) = <<>> /\ Head(t).kind \in {"pin", "drop"} /\ Head(t).id = i
  /\ IF Head(t).kind = "pin" THEN IsLive(i) /\ items[i].pinned = Head(t).pinned ELSE i \in byHand \/ i \notin pins

VotesAgree(p) == IsLive(p) => \A u \in Members : Selection(items[p].votes, u) = chosen[p][u]

\* The votes that are written back are those that were read, but for the choice
\* of one member; the link that is replaced is the only one.
SetsVotes(c) ==
  \A u \in Members : Selection(c.set.votes, u) =
    IF "vote" \in DOMAIN c /\ u = c.vote.by THEN c.vote.for ELSE chosen[c.id][u]
Ready(t) ==
  t # <<>> =>
    /\ Head(t).kind = "set" => IsLive(Head(t).id)
    /\ Head(t).kind = "set" /\ Head(t).id \in PollIds /\ "votes" \in DOMAIN Head(t).set => SetsVotes(Head(t))
    /\ Head(t).kind \in {"pin", "drop"} /\ Head(t).id \in Pinnable /\ Tail(t) = <<>> => Midway(t, Head(t).id)
    /\ Head(t).kind = "newLink" => ActiveLinks = {}
    /\ Head(t).kind = "revokeLink" /\ Tail(t) # <<>> => ActiveLinks \subseteq {Head(t).token}

CalmInv ==
  calm =>
    /\ OneAtATime
    /\ \A i \in Pinnable : PinsAgree(i) \/ \E r \in Slots : Midway(slots[r].todo, i)
    /\ \A p \in PollIds : VotesAgree(p)
    /\ \A k, l \in ActiveLinks : k = l
    /\ \A r \in Slots : Ready(slots[r].todo)

-----------------------------------------------------------------------------
(* Lists of one and of two calls *)

\* Two calls in a row.
LEMMA Joined ==
  ASSUME NEW c, NEW d
  PROVE  <<c>> \o <<d>> = <<c, d>> /\ <<c, d>> \o <<>> = <<c, d>>
<1> DEFINE S == {c, d}
<1>1. \A s, t \in Seq(S) : Len(s) = Len(t) /\ (\A i \in 1..Len(s) : s[i] = t[i]) => s = t
  BY SeqEqual
<1>2. \A s, t \in Seq(S) :
         /\ s \o t \in Seq(S) /\ Len(s \o t) = Len(s) + Len(t)
         /\ \A i \in 1..Len(s) : (s \o t)[i] = s[i]
         /\ \A i \in 1..Len(t) : (s \o t)[Len(s) + i] = t[i]
  OBVIOUS
<1>3. /\ <<c>> \in Seq(S) /\ Len(<<c>>) = 1 /\ <<c>>[1] = c
      /\ <<d>> \in Seq(S) /\ Len(<<d>>) = 1 /\ <<d>>[1] = d
      /\ <<c, d>> \in Seq(S) /\ Len(<<c, d>>) = 2 /\ <<c, d>>[1] = c /\ <<c, d>>[2] = d
  OBVIOUS
<1>4. \A s \in Seq(S) : s \o <<>> = s
  OBVIOUS
<1> HIDE DEF S
<1>5. PICK u : u = <<c>> \o <<d>>
  OBVIOUS
<1>6. u \in Seq(S) /\ Len(u) = 2 /\ u[1] = c /\ u[2] = d
  BY <1>2, <1>3, <1>5
<1>7. \A i \in 1..2 : u[i] = <<c, d>>[i]
  BY <1>3, <1>6
<1>8. u = <<c, d>>
  BY <1>1, <1>3, <1>6, <1>7
<1> QED BY <1>3, <1>4, <1>5, <1>8

LEMMA OneCall ==
  ASSUME NEW c
  PROVE  /\ <<c>> # <<>> /\ Head(<<c>>) = c /\ Tail(<<c>>) = <<>> /\ <<c>>[1] = c
         /\ <<>> \o <<c>> = <<c>> /\ <<c>> \o <<>> = <<c>>
         /\ \A i : Stores(<<c>>, i) <=> c.kind = "insert" /\ c.id = i
         /\ \A i : Writes(<<c>>, i) <=> c.kind \in {"set", "drop"} /\ c.id = i
<1>1. DOMAIN <<c>> = {1} /\ <<c>>[1] = c
  OBVIOUS
<1>2. <<c>> # <<>> /\ Head(<<c>>) = c /\ Tail(<<c>>) = <<>>
  OBVIOUS
<1>3. <<>> \o <<c>> = <<c>> /\ <<c>> \o <<>> = <<c>>
  OBVIOUS
<1>4. \A i : Stores(<<c>>, i) <=> c.kind = "insert" /\ c.id = i
  BY <1>1 DEF Stores
<1>5. \A i : Writes(<<c>>, i) <=> c.kind \in {"set", "drop"} /\ c.id = i
  BY <1>1 DEF Writes
<1> QED BY <1>1, <1>2, <1>3, <1>4, <1>5

LEMMA TwoCalls ==
  ASSUME NEW c, NEW d
  PROVE  /\ <<c, d>> # <<>> /\ Head(<<c, d>>) = c /\ Tail(<<c, d>>) = <<d>>
         /\ <<c, d>>[1] = c /\ <<c, d>>[2] = d
         /\ <<c>> \o <<d>> = <<c, d>> /\ <<c, d>> \o <<>> = <<c, d>>
         /\ \A i : Stores(<<c, d>>, i) <=> (c.kind = "insert" /\ c.id = i) \/ (d.kind = "insert" /\ d.id = i)
         /\ \A i : Writes(<<c, d>>, i) <=>
             (c.kind \in {"set", "drop"} /\ c.id = i) \/ (d.kind \in {"set", "drop"} /\ d.id = i)
<1>1. DOMAIN <<c, d>> = {1, 2} /\ <<c, d>>[1] = c /\ <<c, d>>[2] = d
  OBVIOUS
<1>2. <<c, d>> # <<>> /\ Head(<<c, d>>) = c /\ Tail(<<c, d>>) = <<d>>
  OBVIOUS
<1>3. <<c>> \o <<d>> = <<c, d>> /\ <<c, d>> \o <<>> = <<c, d>>
  BY Joined
<1>4. \A i : Stores(<<c, d>>, i) <=> (c.kind = "insert" /\ c.id = i) \/ (d.kind = "insert" /\ d.id = i)
  BY <1>1 DEF Stores
<1>5. \A i : Writes(<<c, d>>, i) <=>
             (c.kind \in {"set", "drop"} /\ c.id = i) \/ (d.kind \in {"set", "drop"} /\ d.id = i)
  BY <1>1 DEF Writes
<1> QED BY <1>1, <1>2, <1>3, <1>4, <1>5

LEMMA TwoClaims ==
  ASSUME NEW c, NEW d, NEW i
  PROVE  /\ Stores(<<c, d>>, i) <=> (c.kind = "insert" /\ c.id = i) \/ (d.kind = "insert" /\ d.id = i)
         /\ Writes(<<c, d>>, i) <=> (c.kind \in {"set", "drop"} /\ c.id = i) \/ (d.kind \in {"set", "drop"} /\ d.id = i)
<1>1. DOMAIN <<c, d>> = {1, 2} /\ <<c, d>>[1] = c /\ <<c, d>>[2] = d
  OBVIOUS
<1>2. Stores(<<c, d>>, i) <=> (c.kind = "insert" /\ c.id = i) \/ (d.kind = "insert" /\ d.id = i)
  BY <1>1 DEF Stores
<1>3. Writes(<<c, d>>, i) <=> (c.kind \in {"set", "drop"} /\ c.id = i) \/ (d.kind \in {"set", "drop"} /\ d.id = i)
  BY <1>1 DEF Writes
<1> QED BY <1>2, <1>3

LEMMA NoCall ==
  /\ \A i : ~Stores(<<>>, i) /\ ~Writes(<<>>, i)
  /\ Shape(<<>>) /\ Ready(<<>>) /\ <<>> \o <<>> = <<>>
BY DEF Stores, Writes, Shape, Ready

LEMMA SingleShape ==
  ASSUME NEW c, Single(c)
  PROVE  Shape(<<c>>)
BY OneCall DEF Shape

LEMMA DoubleShape ==
  ASSUME NEW c, NEW d, Double(c, d)
  PROVE  Shape(<<c, d>>)
BY TwoCalls DEF Shape

\* A request that is doing something has a first call, and what is left after it.
LEMMA Parts ==
  ASSUME NEW t, Shape(t), t # <<>>
  PROVE  \/ t = <<Head(t)>> /\ Tail(t) = <<>> /\ Single(Head(t))
         \/ \E d : t = <<Head(t), d>> /\ Tail(t) = <<d>> /\ Double(Head(t), d)
<1>1. CASE t = <<t[1]>> /\ Single(t[1])
  <2>1. PICK c : c = t[1]
    OBVIOUS
  <2>2. t = <<c>> /\ Single(c)
    BY <1>1, <2>1
  <2>3. Head(<<c>>) = c /\ Tail(<<c>>) = <<>>
    BY OneCall
  <2>4. Head(t) = c /\ Tail(t) = <<>>
    BY <2>2, <2>3
  <2> QED BY <2>2, <2>4
<1>2. CASE t = <<t[1], t[2]>> /\ Double(t[1], t[2])
  <2>1. PICK c, d : c = t[1] /\ d = t[2]
    OBVIOUS
  <2>2. t = <<c, d>> /\ Double(c, d)
    BY <1>2, <2>1
  <2>3. Head(<<c, d>>) = c /\ Tail(<<c, d>>) = <<d>>
    BY TwoCalls
  <2>4. Head(t) = c /\ Tail(t) = <<d>>
    BY <2>2, <2>3
  <2>5. t = <<Head(t), d>> /\ Tail(t) = <<d>> /\ Double(Head(t), d)
    BY <2>2, <2>4
  <2> QED BY <2>5
<1> QED BY <1>1, <1>2 DEF Shape

-----------------------------------------------------------------------------
(* A request that starts *)

\* What a use case may plan: an item nobody has taken, or one that is there; as
\* long as requests are handled one at a time, what it writes back is what is
\* stored but for the change it makes.
Opening(t) ==
  /\ Shape(t) /\ t # <<>>
  /\ \A i \in ItemIds : Stores(t, i) => ~Taken(i) /\ (i \in Pinnable => Head(t).kind = "message")
  /\ \A i \in ItemIds : Writes(t, i) => items[i] # Missing
  /\ (\A p \in PollIds : VotesAgree(p)) /\ (\A i \in Pinnable : PinsAgree(i)) => Ready(t)

LEMMA StoringOpens ==
  ASSUME NEW i \in ItemIds, NEW x, ~Taken(i), NewItem(i, x)
  PROVE  /\ i \in Pinnable => Opening(ShowAndStore(i, x))
         /\ i \notin Pinnable => Opening(<<Insert(i, x)>>)
<1>1. PICK c, d : c = Show(i) /\ d = Insert(i, x)
  OBVIOUS
<1>2. c.kind = "message" /\ c.show = i /\ d.kind = "insert" /\ d.id = i /\ d.item = x
  BY <1>1 DEF Show, Insert
<1>3. ASSUME i \in Pinnable PROVE Opening(<<c, d>>)
  <2>1. Shape(<<c, d>>)
    BY <1>2, <1>3, DoubleShape DEF Double
  <2>2. Ready(<<c, d>>)
    BY <1>2, TwoCalls DEF Ready
  <2>3. \A j \in ItemIds : ~Writes(<<c, d>>, j) /\ (Stores(<<c, d>>, j) => j = i)
    BY <1>2, TwoCalls
  <2>4. <<c, d>> # <<>> /\ Head(<<c, d>>) = c
    BY TwoCalls
  <2> QED BY <1>2, <2>1, <2>2, <2>3, <2>4 DEF Opening
<1>4. ASSUME i \notin Pinnable PROVE Opening(<<d>>)
  <2>1. Shape(<<d>>)
    BY <1>2, SingleShape DEF Single
  <2>2. Ready(<<d>>)
    BY <1>2, OneCall DEF Ready
  <2> QED BY <1>2, <1>4, <2>1, <2>2, OneCall DEF Opening
<1> QED BY <1>1, <1>3, <1>4 DEF ShowAndStore

LEMMA LiveIsThere ==
  ASSUME NEW i, IsLive(i)
  PROVE  items[i] # Missing
BY DEF IsLive, Missing

LEMMA SettingOpens ==
  ASSUME NEW c, Setting(c), IsLive(c.id),
         (\A p \in PollIds : VotesAgree(p)) /\ c.id \in PollIds /\ "votes" \in DOMAIN c.set => SetsVotes(c)
  PROVE  Opening(<<c>>)
<1>1. c.kind = "set" /\ c.id \in ItemIds
  BY DEF Setting
<1>2. Shape(<<c>>)
  BY SingleShape DEF Single
<1>3. ASSUME \A p \in PollIds : VotesAgree(p) PROVE Ready(<<c>>)
  BY <1>1, <1>3, OneCall DEF Ready
<1>4. \A i \in ItemIds : Writes(<<c>>, i) => items[i] # Missing
  BY OneCall, LiveIsThere
<1>5. \A i \in ItemIds : ~Stores(<<c>>, i)
  BY <1>1, OneCall
<1> QED BY <1>2, <1>3, <1>4, <1>5, OneCall DEF Opening

LEMMA CreatesOpen ==
  ASSUME NEW r \in Slots, NEW u \in Members,
         \/ \E p \in PollIds, form \in PollChoices : CreatePoll(r, u, p, form)
         \/ \E i \in ReminderIds, form \in ReminderChoices : CreateGroupReminder(r, u, i, form)
         \/ \E n \in NoteIds : CreateGroupNote(r, u, n)
  PROVE  \E t : Opening(t) /\ Begin(r, t)
<1>1. CASE \E p \in PollIds, form \in PollChoices : CreatePoll(r, u, p, form)
  <2>1. PICK p \in PollIds, form \in PollChoices : CreatePoll(r, u, p, form)
    BY <1>1
  <2>2. PICK x : x = NewPoll(u, form)
    OBVIOUS
  <2>3. /\ DOMAIN x = {"state", "by", "status", "multi", "change", "add", "expires", "pinned", "options", "votes"}
        /\ x.state = "live" /\ x.pinned = FALSE /\ x.votes = [o \in Options |-> {}]
    BY <2>2 DEF NewPoll
  <2>4. \A v \in Members : Selection(x.votes, v) = {}
    BY <2>3 DEF Selection
  <2>5. NewItem(p, x)
    BY <2>3, <2>4 DEF NewItem
  <2>6. p \in ItemIds /\ p \in Pinnable /\ ~Taken(p) /\ Begin(r, ShowAndStore(p, x))
    BY <2>1, <2>2 DEF CreatePoll, Fresh, ItemIds, Pinnable
  <2> QED BY <2>5, <2>6, StoringOpens
<1>2. CASE \E i \in ReminderIds, form \in ReminderChoices : CreateGroupReminder(r, u, i, form)
  <2>1. PICK i \in ReminderIds, form \in ReminderChoices : CreateGroupReminder(r, u, i, form)
    BY <1>2
  <2>2. PICK x : x = NewReminder(u, form)
    OBVIOUS
  <2>3. /\ DOMAIN x = {"state", "by", "status", "at", "before", "repeat", "next", "pinned"}
        /\ x.state = "live" /\ x.pinned = FALSE
    BY <2>2 DEF NewReminder
  <2>4. NewItem(i, x)
    BY <2>3, GroupToolsAssumption DEF NewItem
  <2>5. i \in ItemIds /\ i \in Pinnable /\ ~Taken(i) /\ Begin(r, ShowAndStore(i, x))
    BY <2>1, <2>2 DEF CreateGroupReminder, Fresh, ItemIds, Pinnable
  <2> QED BY <2>4, <2>5, StoringOpens
<1>3. CASE \E n \in NoteIds : CreateGroupNote(r, u, n)
  <2>1. PICK n \in NoteIds : CreateGroupNote(r, u, n)
    BY <1>3
  <2>2. PICK x : x = NewNote(u)
    OBVIOUS
  <2>3. DOMAIN x = {"state", "by"} /\ x.state = "live"
    BY <2>2 DEF NewNote
  <2>4. n \in ItemIds /\ n \notin Pinnable
    BY GroupToolsAssumption DEF ItemIds, Pinnable
  <2>5. NewItem(n, x)
    BY <2>3, <2>4 DEF NewItem, Pinnable
  <2>6. ~Taken(n) /\ Begin(r, <<Insert(n, x)>>)
    BY <2>1, <2>2 DEF CreateGroupNote, Fresh
  <2> QED BY <2>4, <2>5, <2>6, StoringOpens
<1> QED BY <1>1, <1>2, <1>3

\* The votes after u has chosen are those that were read, but for his.
LEMMA CastChanges ==
  ASSUME NEW item, NEW u, NEW choice \in SUBSET Options, NEW x
  PROVE  Selection(Cast(item, u, choice), x) = IF x = u THEN choice ELSE Selection(item.votes, x)
BY DEF Selection, Cast

LEMMA PollChangesOpen ==
  ASSUME NEW r \in Slots, NEW u \in Members, NEW p \in PollIds,
         \/ \E choice \in SUBSET Options : VotePoll(r, u, p, choice)
         \/ \E o \in Options : AddPollOption(r, p, o)
         \/ ClosePoll(r, u, p)
  PROVE  \E t : Opening(t) /\ Begin(r, t)
<1>1. CASE \E choice \in SUBSET Options : VotePoll(r, u, p, choice)
  <2>1. PICK choice \in SUBSET Options : VotePoll(r, u, p, choice)
    BY <1>1
  <2>2. PICK v : v = Cast(items[p], u, choice)
    OBVIOUS
  <2>3. PICK c : c = [kind |-> "set", id |-> p, set |-> [votes |-> v], vote |-> [by |-> u, for |-> choice]]
    OBVIOUS
  <2>4. IsLive(p) /\ Begin(r, <<c>>)
    BY <2>1, <2>2, <2>3 DEF VotePoll, IsOpen
  <2>5. /\ c.kind = "set" /\ c.id = p /\ DOMAIN c.set = {"votes"} /\ c.set.votes = v
        /\ "vote" \in DOMAIN c /\ c.vote.by = u /\ c.vote.for = choice
    BY <2>3
  <2>6. Setting(c)
    BY <2>5 DEF Setting, ItemIds
  <2>7. ASSUME VotesAgree(p) PROVE SetsVotes(c)
    BY <2>2, <2>4, <2>5, <2>7, CastChanges DEF SetsVotes, VotesAgree
  <2>8. Opening(<<c>>)
    BY <2>4, <2>5, <2>6, <2>7, SettingOpens
  <2> QED BY <2>4, <2>8
<1>2. CASE \E o \in Options : AddPollOption(r, p, o)
  <2>1. PICK o \in Options : AddPollOption(r, p, o)
    BY <1>2
  <2>2. PICK c : c = Set(p, [options |-> items[p].options \cup {o}, votes |-> items[p].votes])
    OBVIOUS
  <2>3. IsLive(p) /\ Begin(r, <<c>>)
    BY <2>1, <2>2 DEF AddPollOption, IsOpen
  <2>4. /\ c.kind = "set" /\ c.id = p /\ DOMAIN c.set = {"options", "votes"} /\ c.set.votes = items[p].votes
        /\ "vote" \notin DOMAIN c
    BY <2>2 DEF Set
  <2>5. Setting(c)
    BY <2>4 DEF Setting, ItemIds
  <2>6. ASSUME VotesAgree(p) PROVE SetsVotes(c)
    BY <2>3, <2>4, <2>6 DEF SetsVotes, VotesAgree
  <2>7. Opening(<<c>>)
    BY <2>3, <2>4, <2>5, <2>6, SettingOpens
  <2> QED BY <2>3, <2>7
<1>3. CASE ClosePoll(r, u, p)
  <2>1. PICK c : c = Set(p, [status |-> "CLOSED"])
    OBVIOUS
  <2>2. IsLive(p) /\ Begin(r, <<c>>)
    BY <1>3, <2>1 DEF ClosePoll, MayManage
  <2>3. c.kind = "set" /\ c.id = p /\ DOMAIN c.set = {"status"} /\ c.set.status = "CLOSED" /\ "vote" \notin DOMAIN c
    BY <2>1 DEF Set
  <2>4. Setting(c)
    BY <2>3 DEF Setting, ItemIds
  <2>5. Opening(<<c>>)
    BY <2>2, <2>3, <2>4, SettingOpens
  <2> QED BY <2>2, <2>5
<1> QED BY <1>1, <1>2, <1>3

LEMMA PinAndDeleteOpen ==
  ASSUME NEW r \in Slots, NEW u \in Members,
         \/ \E i \in Pinnable, pinned \in BOOLEAN : PinItem(r, u, i, pinned)
         \/ \E p \in PollIds : DeletePoll(r, u, p)
         \/ \E n \in NoteIds : DeleteGroupNote(r, u, n)
  PROVE  \E t : Opening(t) /\ Begin(r, t)
<1>1. CASE \E i \in Pinnable, pinned \in BOOLEAN : PinItem(r, u, i, pinned)
  <2>1. PICK i \in Pinnable, pinned \in BOOLEAN : PinItem(r, u, i, pinned)
    BY <1>1
  <2>2. PICK c, d : c = Set(i, [pinned |-> pinned]) /\ d = PinMessage(i, pinned)
    OBVIOUS
  <2>3. IsLive(i) /\ Begin(r, <<c, d>>)
    BY <2>1, <2>2 DEF PinItem, MayManage
  <2>4. /\ c.kind = "set" /\ c.id = i /\ c.set = [pinned |-> pinned] /\ DOMAIN c.set = {"pinned"}
        /\ "vote" \notin DOMAIN c
        /\ d.kind = "pin" /\ d.id = i /\ d.pinned = pinned
    BY <2>2 DEF Set, PinMessage
  <2>5. Shape(<<c, d>>)
    BY <2>4, DoubleShape DEF Double
  <2>6. \A j \in ItemIds : ~Stores(<<c, d>>, j) /\ (Writes(<<c, d>>, j) => j = i)
    <3>1. c.kind = "set" /\ c.id = i /\ d.kind = "pin"
      BY <2>4
    <3>2. \A j : Stores(<<c, d>>, j) <=> (c.kind = "insert" /\ c.id = j) \/ (d.kind = "insert" /\ d.id = j)
      BY TwoCalls
    <3>3. \A j : Writes(<<c, d>>, j) <=>
                   (c.kind \in {"set", "drop"} /\ c.id = j) \/ (d.kind \in {"set", "drop"} /\ d.id = j)
      BY TwoCalls
    <3> QED BY <3>1, <3>2, <3>3
  <2>7. Ready(<<c, d>>)
    BY <2>3, <2>4, TwoCalls DEF Ready
  <2>8. Opening(<<c, d>>)
    BY <2>3, <2>5, <2>6, <2>7, TwoCalls, LiveIsThere DEF Opening
  <2> QED BY <2>3, <2>8
<1>2. CASE \E p \in PollIds : DeletePoll(r, u, p)
  <2>1. PICK p \in PollIds : DeletePoll(r, u, p)
    BY <1>2
  <2>2. PICK c, d : c = PinMessage(p, FALSE) /\ d = [kind |-> "drop", id |-> p]
    OBVIOUS
  <2>3. /\ c.kind = "pin" /\ c.id = p /\ c.pinned = FALSE
        /\ d.kind = "drop" /\ d.id = p
    BY <2>2 DEF PinMessage
  <2>4. IsLive(p) /\ Begin(r, (IF items[p].pinned THEN <<c>> ELSE <<>>) \o <<d>>)
    BY <2>1, <2>2 DEF DeletePoll, MayManage
  <2>5. Opening(<<c, d>>)
    <3>1. Shape(<<c, d>>)
      BY <2>3, DoubleShape DEF Double
    <3>2. \A j \in ItemIds : ~Stores(<<c, d>>, j) /\ (Writes(<<c, d>>, j) => j = p)
      <4>1. \A j : Stores(<<c, d>>, j) <=> (c.kind = "insert" /\ c.id = j) \/ (d.kind = "insert" /\ d.id = j)
        BY TwoCalls
      <4>2. \A j : Writes(<<c, d>>, j) <=>
             (c.kind \in {"set", "drop"} /\ c.id = j) \/ (d.kind \in {"set", "drop"} /\ d.id = j)
        BY TwoCalls
      <4> QED BY <2>3, <4>1, <4>2
    <3>3. Ready(<<c, d>>)
      BY <2>3, TwoCalls DEF Ready
    <3> QED BY <2>4, <3>1, <3>2, <3>3, TwoCalls, LiveIsThere DEF Opening
  <2>6. ASSUME ~items[p].pinned PROVE Opening(<<d>>)
    <3>1. Shape(<<d>>)
      BY <2>3, SingleShape DEF Single, ItemIds
    <3>2. \A j \in ItemIds : ~Stores(<<d>>, j) /\ (Writes(<<d>>, j) => j = p)
      BY <2>3, OneCall
    <3>3. ASSUME \A i \in Pinnable : PinsAgree(i) PROVE Ready(<<d>>)
      <4>1. p \in byHand \/ p \notin pins
        BY <2>4, <2>6, <3>3 DEF PinsAgree, Pinnable
      <4> QED BY <2>3, <4>1, OneCall DEF Ready, Midway
    <3> QED BY <2>4, <3>1, <3>2, <3>3, OneCall, LiveIsThere DEF Opening
  <2>7. <<c>> \o <<d>> = <<c, d>> /\ <<>> \o <<d>> = <<d>>
    BY TwoCalls, OneCall, ZenonT(40)
  <2>8. Begin(r, <<c, d>>) \/ (~items[p].pinned /\ Begin(r, <<d>>))
    BY <2>4, <2>7
  <2> QED BY <2>5, <2>6, <2>8
<1>3. CASE \E n \in NoteIds : DeleteGroupNote(r, u, n)
  <2>1. PICK n \in NoteIds : DeleteGroupNote(r, u, n)
    BY <1>3
  <2>2. PICK d : d = [kind |-> "drop", id |-> n]
    OBVIOUS
  <2>3. d.kind = "drop" /\ d.id = n /\ IsLive(n) /\ Begin(r, <<d>>)
    BY <2>1, <2>2 DEF DeleteGroupNote
  <2>4. Shape(<<d>>)
    BY <2>3, SingleShape DEF Single, ItemIds
  <2>5. \A j \in ItemIds : ~Stores(<<d>>, j) /\ (Writes(<<d>>, j) => j = n)
    BY <2>3, OneCall
  <2>6. Ready(<<d>>)
    <3>1. n \notin Pinnable
      BY GroupToolsAssumption DEF Pinnable
    <3> QED BY <2>3, <3>1, OneCall DEF Ready
  <2>7. Opening(<<d>>)
    BY <2>3, <2>4, <2>5, <2>6, OneCall, LiveIsThere DEF Opening
  <2> QED BY <2>3, <2>7
<1> QED BY <1>1, <1>2, <1>3

\* The fields of an edit, to which the next notice may be added.
LEMMA EditFields ==
  ASSUME NEW item, NEW edit \in EditChoices
  PROVE  DOMAIN Rescheduled(item, edit) \subseteq {"at", "before", "repeat", "status", "next"}
<1>1. edit \in EditForm
  BY GroupToolsAssumption
<1>2. DOMAIN edit \subseteq {"at", "before", "repeat", "status"}
  <2>1. CASE edit \in [at : Times]
    BY <2>1
  <2>2. CASE edit \in [before : {0, 1}]
    BY <2>2
  <2>3. CASE edit \in [repeat : BOOLEAN]
    BY <2>3
  <2>4. CASE edit \in [status : {"ACTIVE", "DONE", "CANCELLED"}]
    BY <2>4
  <2>5. CASE edit \in [at : Times, status : {"ACTIVE"}]
    BY <2>5
  <2> QED BY <1>1, <2>1, <2>2, <2>3, <2>4, <2>5 DEF EditForm
<1> QED BY <1>2 DEF Rescheduled

LEMMA UtilityChangesOpen ==
  ASSUME NEW r \in Slots, NEW u \in Members,
         \/ \E i \in ReminderIds, edit \in EditChoices : UpdateGroupReminder(r, u, i, edit)
         \/ \E i \in ReminderIds : DeleteGroupReminder(r, u, i)
         \/ \E n \in NoteIds : UpdateGroupNote(r, u, n)
  PROVE  \E t : Opening(t) /\ Begin(r, t)
<1>1. ASSUME NEW i \in ReminderIds \cup NoteIds, IsLive(i), NEW f,
             DOMAIN f \subseteq {"at", "before", "repeat", "status", "next"}, Begin(r, <<Set(i, f)>>)
      PROVE  \E t : Opening(t) /\ Begin(r, t)
  <2>1. PICK c : c = Set(i, f)
    OBVIOUS
  <2>2. c.kind = "set" /\ c.id = i /\ c.set = f /\ "vote" \notin DOMAIN c
    BY <2>1 DEF Set
  <2>3. i \in ItemIds /\ i \notin PollIds
    BY GroupToolsAssumption DEF ItemIds
  <2>4. Setting(c)
    BY <1>1, <2>2, <2>3 DEF Setting
  <2>5. Opening(<<c>>)
    BY <1>1, <2>2, <2>3, <2>4, SettingOpens
  <2> QED BY <1>1, <2>1, <2>5
<1>2. CASE \E i \in ReminderIds, edit \in EditChoices : UpdateGroupReminder(r, u, i, edit)
  BY <1>1, <1>2, EditFields DEF UpdateGroupReminder, MayManage
<1>3. CASE \E i \in ReminderIds : DeleteGroupReminder(r, u, i)
  <2>1. PICK i \in ReminderIds : DeleteGroupReminder(r, u, i)
    BY <1>3
  <2>2. PICK f : f = [status |-> "CANCELLED"]
    OBVIOUS
  <2>3. IsLive(i) /\ DOMAIN f = {"status"} /\ Begin(r, <<Set(i, f)>>)
    BY <2>1, <2>2 DEF DeleteGroupReminder, MayManage
  <2> QED BY <1>1, <2>3
<1>4. CASE \E n \in NoteIds : UpdateGroupNote(r, u, n)
  <2>1. PICK n \in NoteIds : UpdateGroupNote(r, u, n)
    BY <1>4
  <2>2. PICK f : f = <<>>
    OBVIOUS
  <2>3. IsLive(n) /\ DOMAIN f = {} /\ Begin(r, <<Set(n, f)>>)
    BY <2>1, <2>2 DEF UpdateGroupNote
  <2> QED BY <1>1, <2>3
<1> QED BY <1>2, <1>3, <1>4

LEMMA LinkOpens ==
  ASSUME NEW r \in Slots, LinkUseCase(r)
  PROVE  \E t : Opening(t) /\ Begin(r, t)
<1>1. PICK then \in {"get", "regenerate", "revoke"} : Begin(r, <<[kind |-> "findLink", then |-> then]>>)
  BY DEF LinkUseCase, GetGroupInviteLink, RegenerateGroupInviteLink, RevokeGroupInviteLink, BeginLink
<1>2. PICK c : c = [kind |-> "findLink", then |-> then]
  OBVIOUS
<1>3. c.kind = "findLink" /\ c.then \in {"get", "regenerate", "revoke"}
  BY <1>2
<1>4. Shape(<<c>>)
  BY <1>3, SingleShape DEF Single
<1>5. \A i \in ItemIds : ~Stores(<<c>>, i) /\ ~Writes(<<c>>, i)
  BY <1>3, OneCall
<1>6. Ready(<<c>>)
  BY <1>3, OneCall DEF Ready
<1> QED BY <1>1, <1>2, <1>4, <1>5, <1>6, OneCall DEF Opening

LEMMA MessageOpens ==
  ASSUME NEW r \in Slots, MessageUseCase(r)
  PROVE  \E t : Opening(t) /\ Begin(r, t)
<1>1. PICK i \in Pinnable, pinned \in BOOLEAN : PinOrUnpinMessage(r, i, pinned)
  BY DEF MessageUseCase, Pinnable
<1>2. PICK c : c = [kind |-> "pinAny", id |-> i, pinned |-> pinned]
  OBVIOUS
<1>3. Begin(r, <<c>>)
  BY <1>1, <1>2 DEF PinOrUnpinMessage
<1>4. c.kind = "pinAny" /\ c.id = i /\ c.pinned = pinned
  BY <1>2
<1>5. Shape(<<c>>)
  BY <1>4, SingleShape DEF Single
<1>6. \A j \in ItemIds : ~Stores(<<c>>, j) /\ ~Writes(<<c>>, j)
  BY <1>4, OneCall
<1>7. Ready(<<c>>)
  BY <1>4, OneCall DEF Ready
<1> QED BY <1>3, <1>5, <1>6, <1>7, OneCall DEF Opening

LEMMA UseCaseOpens ==
  ASSUME NEW r \in Slots,
         \/ LinkUseCase(r) \/ MessageUseCase(r)
         \/ \E u \in Members : PollUseCase(r, u) \/ UtilityUseCase(r, u)
  PROVE  \E t : Opening(t) /\ Begin(r, t)
<1>1. ASSUME NEW u \in Members, PollUseCase(r, u) PROVE \E t : Opening(t) /\ Begin(r, t)
  BY <1>1, CreatesOpen, PollChangesOpen, PinAndDeleteOpen DEF PollUseCase
<1>2. ASSUME NEW u \in Members, UtilityUseCase(r, u) PROVE \E t : Opening(t) /\ Begin(r, t)
  BY <1>2, CreatesOpen, UtilityChangesOpen, PinAndDeleteOpen DEF UtilityUseCase, Pinnable
<1> QED BY <1>1, <1>2, LinkOpens, MessageOpens

-----------------------------------------------------------------------------
(* What a step of a request leaves to the others *)

LEMMA SlotFacts ==
  ASSUME SlotsOK, NEW r \in Slots
  PROVE  /\ Shape(slots[r].todo)
         /\ Busy(r) <=> slots[r].todo # <<>>
         /\ \A kind : Doing(r, kind) <=> slots[r].todo # <<>> /\ Head(slots[r].todo).kind = kind
<1>1. slots[r] = [todo |-> slots[r].todo] /\ Shape(slots[r].todo)
  BY DEF SlotsOK
<1>2. PICK t : t = slots[r].todo
  OBVIOUS
<1>3. slots[r] = [todo |-> t]
  BY <1>1, <1>2
<1>4. Busy(r) <=> t # <<>>
  BY <1>2, <1>3 DEF Busy, Idle
<1> QED BY <1>1, <1>2, <1>4 DEF Doing

\* A request goes on with t: it changes no item but those it was going to store
\* or to update.
LEMMA Onward ==
  ASSUME SlotsOK, Claims, NEW r \in Slots, NEW t, Shape(t),
         slots' = [slots EXCEPT ![r] = [todo |-> t]],
         \A i \in ItemIds : Stores(t, i) =>
           /\ items'[i] = Missing
           /\ i \in Pinnable => i \in shown' \/ (t # <<>> /\ Head(t).kind = "message")
           /\ \A s \in Slots : Stores(slots[s].todo, i) => s = r,
         \A i \in ItemIds : Writes(t, i) => items'[i] # Missing,
         \A i \in ItemIds : items[i] # Missing => items'[i] # Missing,
         \A i \in ItemIds : items'[i] # items[i] => Stores(slots[r].todo, i) \/ Writes(slots[r].todo, i),
         shown \subseteq shown'
  PROVE  SlotsOK' /\ Claims'
<1>1. /\ DOMAIN slots' = Slots /\ slots'[r] = [todo |-> t] /\ slots'[r].todo = t
      /\ \A s \in Slots : s # r => slots'[s] = slots[s]
  BY DEF SlotsOK
<1>2. SlotsOK'
  <2>1. \A s \in Slots : slots'[s] = [todo |-> slots'[s].todo] /\ Shape(slots'[s].todo)
    BY <1>1 DEF SlotsOK
  <2> QED BY <1>1, <2>1 DEF SlotsOK
<1>3. Doing(r, "message")' <=> t # <<>> /\ Head(t).kind = "message"
  BY <1>1 DEF Doing, Busy, Idle, Call
<1>4. \A s \in Slots : s # r => (Doing(s, "message")' <=> Doing(s, "message"))
  BY <1>1 DEF Doing, Busy, Call
<1>5. ASSUME NEW s \in Slots, NEW i \in ItemIds, Stores(slots'[s].todo, i)
      PROVE  /\ items'[i] = Missing
             /\ i \in Pinnable => i \in shown' \/ Doing(s, "message")'
             /\ \A x \in Slots : Stores(slots'[x].todo, i) => x = s
  <2>1. CASE s = r
    BY <1>1, <1>3, <1>5, <2>1
  <2>2. CASE s # r
    <3>1. slots'[s] = slots[s] /\ Stores(slots[s].todo, i)
      BY <1>1, <1>5, <2>2
    <3>2. /\ items[i] = Missing
          /\ i \in Pinnable => i \in shown \/ Doing(s, "message")
          /\ \A x \in Slots : Stores(slots[x].todo, i) => x = s
      BY <3>1 DEF Claims
    <3>3. ~Stores(slots[r].todo, i) /\ ~Writes(slots[r].todo, i)
      BY <2>2, <3>2 DEF Claims
    <3>4. items'[i] = Missing
      BY <3>2, <3>3
    <3>5. ~Stores(t, i)
      BY <2>2, <3>1
    <3> QED BY <1>1, <1>4, <2>2, <3>2, <3>4, <3>5
  <2> QED BY <2>1, <2>2
<1>6. ASSUME NEW s \in Slots, NEW i \in ItemIds, Writes(slots'[s].todo, i)
      PROVE  items'[i] # Missing
  BY <1>1, <1>6 DEF Claims
<1>7. Claims'
  BY <1>5, <1>6 DEF Claims, Missing, Stores, Writes
<1> QED BY <1>2, <1>7

\* What a request has claimed, seen from its first call and from what is left
\* after it.
LEMMA Claimed ==
  ASSUME NEW t, Shape(t), t # <<>>, NEW i
  PROVE  /\ Shape(Tail(t))
         /\ Stores(t, i) => \/ Head(t).kind = "insert" /\ Head(t).id = i
                            \/ Head(t).kind = "message" /\ Head(t).show = i
         /\ Stores(Tail(t), i) => Stores(t, i) /\ Head(t).kind = "message" /\ Head(t).show = i
         /\ Writes(Tail(t), i) => Writes(t, i)
         /\ Head(t).kind = "insert" /\ Head(t).id = i => Stores(t, i)
         /\ Head(t).kind \in {"set", "drop"} /\ Head(t).id = i => Writes(t, i)
<1>1. PICK c : c = Head(t)
  OBVIOUS
<1>2. CASE t = <<c>> /\ Tail(t) = <<>> /\ Single(c)
  <2>1. Stores(t, i) <=> c.kind = "insert" /\ c.id = i
    BY <1>2, OneCall
  <2>2. Writes(t, i) <=> c.kind \in {"set", "drop"} /\ c.id = i
    BY <1>2, OneCall
  <2>3. Shape(Tail(t)) /\ ~Stores(Tail(t), i) /\ ~Writes(Tail(t), i)
    BY <1>2, NoCall
  <2> QED BY <1>1, <2>1, <2>2, <2>3
<1>3. ASSUME NEW d, t = <<c, d>>, Tail(t) = <<d>>, Double(c, d)
      PROVE  /\ Shape(Tail(t))
             /\ Stores(t, i) => (c.kind = "insert" /\ c.id = i) \/ (c.kind = "message" /\ c.show = i)
             /\ Stores(Tail(t), i) => Stores(t, i) /\ c.kind = "message" /\ c.show = i
             /\ Writes(Tail(t), i) => Writes(t, i)
             /\ c.kind = "insert" /\ c.id = i => Stores(t, i)
             /\ c.kind \in {"set", "drop"} /\ c.id = i => Writes(t, i)
  <2>1. Stores(t, i) <=> (c.kind = "insert" /\ c.id = i) \/ (d.kind = "insert" /\ d.id = i)
    BY <1>3, TwoClaims
  <2>2. Writes(t, i) <=> (c.kind \in {"set", "drop"} /\ c.id = i) \/ (d.kind \in {"set", "drop"} /\ d.id = i)
    BY <1>3, TwoClaims
  <2>3. Stores(Tail(t), i) <=> d.kind = "insert" /\ d.id = i
    BY <1>3, OneCall
  <2>4. Writes(Tail(t), i) <=> d.kind \in {"set", "drop"} /\ d.id = i
    BY <1>3, OneCall
  <2>5. d.kind = "insert" => c.kind = "message" /\ c.show = d.id
    BY <1>3 DEF Double
  <2>6. Single(d)
    BY <1>3 DEF Double, Single, ItemIds, Pinnable
  <2>7. Shape(Tail(t))
    BY <1>3, <2>6, SingleShape
  <2> QED BY <2>1, <2>2, <2>3, <2>4, <2>5, <2>7
<1> QED BY <1>1, <1>2, <1>3, Parts

\* An item nobody has taken is about to be stored by nobody.
LEMMA UntakenIsFree ==
  ASSUME SlotsOK, NEW i \in ItemIds, ~Taken(i)
  PROVE  items[i] = Missing /\ \A s \in Slots : ~Stores(slots[s].todo, i)
<1>1. items[i] = Missing /\ \A s \in Slots : i \notin Creating(s)
  BY DEF Taken
<1>2. SUFFICES ASSUME NEW s \in Slots, Stores(slots[s].todo, i) PROVE FALSE
  BY <1>1
<1>3. PICK t : t = slots[s].todo
  OBVIOUS
<1>4. t # <<>> /\ Shape(t)
  BY <1>2, <1>3, NoCall, SlotFacts
<1>5. i \notin Creating(s) /\ Call(s) = Head(t)
  BY <1>1, <1>3 DEF Call
<1>6. \/ Head(t).kind = "insert" /\ Head(t).id = i
      \/ Head(t).kind = "message" /\ Head(t).show = i
  BY <1>2, <1>3, <1>4, Claimed
<1>7. CASE Head(t).kind = "insert" /\ Head(t).id = i
  BY <1>3, <1>4, <1>5, <1>7, SlotFacts DEF Creating
<1>8. CASE Head(t).kind = "message" /\ Head(t).show = i
  <2>1. Doing(s, "message") /\ ~Doing(s, "insert")
    BY <1>3, <1>4, <1>8, SlotFacts
  <2> QED BY <1>5, <1>8, <2>1 DEF Creating
<1> QED BY <1>6, <1>7, <1>8

\* Nobody is told of anything, and no item changes.
LEMMA StartKeeps ==
  ASSUME ToolsInv, OnceInv, CalmInv, NEW r \in Slots, NEW t, Opening(t), Begin(r, t)
  PROVE  ToolsInv' /\ OnceInv' /\ CalmInv'
<1>1. /\ ~Busy(r) /\ slots' = [slots EXCEPT ![r] = [todo |-> t]]
      /\ calm' = (calm /\ \A x \in Slots : ~Busy(x))
      /\ UNCHANGED <<now, items, shown, pins, byHand, links, workers, faults, chosen, armed, announced, repeated>>
  BY DEF Begin, tables, log
<1>2. Shape(t) /\ t # <<>>
  BY DEF Opening
<1>3. SlotsOK /\ Claims /\ ItemsOK /\ BooksOK /\ WorkersOK
  BY DEF ToolsInv
<1>4. SlotsOK' /\ Claims'
  <2>1. \A i \in ItemIds : Stores(t, i) =>
          /\ items'[i] = Missing
          /\ i \in Pinnable => i \in shown' \/ (t # <<>> /\ Head(t).kind = "message")
          /\ \A s \in Slots : Stores(slots[s].todo, i) => s = r
    BY <1>1, <1>2, <1>3, UntakenIsFree DEF Opening
  <2>2. \A i \in ItemIds : Writes(t, i) => items'[i] # Missing
    BY <1>1 DEF Opening
  <2> QED BY <1>1, <1>2, <1>3, <2>1, <2>2, Onward
<1>5. ItemsOK' /\ BooksOK' /\ WorkersOK'
  <2>1. ItemsOK'
    BY <1>1, <1>3 DEF ItemsOK, IsLive
  <2>2. BooksOK'
    BY <1>1, <1>3 DEF BooksOK
  <2>3. WorkersOK'
    BY <1>1, <1>3 DEF WorkersOK
  <2> QED BY <2>1, <2>2, <2>3
<1>6. OnceInv'
  BY <1>1 DEF OnceInv, Notifying, Told, Ended, Past, Active, IsLive
<1>7. ASSUME calm' PROVE
        /\ OneAtATime'
        /\ \A i \in Pinnable : PinsAgree(i)'
        /\ \A p \in PollIds : VotesAgree(p)'
        /\ \A k, l \in ActiveLinks' : k = l
        /\ \A s \in Slots : Ready(slots[s].todo)'
  <2>1. calm /\ \A x \in Slots : slots[x].todo = <<>>
    BY <1>1, <1>3, <1>7, SlotFacts
  <2>2. \A i \in Pinnable : PinsAgree(i)
    BY <2>1 DEF CalmInv, Midway
  <2>3. \A p \in PollIds : VotesAgree(p)
    BY <2>1 DEF CalmInv
  <2>4. Ready(t)
    BY <2>2, <2>3 DEF Opening
  <2>5. \A s \in Slots : slots'[s].todo = IF s = r THEN t ELSE <<>>
    BY <1>1, <1>3, <2>1 DEF SlotsOK
  <2>6. ASSUME NEW s \in Slots PROVE Ready(slots[s].todo)'
    <3>1. PICK u : u = slots'[s].todo
      OBVIOUS
    <3>2. Ready(u)
      BY <2>4, <2>5, <3>1, NoCall
    <3> QED BY <1>1, <3>1, <3>2 DEF Ready, Midway, IsLive, SetsVotes, Selection, ActiveLinks
  <2>7. OneAtATime'
    <3>1. \A s \in Slots : s # r => slots'[s] = slots[s]
      BY <1>1, <1>3 DEF SlotsOK
    <3> QED BY <1>1, <1>7, <3>1 DEF OneAtATime, Busy
  <2>8. \A i \in Pinnable : PinsAgree(i)'
    BY <1>1, <2>2 DEF PinsAgree, IsLive
  <2>9. \A p \in PollIds : VotesAgree(p)'
    BY <1>1, <2>3 DEF VotesAgree, IsLive, Selection
  <2>10. \A k, l \in ActiveLinks' : k = l
    BY <1>1, <2>1 DEF CalmInv, ActiveLinks
  <2> QED BY <2>6, <2>7, <2>8, <2>9, <2>10
<1>8. CalmInv'
  BY <1>7 DEF CalmInv
<1> QED BY <1>4, <1>5, <1>6, <1>8 DEF ToolsInv

-----------------------------------------------------------------------------
(* A database call *)

\* What was announced stays over.
LEMMA OnceKept ==
  ASSUME OnceInv, UNCHANGED <<announced, repeated, workers>>,
         \A p \in PollIds : Ended(p) => Ended(p)',
         \A i \in ReminderIds, k \in Nat : Past(i, k) => Past(i, k)'
  PROVE  OnceInv'
<1>1. \A n : Told(n)' <=> Told(n)
  BY DEF Told, Notifying
<1>2. /\ repeated' = {} /\ announced' \subseteq Notices
      /\ \A w \in Workers : Notifying(w)' =>
           /\ workers'[w].about \notin announced'
           /\ \A v \in Workers : Notifying(v)' /\ workers'[v].about = workers'[w].about => v = w
  BY DEF OnceInv, Notifying
<1>3. \A p \in PollIds : Told(<<p, 0>>)' => Ended(p)'
  BY <1>1 DEF OnceInv
<1>4. \A i \in ReminderIds, k \in Nat : Told(<<i, k>>)' => Past(i, k)'
  BY <1>1 DEF OnceInv
<1> QED BY <1>2, <1>3, <1>4 DEF OnceInv

\* How the sole request gets from s to t.
Calmly(s, t) ==
  /\ calm
  /\ \A i \in Pinnable : PinsAgree(i) \/ Midway(s, i) => PinsAgree(i)' \/ Midway(t, i)'
  /\ \A p \in PollIds : VotesAgree(p)'
  /\ \A k, l \in ActiveLinks' : k = l
  /\ Ready(t)'

LEMMA Keeps ==
  ASSUME ToolsInv, OnceInv, CalmInv, NEW r \in Slots, Busy(r), NEW s, s = slots[r].todo,
         NEW t, Shape(t), slots' = [slots EXCEPT ![r] = [todo |-> t]],
         \A i \in ItemIds : Stores(t, i) => Stores(s, i) /\ items'[i] = Missing /\ (i \in Pinnable => i \in shown'),
         \A i \in ItemIds : Writes(t, i) => Writes(s, i),
         \A i \in ItemIds : items[i] # Missing => items'[i] # Missing,
         \A i \in ItemIds : items'[i] # items[i] => Stores(s, i) \/ Writes(s, i),
         shown \subseteq shown', ItemsOK', BooksOK', UNCHANGED <<workers, announced, repeated>>,
         \A p \in PollIds : Ended(p) => Ended(p)',
         \A i \in ReminderIds, k \in Nat : Past(i, k) => Past(i, k)',
         calm' => Calmly(s, t)
  PROVE  ToolsInv' /\ OnceInv' /\ CalmInv'
<1>1. SlotsOK /\ Claims /\ WorkersOK
  BY DEF ToolsInv
<1>2. SlotsOK' /\ Claims'
  <2>1. \A i \in ItemIds : Stores(t, i) =>
          /\ items'[i] = Missing
          /\ i \in Pinnable => i \in shown' \/ (t # <<>> /\ Head(t).kind = "message")
          /\ \A x \in Slots : Stores(slots[x].todo, i) => x = r
    BY <1>1 DEF Claims
  <2>2. \A i \in ItemIds : Writes(t, i) => items'[i] # Missing
    BY <1>1 DEF Claims
  <2> QED BY <1>1, <2>1, <2>2, Onward
<1>3. WorkersOK'
  BY <1>1 DEF WorkersOK
<1>4. OnceInv'
  BY OnceKept
<1>5. CalmInv'
  <2>1. SUFFICES ASSUME calm'
                 PROVE  /\ OneAtATime'
                        /\ \A i \in Pinnable : PinsAgree(i)' \/ \E x \in Slots : Midway(slots[x].todo, i)'
                        /\ \A p \in PollIds : VotesAgree(p)'
                        /\ \A k, l \in ActiveLinks' : k = l
                        /\ \A x \in Slots : Ready(slots[x].todo)'
    BY DEF CalmInv
  <2>2. Calmly(s, t) /\ calm
    BY <2>1 DEF Calmly
  <2>3. \A x \in Slots : x # r => ~Busy(x) /\ slots[x].todo = <<>>
    BY <1>1, <2>2, SlotFacts DEF CalmInv, OneAtATime
  <2>4. /\ \A x \in Slots : slots'[x].todo = IF x = r THEN t ELSE <<>>
        /\ \A x \in Slots : x # r => slots'[x] = slots[x]
    BY <1>1, <2>3 DEF SlotsOK
  <2>5. OneAtATime'
    BY <2>3, <2>4 DEF OneAtATime, Busy
  <2>6. ASSUME NEW i \in Pinnable PROVE PinsAgree(i)' \/ \E x \in Slots : Midway(slots[x].todo, i)'
    <3>1. PinsAgree(i) \/ Midway(s, i)
      BY <2>2, <2>3 DEF CalmInv, Midway
    <3>2. PinsAgree(i)' \/ Midway(t, i)'
      BY <2>2, <3>1 DEF Calmly
    <3>3. ASSUME Midway(t, i)' PROVE Midway(slots[r].todo, i)'
      <4>1. slots'[r].todo = t
        BY <2>4
      <4> QED BY <3>3, <4>1 DEF Midway
    <3> QED BY <3>2, <3>3
  <2>7. ASSUME NEW x \in Slots PROVE Ready(slots[x].todo)'
    <3>1. CASE x = r
      <4>1. slots'[x].todo = t
        BY <2>4, <3>1
      <4>2. Ready(t)'
        BY <2>2 DEF Calmly
      <4> QED BY <4>1, <4>2 DEF Ready, Midway
    <3>2. CASE x # r
      <4>1. slots'[x].todo = <<>>
        BY <2>4, <3>2
      <4> QED BY <4>1 DEF Ready
    <3> QED BY <3>1, <3>2
  <2> QED BY <2>2, <2>5, <2>6, <2>7 DEF Calmly
<1> QED BY <1>2, <1>3, <1>4, <1>5 DEF ToolsInv

\* What is known of a call that is made.
LEMMA Calling ==
  ASSUME ToolsInv, NEW r \in Slots, NEW kind, Doing(r, kind)
  PROVE  \E t : /\ t = slots[r].todo /\ t # <<>> /\ Shape(t) /\ Busy(r)
                /\ Head(t) = Call(r) /\ Head(t).kind = kind
                /\ Proceed(r, <<>>) => /\ slots' = [slots EXCEPT ![r] = [todo |-> Tail(t)]]
                                       /\ UNCHANGED <<now, workers, started, faults, calm>>
                /\ \A i : Stores(Tail(t), i) => Stores(t, i) /\ Head(t).kind = "message" /\ Head(t).show = i
                /\ \A i : Writes(Tail(t), i) => Writes(t, i)
                /\ Shape(Tail(t))
                /\ \/ t = <<Call(r)>> /\ Tail(t) = <<>> /\ Single(Call(r))
                   \/ \E d : t = <<Call(r), d>> /\ Tail(t) = <<d>> /\ Double(Call(r), d)
<1>1. PICK t : t = slots[r].todo
  OBVIOUS
<1>2. t # <<>> /\ Shape(t) /\ Busy(r) /\ Head(t) = Call(r) /\ Head(t).kind = kind
  BY <1>1, SlotFacts DEF ToolsInv, Call
<1>3. \/ t = <<Call(r)>> /\ Tail(t) = <<>> /\ Single(Call(r))
      \/ \E d : t = <<Call(r), d>> /\ Tail(t) = <<d>> /\ Double(Call(r), d)
  BY <1>2, Parts
<1>4. <<>> \o Tail(t) = Tail(t)
  BY <1>3, NoCall, OneCall
<1>5. Proceed(r, <<>>) => /\ slots' = [slots EXCEPT ![r] = [todo |-> Tail(t)]]
                          /\ UNCHANGED <<now, workers, started, faults, calm>>
  BY <1>1, <1>4 DEF Proceed, counters
<1>6. /\ Shape(Tail(t))
      /\ \A i : Stores(Tail(t), i) => Stores(t, i) /\ Head(t).kind = "message" /\ Head(t).show = i
      /\ \A i : Writes(Tail(t), i) => Writes(t, i)
  BY <1>2, Claimed
<1> QED BY <1>1, <1>2, <1>3, <1>5, <1>6

\* The message comes first: the item that is stored next is in the timeline.
LEMMA MessageKeeps ==
  ASSUME ToolsInv, OnceInv, CalmInv, NEW r \in Slots, WriteMessage(r)
  PROVE  ToolsInv' /\ OnceInv' /\ CalmInv'
<1>1. /\ Doing(r, "message") /\ Proceed(r, <<>>) /\ shown' = shown \cup {Call(r).show}
      /\ UNCHANGED <<items, pins, byHand, links, chosen, armed, announced, repeated>>
  BY DEF WriteMessage, log
<1>2. PICK t : /\ t = slots[r].todo /\ t # <<>> /\ Shape(t) /\ Busy(r)
               /\ Head(t) = Call(r) /\ Head(t).kind = "message"
               /\ Proceed(r, <<>>) => /\ slots' = [slots EXCEPT ![r] = [todo |-> Tail(t)]]
                                      /\ UNCHANGED <<now, workers, started, faults, calm>>
               /\ \A i : Stores(Tail(t), i) => Stores(t, i) /\ Head(t).kind = "message" /\ Head(t).show = i
               /\ \A i : Writes(Tail(t), i) => Writes(t, i)
               /\ Shape(Tail(t))
               /\ \/ t = <<Call(r)>> /\ Tail(t) = <<>> /\ Single(Call(r))
                  \/ \E d : t = <<Call(r), d>> /\ Tail(t) = <<d>> /\ Double(Call(r), d)
  BY <1>1, Calling
<1>3. PICK u : u = Tail(t)
  OBVIOUS
<1>4. ItemsOK /\ Claims /\ BooksOK
  BY DEF ToolsInv
<1>5. ItemsOK'
  BY <1>1, <1>4 DEF ItemsOK, IsLive
<1>6. BooksOK'
  BY <1>1, <1>4 DEF BooksOK
<1>7. \A i \in ItemIds : Stores(u, i) => Stores(t, i) /\ items'[i] = Missing /\ (i \in Pinnable => i \in shown')
  BY <1>1, <1>2, <1>3, <1>4 DEF Claims
<1>8. slots' = [slots EXCEPT ![r] = [todo |-> u]] /\ UNCHANGED <<now, workers, started, faults, calm>>
  BY <1>1, <1>2, <1>3
<1>9. \A p \in PollIds : Ended(p)' <=> Ended(p)
  BY <1>1 DEF Ended, Active, IsLive
<1>10. \A i \in ReminderIds, k \in Nat : Past(i, k)' <=> Past(i, k)
  BY <1>1 DEF Past, Active, IsLive
<1>11. Ready(u)'
  <2>1. u = <<>> \/ \E d : u = <<d>> /\ d.kind = "insert"
    BY <1>2, <1>3 DEF Single, Double, Setting
  <2>2. ASSUME NEW d, u = <<d>>, d.kind = "insert" PROVE Ready(u)'
    <3>1. Head(u) = d
      BY <2>2, OneCall
    <3> QED BY <2>2, <3>1 DEF Ready
  <2> QED BY <2>1, <2>2 DEF Ready
<1>12. calm' => Calmly(t, u)
  <2>1. SUFFICES ASSUME calm PROVE Calmly(t, u)
    BY <1>8
  <2>2. \A i : ~Midway(t, i)
    BY <1>2 DEF Midway
  <2>3. \A i \in Pinnable : PinsAgree(i)' <=> PinsAgree(i)
    BY <1>1 DEF PinsAgree, IsLive
  <2>4. \A p \in PollIds : VotesAgree(p)'
    BY <1>1, <2>1 DEF CalmInv, VotesAgree, IsLive, Selection
  <2>5. \A k, l \in ActiveLinks' : k = l
    BY <1>1, <2>1 DEF CalmInv, ActiveLinks
  <2> QED BY <1>11, <2>1, <2>2, <2>3, <2>4, <2>5 DEF Calmly
<1> QED BY <1>1, <1>2, <1>3, <1>5, <1>6, <1>7, <1>8, <1>9, <1>10, <1>12, Keeps

LEMMA InsertKeeps ==
  ASSUME ToolsInv, OnceInv, CalmInv, NEW r \in Slots, InsertItem(r)
  PROVE  ToolsInv' /\ OnceInv' /\ CalmInv'
<1>1. PICK c : c = Call(r)
  OBVIOUS
<1>2. /\ Doing(r, "insert") /\ Proceed(r, <<>>) /\ items' = [items EXCEPT ![c.id] = c.item]
      /\ armed' = IF c.id \in ReminderIds THEN [armed EXCEPT ![c.id] = @ + 1] ELSE armed
      /\ UNCHANGED <<shown, pins, byHand, links, chosen, announced, repeated>>
  BY <1>1 DEF InsertItem
<1>3. PICK t : /\ t = slots[r].todo /\ t # <<>> /\ Shape(t) /\ Busy(r)
               /\ Head(t) = c /\ c.kind = "insert"
               /\ slots' = [slots EXCEPT ![r] = [todo |-> Tail(t)]]
               /\ UNCHANGED <<now, workers, started, faults, calm>>
               /\ \/ t = <<c>> /\ Tail(t) = <<>> /\ Single(c)
                  \/ \E d : t = <<c, d>> /\ Tail(t) = <<d>> /\ Double(c, d)
  BY <1>1, <1>2, Calling
<1>4. t = <<c>> /\ Tail(t) = <<>> /\ c.id \in ItemIds /\ NewItem(c.id, c.item)
  BY <1>3 DEF Single, Double, Setting
<1>5. ItemsOK /\ Claims /\ BooksOK /\ SlotsOK
  BY DEF ToolsInv
<1>6. Stores(t, c.id)
  BY <1>3, <1>4, OneCall
<1>7. items[c.id] = Missing /\ (c.id \in Pinnable => c.id \in shown)
  <2>1. ~Doing(r, "message")
    BY <1>3, <1>5, SlotFacts
  <2> QED BY <1>3, <1>4, <1>5, <1>6, <2>1 DEF Claims
<1>8. items'[c.id] = c.item /\ c.item.state = "live" /\ \A i \in ItemIds : i # c.id => items'[i] = items[i]
  BY <1>2, <1>4, <1>5 DEF ItemsOK, NewItem
<1>9. items'[c.id] # Missing /\ ~IsLive(c.id)
  BY <1>7, <1>8 DEF Missing, IsLive
<1>10. ItemsOK'
  <2>1. DOMAIN items' = ItemIds
    BY <1>2, <1>5 DEF ItemsOK
  <2>2. \A i \in Pinnable : IsLive(i)' => {"status", "pinned"} \subseteq DOMAIN items'[i] /\ i \in shown'
    <3>1. SUFFICES ASSUME NEW i \in Pinnable, IsLive(i)'
                   PROVE  {"status", "pinned"} \subseteq DOMAIN items'[i] /\ i \in shown'
      OBVIOUS
    <3>2. CASE i = c.id
      BY <1>2, <1>4, <1>7, <1>8, <3>1, <3>2 DEF NewItem
    <3>3. CASE i # c.id
      <4>1. items'[i] = items[i]
        BY <1>8, <3>3 DEF Pinnable, ItemIds
      <4> QED BY <1>2, <1>5, <3>1, <4>1 DEF ItemsOK, IsLive
    <3> QED BY <3>2, <3>3
  <2>3. \A i \in ItemIds : IsLive(i)' => "state" \in DOMAIN items'[i]
    BY <1>4, <1>5, <1>8 DEF NewItem, ItemsOK, IsLive
  <2>4. \A p \in PollIds : IsLive(p)' => "votes" \in DOMAIN items'[p]
    <3>1. SUFFICES ASSUME NEW p \in PollIds, IsLive(p)' PROVE "votes" \in DOMAIN items'[p]
      OBVIOUS
    <3>2. CASE p = c.id
      BY <1>4, <1>8, <3>2 DEF NewItem
    <3>3. CASE p # c.id
      <4>1. items'[p] = items[p]
        BY <1>8, <3>3 DEF ItemIds
      <4> QED BY <1>5, <3>1, <4>1 DEF ItemsOK, IsLive
    <3> QED BY <3>2, <3>3
  <2> QED BY <2>1, <2>2, <2>3, <2>4 DEF ItemsOK
<1>11. BooksOK'
  <2>1. armed' \in [ReminderIds -> Nat]
    BY <1>2, <1>5 DEF BooksOK
  <2>2. \A p \in PollIds : items'[p] = Missing => \A u \in Members : chosen'[p][u] = {}
    BY <1>2, <1>5, <1>8, <1>9 DEF BooksOK, ItemIds
  <2> QED BY <1>2, <1>5, <2>1, <2>2 DEF BooksOK
<1>12. \A p \in PollIds : Ended(p) => Ended(p)'
  <2>1. \A p \in PollIds : Ended(p) => items'[p] = items[p]
    BY <1>7, <1>8 DEF Ended, ItemIds
  <2> QED BY <2>1 DEF Ended, Active, IsLive
<1>13. \A i \in ReminderIds, k \in Nat : Past(i, k) => Past(i, k)'
  <2>1. SUFFICES ASSUME NEW i \in ReminderIds, NEW k \in Nat, Past(i, k) PROVE Past(i, k)'
    OBVIOUS
  <2>2. armed[i] \in Nat
    BY <1>5 DEF BooksOK
  <2>3. CASE i = c.id
    <3>1. armed'[i] = armed[i] + 1
      BY <1>2, <1>5, <2>3 DEF BooksOK
    <3>2. k < armed'[i]
      BY <2>1, <2>2, <3>1 DEF Past
    <3> QED BY <3>2 DEF Past
  <2>4. CASE i # c.id
    <3>1. armed'[i] = armed[i] /\ items'[i] = items[i]
      BY <1>2, <1>5, <1>8, <2>4 DEF BooksOK, ItemIds
    <3> QED BY <2>1, <3>1 DEF Past, Active, IsLive
  <2> QED BY <2>3, <2>4
<1>14. PICK u : u = <<>>
  OBVIOUS
<1>15. calm' => Calmly(t, u)
  <2>1. SUFFICES ASSUME calm PROVE Calmly(t, u)
    BY <1>3
  <2>2. \A i : ~Midway(t, i)
    BY <1>3 DEF Midway
  <2>3. \A i \in Pinnable : PinsAgree(i) => PinsAgree(i)'
    <3>1. SUFFICES ASSUME NEW i \in Pinnable, PinsAgree(i) PROVE PinsAgree(i)'
      OBVIOUS
    <3>2. CASE i = c.id
      BY <1>2, <1>4, <1>8, <1>9, <3>1, <3>2 DEF PinsAgree, NewItem
    <3>3. CASE i # c.id
      <4>1. items'[i] = items[i]
        BY <1>8, <3>3 DEF Pinnable, ItemIds
      <4> QED BY <1>2, <3>1, <4>1 DEF PinsAgree, IsLive
    <3> QED BY <3>2, <3>3
  <2>4. \A p \in PollIds : VotesAgree(p)'
    <3>1. SUFFICES ASSUME NEW p \in PollIds PROVE VotesAgree(p)'
      OBVIOUS
    <3>2. CASE p = c.id
      <4>1. \A v \in Members : Selection(items'[p].votes, v) = {} /\ chosen'[p][v] = {}
        BY <1>2, <1>4, <1>5, <1>7, <1>8, <3>2 DEF NewItem, BooksOK
      <4> QED BY <4>1 DEF VotesAgree, Selection
    <3>3. CASE p # c.id
      <4>1. items'[p] = items[p]
        BY <1>8, <3>3 DEF ItemIds
      <4> QED BY <1>2, <2>1, <4>1 DEF CalmInv, VotesAgree, IsLive, Selection
    <3> QED BY <3>2, <3>3
  <2>5. \A k, l \in ActiveLinks' : k = l
    BY <1>2, <2>1 DEF CalmInv, ActiveLinks
  <2>6. Ready(u)'
    BY <1>14 DEF Ready
  <2> QED BY <2>1, <2>2, <2>3, <2>4, <2>5, <2>6 DEF Calmly
<1>16. \A i \in ItemIds : ~Stores(u, i) /\ ~Writes(u, i)
  BY <1>14, NoCall
<1>17. slots' = [slots EXCEPT ![r] = [todo |-> u]] /\ Shape(u)
  BY <1>3, <1>4, <1>14, NoCall
<1>18. \A i \in ItemIds : items[i] # Missing => items'[i] # Missing
  BY <1>8, <1>9
<1>19. \A i \in ItemIds : items'[i] # items[i] => Stores(t, i) \/ Writes(t, i)
  BY <1>6, <1>8
<1>20. \A i \in ItemIds : Stores(u, i) => Stores(t, i) /\ items'[i] = Missing /\ (i \in Pinnable => i \in shown')
  BY <1>16
<1>21. \A i \in ItemIds : Writes(u, i) => Writes(t, i)
  BY <1>16
<1>22. shown \subseteq shown' /\ UNCHANGED <<workers, announced, repeated>> /\ Shape(u) /\ Busy(r) /\ t = slots[r].todo
  BY <1>2, <1>3, <1>17
<1> QED BY <1>10, <1>11, <1>12, <1>13, <1>15, <1>17, <1>18, <1>19, <1>20, <1>21, <1>22, Keeps

\* The state of the item and, for a poll, its end are kept by the fields that are
\* written; a reminder that is set to go off again is counted.
LEMMA SetKeeps ==
  ASSUME ToolsInv, OnceInv, CalmInv, NEW r \in Slots, SetItem(r)
  PROVE  ToolsInv' /\ OnceInv' /\ CalmInv'
<1>1. PICK c, i : c = Call(r) /\ i = c.id
  OBVIOUS
<1>2. /\ Doing(r, "set") /\ Proceed(r, <<>>)
      /\ items' = [items EXCEPT ![i] = IF IsLive(i) THEN Merged(c.set, items[i]) ELSE [state |-> "part"]]
      /\ chosen' = IF "vote" \in DOMAIN c THEN [chosen EXCEPT ![i][c.vote.by] = c.vote.for] ELSE chosen
      /\ armed' = IF Arms(i, c.set) THEN [armed EXCEPT ![i] = @ + 1] ELSE armed
      /\ UNCHANGED <<shown, pins, byHand, links, announced, repeated>>
  BY <1>1 DEF SetItem
<1>3. PICK t : /\ t = slots[r].todo /\ t # <<>> /\ Shape(t) /\ Busy(r)
               /\ Head(t) = c /\ c.kind = "set"
               /\ slots' = [slots EXCEPT ![r] = [todo |-> Tail(t)]]
               /\ UNCHANGED <<now, workers, started, faults, calm>>
               /\ \/ t = <<c>> /\ Tail(t) = <<>> /\ Single(c)
                  \/ \E d : t = <<c, d>> /\ Tail(t) = <<d>> /\ Double(c, d)
  BY <1>1, <1>2, Calling
<1>4. PICK u : u = Tail(t)
  OBVIOUS
<1>5. \/ t = <<c>> /\ u = <<>> /\ Setting(c)
      \/ \E d : /\ u = <<d>> /\ i \in Pinnable /\ c.set = [pinned |-> d.pinned] /\ "vote" \notin DOMAIN c
                /\ d.kind = "pin" /\ d.id = i /\ d.pinned \in BOOLEAN
  BY <1>1, <1>3, <1>4 DEF Single, Double
<1>6. /\ i \in ItemIds /\ "state" \notin DOMAIN c.set
      /\ i \in PollIds /\ "status" \in DOMAIN c.set => c.set.status # "ACTIVE"
      /\ "vote" \in DOMAIN c => i \in PollIds /\ c.vote.by \in Members /\ "votes" \in DOMAIN c.set
  <2>1. CASE Setting(c)
    BY <1>1, <2>1 DEF Setting
  <2>2. ASSUME NEW d, i \in Pinnable, c.set = [pinned |-> d.pinned], "vote" \notin DOMAIN c
        PROVE  i \in ItemIds /\ DOMAIN c.set = {"pinned"} /\ "vote" \notin DOMAIN c
    BY <2>2 DEF Pinnable, ItemIds
  <2> QED BY <1>5, <2>1, <2>2
<1>7. ItemsOK /\ Claims /\ BooksOK /\ SlotsOK
  BY DEF ToolsInv
<1>8. Writes(t, i) /\ items[i] # Missing
  <2>1. Writes(t, i)
    BY <1>1, <1>3, Claimed
  <2> QED BY <1>3, <1>6, <1>7, <2>1 DEF Claims
<1>9. PICK x : x = items'[i]
  OBVIOUS
<1>10. /\ IsLive(i) => /\ x.state = "live" /\ DOMAIN x = DOMAIN items[i]
                       /\ \A f \in DOMAIN x : x[f] = IF f \in DOMAIN c.set THEN c.set[f] ELSE items[i][f]
       /\ ~IsLive(i) => x.state = "part"
       /\ \A j \in ItemIds : j # i => items'[j] = items[j]
  <2>1. x = IF IsLive(i) THEN Merged(c.set, items[i]) ELSE [state |-> "part"]
    BY <1>2, <1>6, <1>7, <1>9 DEF ItemsOK
  <2>2. \A j \in ItemIds : j # i => items'[j] = items[j]
    BY <1>2, <1>7 DEF ItemsOK
  <2>3. ASSUME IsLive(i)
        PROVE  /\ DOMAIN x = DOMAIN items[i]
               /\ \A f \in DOMAIN x : x[f] = IF f \in DOMAIN c.set THEN c.set[f] ELSE items[i][f]
    BY <2>1, <2>3 DEF Merged
  <2>4. ASSUME IsLive(i) PROVE x.state = "live"
    <3>1. items[i].state = "live" /\ "state" \in DOMAIN items[i]
      BY <1>6, <1>7, <2>4 DEF IsLive, ItemsOK
    <3> QED BY <1>6, <2>3, <2>4, <3>1
  <2> QED BY <2>1, <2>2, <2>3, <2>4
<1>11. /\ IsLive(i)' <=> IsLive(i)
       /\ items'[i] # Missing
       /\ \A j \in ItemIds : items[j] # Missing => items'[j] # Missing
       /\ \A j \in ItemIds : items'[j] = Missing => j # i /\ items[j] = Missing
  BY <1>8, <1>9, <1>10 DEF IsLive, Missing
<1>12. ItemsOK'
  <2>1. DOMAIN items' = ItemIds
    BY <1>2, <1>7 DEF ItemsOK
  <2>2. ASSUME NEW j \in ItemIds, IsLive(j)'
        PROVE  IsLive(j) /\ DOMAIN items'[j] = DOMAIN items[j]
    BY <1>9, <1>10, <1>11, <2>2 DEF IsLive
  <2> QED BY <1>2, <1>7, <2>1, <2>2 DEF ItemsOK, Pinnable, ItemIds
<1>13. BooksOK'
  <2>1. armed' \in [ReminderIds -> Nat]
    <3>1. armed \in [ReminderIds -> Nat]
      BY <1>7 DEF BooksOK
    <3>2. CASE Arms(i, c.set)
      BY <1>2, <3>1, <3>2 DEF Arms
    <3>3. CASE ~Arms(i, c.set)
      BY <1>2, <3>1, <3>3
    <3> QED BY <3>2, <3>3
  <2>2. /\ DOMAIN chosen' = PollIds
        /\ \A p \in PollIds : DOMAIN chosen'[p] = Members
        /\ \A p \in PollIds : p # i => chosen'[p] = chosen[p]
    BY <1>2, <1>6, <1>7 DEF BooksOK
  <2>3. \A p \in PollIds : items'[p] = Missing => \A v \in Members : chosen'[p][v] = {}
    BY <1>7, <1>11, <2>2 DEF BooksOK, ItemIds
  <2> QED BY <1>2, <1>7, <2>1, <2>2, <2>3 DEF BooksOK
<1>14. ASSUME NEW p \in PollIds, Ended(p) PROVE Ended(p)'
  <2>1. CASE p # i
    <3>1. items'[p] = items[p]
      BY <1>10, <2>1 DEF ItemIds
    <3> QED BY <1>14, <3>1 DEF Ended, Active, IsLive
  <2>2. CASE p = i /\ IsLive(i)
    <3>1. items[i].status # "ACTIVE" /\ "status" \in DOMAIN items[i]
      BY <1>7, <1>14, <2>2 DEF Ended, Active, ItemsOK, Pinnable
    <3>2. x.status # "ACTIVE"
      BY <1>6, <1>10, <2>2, <3>1
    <3> QED BY <1>9, <1>11, <2>2, <3>2 DEF Ended, Active
  <2>3. CASE p = i /\ ~IsLive(i)
    BY <1>11, <2>3 DEF Ended, Active
  <2> QED BY <2>1, <2>2, <2>3
<1>15. ASSUME NEW j \in ReminderIds, NEW k \in Nat, Past(j, k) PROVE Past(j, k)'
  <2>1. armed[j] \in Nat
    BY <1>7 DEF BooksOK
  <2>2. CASE j = i /\ Arms(i, c.set)
    <3>1. armed'[j] = armed[j] + 1
      BY <1>2, <1>7, <2>2 DEF BooksOK
    <3> QED BY <1>15, <2>1, <3>1 DEF Past
  <2>3. CASE j = i /\ ~Arms(i, c.set)
    <3>1. armed'[j] = armed[j] /\ "status" \notin DOMAIN c.set
      BY <1>2, <2>3 DEF Arms
    <3>2. ASSUME IsLive(i) PROVE x.status = items[i].status
      <4>1. "status" \in DOMAIN items[i]
        BY <1>7, <2>3, <3>2 DEF ItemsOK, Pinnable
      <4> QED BY <1>10, <3>1, <3>2, <4>1
    <3>3. Active(i)' => Active(i)
      BY <1>9, <1>11, <3>2 DEF Active
    <3> QED BY <1>15, <2>3, <3>1, <3>3 DEF Past
  <2>4. CASE j # i
    <3>1. armed'[j] = armed[j] /\ items'[j] = items[j]
      BY <1>2, <1>7, <1>10, <2>4 DEF BooksOK, ItemIds
    <3> QED BY <1>15, <3>1 DEF Past, Active, IsLive
  <2> QED BY <2>2, <2>3, <2>4
<1>16. calm' => Calmly(t, u)
  <2>1. SUFFICES ASSUME calm PROVE Calmly(t, u)
    BY <1>3
  <2>2. Ready(t)
    BY <1>3, <2>1 DEF CalmInv
  <2>3. IsLive(i) /\ (i \in PollIds /\ "votes" \in DOMAIN c.set => SetsVotes(c))
    BY <1>1, <1>3, <2>2 DEF Ready
  <2>4. \A j : ~Midway(t, j)
    BY <1>3 DEF Midway
  <2>5. ASSUME NEW j \in Pinnable, PinsAgree(j), j # i PROVE PinsAgree(j)'
    <3>1. items'[j] = items[j]
      BY <1>10, <2>5 DEF Pinnable, ItemIds
    <3> QED BY <1>2, <2>5, <3>1 DEF PinsAgree, IsLive
  <2>6. ASSUME i \in Pinnable, PinsAgree(i) PROVE PinsAgree(i)' \/ Midway(u, i)'
    <3>1. "pinned" \in DOMAIN items[i]
      BY <1>7, <2>3, <2>6 DEF ItemsOK
    <3>2. CASE Setting(c)
      <4>1. x.pinned = items[i].pinned
        BY <1>10, <2>3, <3>1, <3>2 DEF Setting
      <4> QED BY <1>2, <1>9, <1>11, <2>6, <4>1 DEF PinsAgree
    <3>3. ASSUME NEW d, u = <<d>>, c.set = [pinned |-> d.pinned], d.kind = "pin", d.id = i
          PROVE  Midway(u, i)'
      <4>1. "pinned" \in DOMAIN c.set /\ c.set.pinned = d.pinned
        BY <3>3
      <4>2. x.pinned = d.pinned
        BY <1>10, <2>3, <3>1, <4>1
      <4>3. Head(u) = d /\ Tail(u) = <<>> /\ u # <<>>
        BY <3>3, OneCall
      <4> QED BY <1>9, <1>11, <2>3, <3>3, <4>2, <4>3 DEF Midway
    <3> QED BY <1>5, <3>2, <3>3
  <2>7. ASSUME NEW p \in PollIds PROVE VotesAgree(p)'
    <3>1. VotesAgree(p)
      BY <2>1 DEF CalmInv
    <3>2. CASE p # i
      <4>1. items'[p] = items[p] /\ chosen'[p] = chosen[p]
        BY <1>2, <1>7, <1>10, <3>2 DEF BooksOK, ItemIds
      <4> QED BY <3>1, <4>1 DEF VotesAgree, IsLive, Selection
    <3>3. CASE p = i /\ "votes" \in DOMAIN c.set
      <4>1. x.votes = c.set.votes
        BY <1>7, <1>10, <2>3, <3>3 DEF ItemsOK
      <4>2. \A v \in Members : Selection(c.set.votes, v) = chosen'[i][v]
        BY <1>1, <1>2, <1>6, <1>7, <2>3, <3>3 DEF SetsVotes, BooksOK
      <4> QED BY <1>9, <3>3, <4>1, <4>2 DEF VotesAgree, Selection
    <3>4. CASE p = i /\ "votes" \notin DOMAIN c.set
      <4>1. chosen' = chosen
        BY <1>2, <1>6, <3>4
      <4>2. x.votes = items[i].votes
        BY <1>7, <1>10, <2>3, <3>4 DEF ItemsOK
      <4> QED BY <1>9, <2>3, <3>1, <3>4, <4>1, <4>2 DEF VotesAgree, Selection
    <3> QED BY <3>2, <3>3, <3>4
  <2>8. \A k, l \in ActiveLinks' : k = l
    BY <1>2, <2>1 DEF CalmInv, ActiveLinks
  <2>9. Ready(u)'
    <3>1. CASE u = <<>>
      BY <3>1 DEF Ready
    <3>2. ASSUME NEW d, u = <<d>>, i \in Pinnable, c.set = [pinned |-> d.pinned], d.kind = "pin", d.id = i
          PROVE  Ready(u)'
      <4>1. "pinned" \in DOMAIN c.set /\ c.set.pinned = d.pinned
        BY <3>2
      <4>2. "pinned" \in DOMAIN items[i]
        BY <1>7, <2>3, <3>2 DEF ItemsOK
      <4>3. x.pinned = d.pinned
        BY <1>10, <2>3, <4>1, <4>2
      <4>4. Head(u) = d /\ Tail(u) = <<>> /\ u # <<>>
        BY <3>2, OneCall
      <4> QED BY <1>9, <1>11, <2>3, <3>2, <4>3, <4>4 DEF Midway, Ready
    <3> QED BY <1>5, <3>1, <3>2
  <2>10. \A j \in Pinnable : PinsAgree(j) \/ Midway(t, j) => PinsAgree(j)' \/ Midway(u, j)'
    BY <2>4, <2>5, <2>6
  <2> QED BY <2>1, <2>7, <2>8, <2>9, <2>10 DEF Calmly
<1>17. Shape(u) /\ \A j \in ItemIds : ~Stores(u, j) /\ (Writes(u, j) => Writes(t, j))
  <2>1. Shape(u) /\ \A j : Writes(u, j) => Writes(t, j)
    BY <1>3, <1>4, Claimed
  <2>2. \A j \in ItemIds : ~Stores(u, j)
    BY <1>3, <1>4, Claimed
  <2> QED BY <2>1, <2>2
<1>18. slots' = [slots EXCEPT ![r] = [todo |-> u]]
  BY <1>3, <1>4
<1>19. \A j \in ItemIds : items'[j] # items[j] => Stores(t, j) \/ Writes(t, j)
  BY <1>8, <1>10
<1>20. \A j \in ItemIds : Stores(u, j) => Stores(t, j) /\ items'[j] = Missing /\ (j \in Pinnable => j \in shown')
  BY <1>17
<1>21. \A j \in ItemIds : Writes(u, j) => Writes(t, j)
  BY <1>17
<1>22. \A j \in ItemIds : items[j] # Missing => items'[j] # Missing
  BY <1>11
<1>23. \A p \in PollIds : Ended(p) => Ended(p)'
  BY <1>14
<1>24. \A j \in ReminderIds, k \in Nat : Past(j, k) => Past(j, k)'
  BY <1>15
<1>25. shown \subseteq shown' /\ UNCHANGED <<workers, announced, repeated>> /\ Shape(u) /\ Busy(r) /\ t = slots[r].todo
  BY <1>2, <1>3, <1>17
<1> QED BY <1>12, <1>13, <1>16, <1>18, <1>19, <1>20, <1>21, <1>22, <1>23, <1>24, <1>25, Keeps

\* A call that changes no item and stores none.
LEMMA LightCallKeeps ==
  ASSUME ToolsInv, OnceInv, CalmInv, NEW r \in Slots, Busy(r), NEW s, s = slots[r].todo,
         NEW t, Shape(t), slots' = [slots EXCEPT ![r] = [todo |-> t]],
         UNCHANGED <<items, shown, chosen, armed, announced, repeated, workers>>,
         DOMAIN links' = DOMAIN links,
         \A i \in ItemIds : ~Stores(t, i),
         \A i \in ItemIds : Writes(t, i) => Writes(s, i),
         calm' => Calmly(s, t)
  PROVE  ToolsInv' /\ OnceInv' /\ CalmInv'
<1>1. ItemsOK' /\ BooksOK'
  <2>1. ItemsOK /\ BooksOK
    BY DEF ToolsInv
  <2>2. ItemsOK'
    BY <2>1 DEF ItemsOK, IsLive
  <2>3. BooksOK'
    BY <2>1 DEF BooksOK
  <2> QED BY <2>2, <2>3
<1>2. \A p \in PollIds : Ended(p) => Ended(p)'
  BY DEF Ended, Active, IsLive
<1>3. \A i \in ReminderIds, k \in Nat : Past(i, k) => Past(i, k)'
  BY DEF Past, Active, IsLive
<1>4. \A i \in ItemIds : Stores(t, i) => Stores(s, i) /\ items'[i] = Missing /\ (i \in Pinnable => i \in shown')
  OBVIOUS
<1>5. /\ \A i \in ItemIds : items[i] # Missing => items'[i] # Missing
      /\ \A i \in ItemIds : items'[i] # items[i] => Stores(s, i) \/ Writes(s, i)
      /\ shown \subseteq shown' /\ UNCHANGED <<workers, announced, repeated>>
  OBVIOUS
<1> QED BY <1>1, <1>2, <1>3, <1>4, <1>5, Keeps

\* What is pinned, voted and linked before the step is what it is after it, but
\* for the pins of one item and the links.
LEMMA StaysCalm ==
  ASSUME CalmInv, calm, UNCHANGED <<items, chosen>>
  PROVE  \A p \in PollIds : VotesAgree(p)'
BY DEF CalmInv, VotesAgree, IsLive, Selection

\* The message is pinned as the item says; before a poll is dropped it is unpinned.
LEMMA PinKeeps ==
  ASSUME ToolsInv, OnceInv, CalmInv, NEW r \in Slots, PinItemMessage(r)
  PROVE  ToolsInv' /\ OnceInv' /\ CalmInv'
<1>1. PICK c, i : c = Call(r) /\ i = c.id
  OBVIOUS
<1>2. /\ Doing(r, "pin") /\ Proceed(r, <<>>)
      /\ pins' = IF c.pinned THEN pins \cup {i} ELSE pins \ {i}
      /\ byHand' = byHand \ {i}
      /\ UNCHANGED <<items, shown, links, chosen, armed, announced, repeated>>
  BY <1>1 DEF PinItemMessage, SetPinned, log
<1>3. PICK t : /\ t = slots[r].todo /\ t # <<>> /\ Shape(t) /\ Busy(r)
               /\ Head(t) = c /\ c.kind = "pin"
               /\ slots' = [slots EXCEPT ![r] = [todo |-> Tail(t)]]
               /\ UNCHANGED <<now, workers, started, faults, calm>>
               /\ Shape(Tail(t))
               /\ \A j : Stores(Tail(t), j) => Stores(t, j) /\ c.kind = "message" /\ c.show = j
               /\ \A j : Writes(Tail(t), j) => Writes(t, j)
               /\ \/ t = <<c>> /\ Tail(t) = <<>> /\ Single(c)
                  \/ \E d : t = <<c, d>> /\ Tail(t) = <<d>> /\ Double(c, d)
  BY <1>1, <1>2, Calling
<1>4. PICK u : u = Tail(t)
  OBVIOUS
<1>5. \/ u = <<>> /\ i \in Pinnable /\ c.pinned \in BOOLEAN
      \/ \E d : u = <<d>> /\ i \in PollIds /\ c.pinned = FALSE /\ d.kind = "drop" /\ d.id = i
  BY <1>1, <1>3, <1>4 DEF Single, Double, Setting
<1>6. i \in Pinnable
  BY <1>5 DEF Pinnable
<1>7. calm' => Calmly(t, u)
  <2>1. SUFFICES ASSUME calm PROVE Calmly(t, u)
    BY <1>3
  <2>2. Ready(t)
    BY <1>3, <2>1 DEF CalmInv
  <2>3. \A j : Midway(t, j) => j = i /\ u = <<>>
    BY <1>1, <1>3, <1>4 DEF Midway
  <2>4. ASSUME NEW j \in Pinnable, PinsAgree(j), j # i PROVE PinsAgree(j)'
    BY <1>2, <2>4 DEF PinsAgree, IsLive
  <2>5. ASSUME u = <<>> PROVE PinsAgree(i)'
    <3>1. Midway(t, i)
      BY <1>1, <1>3, <1>4, <1>6, <2>2, <2>5 DEF Ready
    <3>2. IsLive(i) /\ items[i].pinned = c.pinned
      BY <1>3, <3>1 DEF Midway
    <3>3. c.pinned \in BOOLEAN
      BY <1>5
    <3>4. CASE c.pinned
      BY <1>2, <3>2, <3>4 DEF PinsAgree, IsLive
    <3>5. CASE ~c.pinned
      BY <1>2, <3>2, <3>5 DEF PinsAgree, IsLive
    <3> QED BY <3>3, <3>4, <3>5
  <2>6. ASSUME NEW d, u = <<d>>, c.pinned = FALSE, d.kind = "drop", d.id = i PROVE Midway(u, i)'
    <3>1. Head(u) = d /\ Tail(u) = <<>> /\ u # <<>>
      BY <2>6, OneCall
    <3>2. i \notin pins'
      BY <1>2, <2>6
    <3> QED BY <2>6, <3>1, <3>2 DEF Midway
  <2>7. \A j \in Pinnable : PinsAgree(j) \/ Midway(t, j) => PinsAgree(j)' \/ Midway(u, j)'
    BY <1>5, <2>3, <2>4, <2>5, <2>6
  <2>8. Ready(u)'
    <3>1. CASE u = <<>>
      BY <3>1 DEF Ready
    <3>2. ASSUME NEW d, u = <<d>>, c.pinned = FALSE, d.kind = "drop", d.id = i PROVE Ready(u)'
      <4>1. Head(u) = d
        BY <3>2, OneCall
      <4>2. Midway(u, i)'
        BY <2>6, <3>2
      <4> QED BY <3>2, <4>1, <4>2 DEF Ready
    <3> QED BY <1>5, <3>1, <3>2
  <2>9. \A p \in PollIds : VotesAgree(p)'
    BY <1>2, <2>1, StaysCalm
  <2>10. \A k, l \in ActiveLinks' : k = l
    BY <1>2, <2>1 DEF CalmInv, ActiveLinks
  <2> QED BY <2>1, <2>7, <2>8, <2>9, <2>10 DEF Calmly
<1>8. Shape(u) /\ slots' = [slots EXCEPT ![r] = [todo |-> u]]
  BY <1>3, <1>4
<1>9. \A j \in ItemIds : ~Stores(u, j)
  BY <1>3, <1>4
<1>10. \A j \in ItemIds : Writes(u, j) => Writes(t, j)
  BY <1>3, <1>4
<1>11. DOMAIN links' = DOMAIN links /\ UNCHANGED <<items, shown, chosen, armed, announced, repeated, workers>>
  BY <1>2, <1>3
<1> QED BY <1>3, <1>7, <1>8, <1>9, <1>10, <1>11, LightCallKeeps

\* A message that is pinned or unpinned as any other is left out of account.
LEMMA PinAnyKeeps ==
  ASSUME ToolsInv, OnceInv, CalmInv, NEW r \in Slots, PinAnyMessage(r)
  PROVE  ToolsInv' /\ OnceInv' /\ CalmInv'
<1>1. PICK c, i : c = Call(r) /\ i = c.id
  OBVIOUS
<1>2. /\ Doing(r, "pinAny") /\ Proceed(r, <<>>)
      /\ \A j : j # i => (j \in pins' <=> j \in pins) /\ (j \in byHand' <=> j \in byHand)
      /\ i \in byHand'
      /\ UNCHANGED <<items, shown, links, chosen, armed, announced, repeated>>
  BY <1>1 DEF PinAnyMessage, SetPinned, log
<1>3. PICK t : /\ t = slots[r].todo /\ t # <<>> /\ Shape(t) /\ Busy(r)
               /\ Head(t) = c /\ c.kind = "pinAny"
               /\ slots' = [slots EXCEPT ![r] = [todo |-> Tail(t)]]
               /\ UNCHANGED <<now, workers, started, faults, calm>>
               /\ \/ t = <<c>> /\ Tail(t) = <<>> /\ Single(c)
                  \/ \E d : t = <<c, d>> /\ Tail(t) = <<d>> /\ Double(c, d)
  BY <1>1, <1>2, Calling
<1>4. PICK u : u = <<>>
  OBVIOUS
<1>5. Tail(t) = u
  BY <1>3, <1>4 DEF Double
<1>6. calm' => Calmly(t, u)
  <2>1. SUFFICES ASSUME calm PROVE Calmly(t, u)
    BY <1>3
  <2>2. \A j : ~Midway(t, j)
    BY <1>3 DEF Midway
  <2>3. \A j \in Pinnable : PinsAgree(j) => PinsAgree(j)'
    BY <1>2 DEF PinsAgree, IsLive
  <2>4. \A p \in PollIds : VotesAgree(p)'
    BY <1>2, <2>1, StaysCalm
  <2>5. \A k, l \in ActiveLinks' : k = l
    BY <1>2, <2>1 DEF CalmInv, ActiveLinks
  <2>6. Ready(u)'
    BY <1>4 DEF Ready
  <2> QED BY <2>1, <2>2, <2>3, <2>4, <2>5, <2>6 DEF Calmly
<1>7. Shape(u) /\ \A j \in ItemIds : ~Stores(u, j) /\ ~Writes(u, j)
  BY <1>4, NoCall
<1>8. slots' = [slots EXCEPT ![r] = [todo |-> u]]
  BY <1>3, <1>5
<1>9. DOMAIN links' = DOMAIN links /\ UNCHANGED <<items, shown, chosen, armed, announced, repeated, workers>>
  BY <1>2, <1>3
<1> QED BY <1>3, <1>6, <1>7, <1>8, <1>9, LightCallKeeps

\* What is gone is not pinned by the tools: the message of a poll was unpinned before.
LEMMA DropKeeps ==
  ASSUME ToolsInv, OnceInv, CalmInv, NEW r \in Slots, DropItem(r)
  PROVE  ToolsInv' /\ OnceInv' /\ CalmInv'
<1>1. PICK c, i : c = Call(r) /\ i = c.id
  OBVIOUS
<1>2. /\ Doing(r, "drop") /\ Proceed(r, <<>>)
      /\ items' = [items EXCEPT ![i] = [state |-> "gone"]]
      /\ UNCHANGED <<shown, pins, byHand, links, chosen, armed, announced, repeated>>
  BY <1>1 DEF DropItem, log
<1>3. PICK t : /\ t = slots[r].todo /\ t # <<>> /\ Shape(t) /\ Busy(r)
               /\ Head(t) = c /\ c.kind = "drop"
               /\ slots' = [slots EXCEPT ![r] = [todo |-> Tail(t)]]
               /\ UNCHANGED <<now, workers, started, faults, calm>>
               /\ \/ t = <<c>> /\ Tail(t) = <<>> /\ Single(c)
                  \/ \E d : t = <<c, d>> /\ Tail(t) = <<d>> /\ Double(c, d)
  BY <1>1, <1>2, Calling
<1>4. t = <<c>> /\ Tail(t) = <<>> /\ i \in ItemIds
  BY <1>1, <1>3 DEF Single, Double, Setting
<1>5. ItemsOK /\ Claims /\ BooksOK /\ SlotsOK
  BY DEF ToolsInv
<1>6. Writes(t, i) /\ items[i] # Missing
  <2>1. Writes(t, i)
    BY <1>1, <1>3, Claimed
  <2> QED BY <1>3, <1>4, <1>5, <2>1 DEF Claims
<1>7. /\ items'[i].state = "gone" /\ items'[i] # Missing /\ ~IsLive(i)'
      /\ \A j \in ItemIds : j # i => items'[j] = items[j]
  BY <1>2, <1>4, <1>5 DEF ItemsOK, Missing, IsLive
<1>8. ItemsOK'
  <2>1. DOMAIN items' = ItemIds
    BY <1>2, <1>5 DEF ItemsOK
  <2>2. ASSUME NEW j \in ItemIds, IsLive(j)' PROVE IsLive(j) /\ items'[j] = items[j]
    BY <1>7, <2>2 DEF IsLive
  <2> QED BY <1>2, <1>5, <2>1, <2>2 DEF ItemsOK, Pinnable, ItemIds
<1>9. BooksOK'
  <2>1. \A p \in PollIds : items'[p] = Missing => items[p] = Missing
    BY <1>7 DEF ItemIds
  <2> QED BY <1>2, <1>5, <2>1 DEF BooksOK
<1>10. ASSUME NEW j \in ItemIds PROVE Active(j)' => Active(j)
  BY <1>7 DEF Active, IsLive
<1>11. \A p \in PollIds : Ended(p) => Ended(p)'
  BY <1>7, <1>10 DEF Ended, ItemIds
<1>12. \A j \in ReminderIds, k \in Nat : Past(j, k) => Past(j, k)'
  BY <1>2, <1>10 DEF Past, ItemIds
<1>13. PICK u : u = <<>>
  OBVIOUS
<1>14. calm' => Calmly(t, u)
  <2>1. SUFFICES ASSUME calm PROVE Calmly(t, u)
    BY <1>3
  <2>2. Ready(t)
    BY <1>3, <2>1 DEF CalmInv
  <2>3. \A j \in Pinnable : Midway(t, j) => j = i
    BY <1>1, <1>3 DEF Midway
  <2>4. ASSUME i \in Pinnable PROVE PinsAgree(i)'
    <3>1. Midway(t, i)
      BY <1>1, <1>3, <1>4, <2>2, <2>4 DEF Ready
    <3>2. i \in byHand \/ i \notin pins
      BY <1>3, <3>1 DEF Midway
    <3> QED BY <1>2, <1>7, <3>2 DEF PinsAgree
  <2>5. ASSUME NEW j \in Pinnable, PinsAgree(j), j # i PROVE PinsAgree(j)'
    <3>1. items'[j] = items[j]
      BY <1>7, <2>5 DEF Pinnable, ItemIds
    <3> QED BY <1>2, <2>5, <3>1 DEF PinsAgree, IsLive
  <2>6. \A j \in Pinnable : PinsAgree(j) \/ Midway(t, j) => PinsAgree(j)' \/ Midway(u, j)'
    BY <2>3, <2>4, <2>5
  <2>7. ASSUME NEW p \in PollIds PROVE VotesAgree(p)'
    <3>1. VotesAgree(p)
      BY <2>1 DEF CalmInv
    <3>2. IsLive(p)' => items'[p] = items[p]
      BY <1>7 DEF ItemIds
    <3> QED BY <1>2, <3>1, <3>2 DEF VotesAgree, IsLive, Selection
  <2>8. \A k, l \in ActiveLinks' : k = l
    BY <1>2, <2>1 DEF CalmInv, ActiveLinks
  <2>9. Ready(u)'
    BY <1>13 DEF Ready
  <2> QED BY <2>1, <2>6, <2>7, <2>8, <2>9 DEF Calmly
<1>15. Shape(u) /\ \A j \in ItemIds : ~Stores(u, j) /\ ~Writes(u, j)
  BY <1>13, NoCall
<1>16. slots' = [slots EXCEPT ![r] = [todo |-> u]]
  BY <1>3, <1>4, <1>13
<1>17. \A j \in ItemIds : items[j] # Missing => items'[j] # Missing
  BY <1>7
<1>18. \A j \in ItemIds : items'[j] # items[j] => Stores(t, j) \/ Writes(t, j)
  BY <1>6, <1>7
<1>19. \A j \in ItemIds : Stores(u, j) => Stores(t, j) /\ items'[j] = Missing /\ (j \in Pinnable => j \in shown')
  BY <1>15
<1>20. \A j \in ItemIds : Writes(u, j) => Writes(t, j)
  BY <1>15
<1>21. shown \subseteq shown' /\ UNCHANGED <<workers, announced, repeated>> /\ Shape(u) /\ Busy(r) /\ t = slots[r].todo
  BY <1>2, <1>3, <1>15
<1> QED BY <1>8, <1>9, <1>11, <1>12, <1>14, <1>16, <1>17, <1>18, <1>19, <1>20, <1>21, Keeps

-----------------------------------------------------------------------------
(* The calls of the invite link *)

\* A call that changes no item and no pin, and that is not about one.
LEMMA LinkCallKeeps ==
  ASSUME ToolsInv, OnceInv, CalmInv, NEW r \in Slots, Busy(r), NEW s, s = slots[r].todo, s # <<>>,
         Head(s).kind \notin {"pin", "drop"},
         NEW t, Shape(t), slots' = [slots EXCEPT ![r] = [todo |-> t]],
         UNCHANGED <<items, shown, pins, byHand, chosen, armed, announced, repeated, workers>>,
         DOMAIN links' = DOMAIN links,
         \A i : ~Stores(t, i) /\ ~Writes(t, i),
         calm' => calm /\ (\A k, l \in ActiveLinks' : k = l) /\ Ready(t)'
  PROVE  ToolsInv' /\ OnceInv' /\ CalmInv'
<1>1. calm' => Calmly(s, t)
  <2>1. SUFFICES ASSUME calm' PROVE Calmly(s, t)
    OBVIOUS
  <2>2. \A i \in Pinnable : PinsAgree(i) \/ Midway(s, i) => PinsAgree(i)'
    BY DEF Midway, PinsAgree, IsLive
  <2>3. \A p \in PollIds : VotesAgree(p)'
    BY <2>1, StaysCalm
  <2> QED BY <2>1, <2>2, <2>3 DEF Calmly
<1>2. \A i \in ItemIds : ~Stores(t, i)
  OBVIOUS
<1>3. \A i \in ItemIds : Writes(t, i) => Writes(s, i)
  OBVIOUS
<1> QED BY <1>1, <1>2, <1>3, LightCallKeeps

\* Any call may throw: the request is over.
LEMMA FailKeeps ==
  ASSUME ToolsInv, OnceInv, CalmInv, NEW r \in Slots, CallFails(r)
  PROVE  ToolsInv' /\ OnceInv' /\ CalmInv'
<1>1. /\ Busy(r) /\ slots' = [slots EXCEPT ![r] = Idle] /\ ~calm'
      /\ UNCHANGED <<items, shown, pins, byHand, links, chosen, armed, announced, repeated, workers>>
  BY DEF CallFails, Throw, tables, log
<1>2. PICK s, t : s = slots[r].todo /\ t = <<>>
  OBVIOUS
<1>3. slots' = [slots EXCEPT ![r] = [todo |-> t]] /\ Shape(t)
  BY <1>1, <1>2, NoCall DEF Idle
<1>4. \A i \in ItemIds : ~Stores(t, i)
  BY <1>2, NoCall
<1>5. \A i \in ItemIds : Writes(t, i) => Writes(s, i)
  BY <1>2, NoCall
<1>6. DOMAIN links' = DOMAIN links /\ UNCHANGED <<items, shown, chosen, armed, announced, repeated, workers>>
  BY <1>1
<1> QED BY <1>1, <1>2, <1>3, <1>4, <1>5, <1>6, LightCallKeeps

\* What a request for the link goes on with: a link is made when there is none,
\* and the one that is replaced is the only one.
LEMMA LinkPlans ==
  ASSUME CalmInv, NEW u,
         \/ u = <<>>
         \/ u = NewLink /\ ActiveLinks = {}
         \/ \E k \in ActiveLinks : u = <<[kind |-> "revokeLink", token |-> k]>> \/ u = RevokeAndMake(k)
  PROVE  Shape(u) /\ (\A i : ~Stores(u, i) /\ ~Writes(u, i)) /\ u \o <<>> = u /\ (calm => Ready(u))
<1>1. CASE u = <<>>
  BY <1>1, NoCall
<1>2. PICK d : d = [kind |-> "newLink"]
  OBVIOUS
<1>3. d.kind = "newLink" /\ NewLink = <<d>>
  BY <1>2 DEF NewLink
<1>4. CASE u = NewLink /\ ActiveLinks = {}
  <2>1. Shape(<<d>>)
    BY <1>3, SingleShape DEF Single
  <2>2. Ready(<<d>>)
    BY <1>3, <1>4, OneCall DEF Ready
  <2>3. \A i : ~Stores(<<d>>, i) /\ ~Writes(<<d>>, i)
    BY <1>3, OneCall
  <2>4. <<d>> \o <<>> = <<d>>
    BY OneCall
  <2> QED BY <1>3, <1>4, <2>1, <2>2, <2>3, <2>4
<1>5. ASSUME NEW k \in ActiveLinks, u = <<[kind |-> "revokeLink", token |-> k]>> \/ u = RevokeAndMake(k)
      PROVE  Shape(u) /\ (\A i : ~Stores(u, i) /\ ~Writes(u, i)) /\ u \o <<>> = u /\ (calm => Ready(u))
  <2>1. PICK c : c = [kind |-> "revokeLink", token |-> k]
    OBVIOUS
  <2>2. c.kind = "revokeLink" /\ c.token = k
    BY <2>1
  <2>3. calm => ActiveLinks \subseteq {k}
    BY DEF CalmInv
  <2>4. CASE u = <<c>>
    <3>1. Shape(<<c>>)
      BY <2>2, SingleShape DEF Single
    <3>2. Ready(<<c>>)
      BY <2>2, OneCall DEF Ready
    <3>3. \A i : ~Stores(<<c>>, i) /\ ~Writes(<<c>>, i)
      BY <2>2, OneCall
    <3>4. <<c>> \o <<>> = <<c>>
      BY OneCall
    <3> QED BY <2>4, <3>1, <3>2, <3>3, <3>4
  <2>5. CASE u = RevokeAndMake(k)
    <3>1. <<c>> \o <<d>> = <<c, d>>
      BY TwoCalls
    <3>2. u = <<c, d>>
      BY <1>3, <2>1, <2>5, <3>1 DEF RevokeAndMake
    <3>3. Shape(<<c, d>>)
      BY <1>3, <2>2, DoubleShape DEF Double
    <3>4. Head(<<c, d>>) = c
      BY TwoCalls
    <3>5. calm => Ready(<<c, d>>)
      BY <2>2, <2>3, <3>4 DEF Ready
    <3>6. \A i : ~Stores(<<c, d>>, i) /\ ~Writes(<<c, d>>, i)
      BY <1>3, <2>2, TwoClaims
    <3>7. <<c, d>> \o <<>> = <<c, d>>
      BY TwoCalls
    <3> QED BY <3>2, <3>3, <3>5, <3>6, <3>7
  <2> QED BY <1>5, <2>1, <2>4, <2>5
<1> QED BY <1>1, <1>4, <1>5

LEMMA FindKeeps ==
  ASSUME ToolsInv, OnceInv, CalmInv, NEW r \in Slots, FindLink(r)
  PROVE  ToolsInv' /\ OnceInv' /\ CalmInv'
<1>1. PICK c : c = Call(r)
  OBVIOUS
<1>2. Doing(r, "findLink") /\ UNCHANGED <<items, shown, pins, byHand, links, chosen, armed, announced, repeated>>
  BY DEF FindLink, tables, log
<1>3. PICK t : /\ t = slots[r].todo /\ t # <<>> /\ Shape(t) /\ Busy(r)
               /\ Head(t) = c /\ c.kind = "findLink"
               /\ \/ t = <<c>> /\ Tail(t) = <<>> /\ Single(c)
                  \/ \E d : t = <<c, d>> /\ Tail(t) = <<d>> /\ Double(c, d)
  BY <1>1, <1>2, Calling
<1>4. t = <<c>> /\ Tail(t) = <<>> /\ c.then \in {"get", "regenerate", "revoke"}
  BY <1>3 DEF Single, Double, Setting
<1>5. PICK u : /\ Proceed(r, u)
               /\ \/ u = <<>>
                  \/ u = NewLink /\ ActiveLinks = {}
                  \/ \E k \in ActiveLinks : u = <<[kind |-> "revokeLink", token |-> k]>> \/ u = RevokeAndMake(k)
  <2>1. CASE ActiveLinks = {}
    <3>1. Proceed(r, IF c.then = "revoke" THEN <<>> ELSE NewLink)
      BY <1>1, <2>1 DEF FindLink
    <3> QED BY <2>1, <3>1
  <2>2. CASE ActiveLinks # {}
    <3>1. PICK k \in ActiveLinks :
            Proceed(r, CASE c.then = "get" -> <<>>
                         [] c.then = "regenerate" -> RevokeAndMake(k)
                         [] c.then = "revoke" -> <<[kind |-> "revokeLink", token |-> k]>>)
      BY <1>1, <2>2 DEF FindLink
    <3>2. CASE c.then = "get"
      BY <3>1, <3>2
    <3>3. CASE c.then = "regenerate"
      BY <3>1, <3>3
    <3>4. CASE c.then = "revoke"
      BY <3>1, <3>4
    <3> QED BY <1>4, <3>2, <3>3, <3>4
  <2> QED BY <2>1, <2>2
<1>6. Shape(u) /\ (\A i : ~Stores(u, i) /\ ~Writes(u, i)) /\ u \o <<>> = u /\ (calm => Ready(u))
  BY <1>5, LinkPlans
<1>7. slots' = [slots EXCEPT ![r] = [todo |-> u]] /\ UNCHANGED <<workers, calm>>
  BY <1>3, <1>4, <1>5, <1>6 DEF Proceed, counters
<1>8. calm' => calm /\ (\A k, l \in ActiveLinks' : k = l) /\ Ready(u)'
  <2>1. SUFFICES ASSUME calm PROVE (\A k, l \in ActiveLinks' : k = l) /\ Ready(u)'
    BY <1>7
  <2>2. Ready(u)'
    BY <1>2, <1>6, <2>1 DEF Ready, Midway, IsLive, SetsVotes, Selection, ActiveLinks
  <2> QED BY <1>2, <2>1, <2>2 DEF CalmInv, ActiveLinks
<1>9. Head(t).kind \notin {"pin", "drop"} /\ DOMAIN links' = DOMAIN links
  BY <1>2, <1>3
<1> QED BY <1>2, <1>3, <1>6, <1>7, <1>8, <1>9, LinkCallKeeps

\* A link that has been revoked by another request fails the request.
LEMMA RevokeKeeps ==
  ASSUME ToolsInv, OnceInv, CalmInv, NEW r \in Slots, RevokeLink(r)
  PROVE  ToolsInv' /\ OnceInv' /\ CalmInv'
<1>1. PICK c, k : c = Call(r) /\ k = c.token
  OBVIOUS
<1>2. /\ Doing(r, "revokeLink") /\ UNCHANGED <<items, shown, pins, byHand, chosen, armed, announced, repeated>>
      /\ IF links[k] = "active"
           THEN links' = [links EXCEPT ![k] = "revoked"] /\ Proceed(r, <<>>)
           ELSE UNCHANGED <<links, faults>> /\ Throw(r)
  BY <1>1 DEF RevokeLink, log
<1>3. PICK t : /\ t = slots[r].todo /\ t # <<>> /\ Shape(t) /\ Busy(r)
               /\ Head(t) = c /\ c.kind = "revokeLink"
               /\ Proceed(r, <<>>) => /\ slots' = [slots EXCEPT ![r] = [todo |-> Tail(t)]]
                                      /\ UNCHANGED <<now, workers, started, faults, calm>>
               /\ Shape(Tail(t))
               /\ \/ t = <<c>> /\ Tail(t) = <<>> /\ Single(c)
                  \/ \E d : t = <<c, d>> /\ Tail(t) = <<d>> /\ Double(c, d)
  BY <1>1, <1>2, Calling
<1>4. DOMAIN links = Tokens
  BY DEF ToolsInv, BooksOK
<1>5. Head(t).kind \notin {"pin", "drop"}
  BY <1>3
<1>6. CASE links[k] = "active"
  <2>1. PICK u : u = Tail(t)
    OBVIOUS
  <2>2. links' = [links EXCEPT ![k] = "revoked"] /\ Proceed(r, <<>>)
    BY <1>2, <1>6
  <2>3. slots' = [slots EXCEPT ![r] = [todo |-> u]] /\ UNCHANGED <<workers, calm>> /\ Shape(u)
    BY <1>3, <2>1, <2>2
  <2>4. DOMAIN links' = DOMAIN links /\ ActiveLinks' \subseteq ActiveLinks \ {k}
    BY <1>4, <2>2 DEF ActiveLinks
  <2>5. u = <<>> \/ \E d : u = <<d>> /\ d.kind = "newLink"
    BY <1>3, <2>1 DEF Double
  <2>6. \A i : ~Stores(u, i) /\ ~Writes(u, i)
    <3>1. CASE u = <<>>
      BY <3>1, NoCall
    <3>2. ASSUME NEW d, u = <<d>>, d.kind = "newLink" PROVE \A i : ~Stores(u, i) /\ ~Writes(u, i)
      BY <3>2, OneCall
    <3> QED BY <2>5, <3>1, <3>2
  <2>7. calm' => calm /\ (\A x, y \in ActiveLinks' : x = y) /\ Ready(u)'
    <3>1. SUFFICES ASSUME calm PROVE (\A x, y \in ActiveLinks' : x = y) /\ Ready(u)'
      BY <2>3
    <3>2. Ready(t) /\ \A x, y \in ActiveLinks : x = y
      BY <1>3, <3>1 DEF CalmInv
    <3>3. CASE u = <<>>
      BY <2>4, <3>2, <3>3 DEF Ready
    <3>4. ASSUME NEW d, u = <<d>>, d.kind = "newLink" PROVE Ready(u)'
      <4>1. Head(u) = d /\ u # <<>>
        BY <3>4, OneCall
      <4>2. ActiveLinks \subseteq {k}
        BY <1>1, <1>3, <2>1, <3>2, <4>1 DEF Ready
      <4>3. ActiveLinks' = {}
        BY <2>4, <4>2
      <4> QED BY <3>4, <4>1, <4>3 DEF Ready
    <3> QED BY <2>4, <2>5, <3>2, <3>3, <3>4
  <2> QED BY <1>2, <1>3, <1>5, <2>3, <2>4, <2>6, <2>7, LinkCallKeeps
<1>7. CASE links[k] # "active"
  <2>1. PICK u : u = <<>>
    OBVIOUS
  <2>2. slots' = [slots EXCEPT ![r] = [todo |-> u]] /\ ~calm' /\ UNCHANGED <<links, workers>> /\ Shape(u)
    BY <1>2, <1>7, <2>1, NoCall DEF Throw, Idle
  <2>3. \A i : ~Stores(u, i) /\ ~Writes(u, i)
    BY <2>1, NoCall
  <2> QED BY <1>2, <1>3, <1>5, <2>2, <2>3, LinkCallKeeps
<1> QED BY <1>6, <1>7

LEMMA MakeKeeps ==
  ASSUME ToolsInv, OnceInv, CalmInv, NEW r \in Slots, MakeLink(r)
  PROVE  ToolsInv' /\ OnceInv' /\ CalmInv'
<1>1. PICK c : c = Call(r)
  OBVIOUS
<1>2. PICK k \in Tokens :
        /\ Doing(r, "newLink") /\ Proceed(r, <<>>) /\ links' = [links EXCEPT ![k] = "active"]
        /\ UNCHANGED <<items, shown, pins, byHand, chosen, armed, announced, repeated>>
  BY DEF MakeLink, log
<1>3. PICK t : /\ t = slots[r].todo /\ t # <<>> /\ Shape(t) /\ Busy(r)
               /\ Head(t) = c /\ c.kind = "newLink"
               /\ slots' = [slots EXCEPT ![r] = [todo |-> Tail(t)]]
               /\ UNCHANGED <<now, workers, started, faults, calm>>
               /\ \/ t = <<c>> /\ Tail(t) = <<>> /\ Single(c)
                  \/ \E d : t = <<c, d>> /\ Tail(t) = <<d>> /\ Double(c, d)
  BY <1>1, <1>2, Calling
<1>4. PICK u : u = <<>>
  OBVIOUS
<1>5. slots' = [slots EXCEPT ![r] = [todo |-> u]] /\ UNCHANGED <<workers, calm>> /\ Shape(u)
  BY <1>3, <1>4, NoCall DEF Double
<1>6. DOMAIN links' = DOMAIN links /\ ActiveLinks' \subseteq ActiveLinks \cup {k}
  BY <1>2 DEF ActiveLinks
<1>7. \A i : ~Stores(u, i) /\ ~Writes(u, i)
  BY <1>4, NoCall
<1>8. calm' => calm /\ (\A x, y \in ActiveLinks' : x = y) /\ Ready(u)'
  <2>1. SUFFICES ASSUME calm PROVE (\A x, y \in ActiveLinks' : x = y) /\ Ready(u)'
    BY <1>5
  <2>2. ActiveLinks = {}
    BY <1>3, <2>1 DEF CalmInv, Ready
  <2> QED BY <1>4, <1>6, <2>2 DEF Ready
<1>9. Head(t).kind \notin {"pin", "drop"}
  BY <1>3
<1> QED BY <1>2, <1>3, <1>5, <1>6, <1>7, <1>8, <1>9, LinkCallKeeps

-----------------------------------------------------------------------------
(* The worker *)

\* What the worker writes leaves a tool in place, as it is pinned and voted on.
LeftAlone(i) ==
  \/ items'[i] = items[i]
  \/ /\ i \in Pinnable /\ IsLive(i) /\ IsLive(i)' /\ {"state", "status", "pinned"} \subseteq DOMAIN items'[i]
     /\ items'[i].pinned = items[i].pinned
     /\ i \in PollIds => "votes" \in DOMAIN items'[i] /\ items'[i].votes = items[i].votes

\* No request notices what the worker does.
LEMMA RequestsKept ==
  ASSUME ToolsInv, CalmInv, UNCHANGED <<shown, pins, byHand, links, slots, calm, chosen>>,
         DOMAIN items' = ItemIds, armed' \in [ReminderIds -> Nat],
         \A i \in ItemIds : LeftAlone(i)
  PROVE  ItemsOK' /\ SlotsOK' /\ Claims' /\ BooksOK' /\ CalmInv'
<1>1. ItemsOK /\ SlotsOK /\ Claims /\ BooksOK
  BY DEF ToolsInv
<1>2. /\ \A i \in ItemIds : IsLive(i)' <=> IsLive(i)
      /\ \A i \in ItemIds : items'[i] = Missing <=> items[i] = Missing
  <2>1. \A i \in ItemIds : IsLive(i)' <=> IsLive(i)
    BY DEF LeftAlone, IsLive
  <2>2. \A i \in ItemIds : items'[i] # items[i] => items[i] # Missing /\ items'[i] # Missing
    BY DEF LeftAlone, IsLive, Missing
  <2> QED BY <2>1, <2>2
<1>3. ItemsOK'
  <2>1. ASSUME NEW i \in ItemIds, IsLive(i)' PROVE "state" \in DOMAIN items'[i]
    BY <1>1, <1>2, <2>1 DEF ItemsOK, LeftAlone
  <2>2. ASSUME NEW i \in Pinnable, IsLive(i)'
        PROVE  {"status", "pinned"} \subseteq DOMAIN items'[i] /\ i \in shown'
    BY <1>1, <1>2, <2>2 DEF ItemsOK, LeftAlone, Pinnable, ItemIds
  <2>3. ASSUME NEW p \in PollIds, IsLive(p)' PROVE "votes" \in DOMAIN items'[p]
    BY <1>1, <1>2, <2>3 DEF ItemsOK, LeftAlone, ItemIds
  <2> QED BY <2>1, <2>2, <2>3 DEF ItemsOK
<1>4. SlotsOK'
  BY <1>1 DEF SlotsOK
<1>5. Claims'
  BY <1>1, <1>2 DEF Claims, Doing, Busy, Call, Missing
<1>6. BooksOK'
  <2>1. \A p \in PollIds : items'[p] = Missing => items[p] = Missing
    BY <1>2 DEF ItemIds
  <2> QED BY <1>1, <2>1 DEF BooksOK
<1>7. CalmInv'
  <2>1. SUFFICES ASSUME calm
                 PROVE  /\ OneAtATime'
                        /\ \A i \in Pinnable : PinsAgree(i)' \/ \E r \in Slots : Midway(slots[r].todo, i)'
                        /\ \A p \in PollIds : VotesAgree(p)'
                        /\ \A k, l \in ActiveLinks' : k = l
                        /\ \A r \in Slots : Ready(slots[r].todo)'
    BY DEF CalmInv
  <2>2. OneAtATime' /\ ActiveLinks' = ActiveLinks /\ \A k, l \in ActiveLinks' : k = l
    BY <2>1 DEF CalmInv, OneAtATime, Busy, ActiveLinks
  <2>3. ASSUME NEW i \in Pinnable, IsLive(i) PROVE items'[i].pinned = items[i].pinned
    BY <2>3 DEF LeftAlone, Pinnable, ItemIds
  <2>4. ASSUME NEW t, NEW i \in Pinnable, Midway(t, i) PROVE Midway(t, i)'
    BY <1>2, <2>3, <2>4 DEF Midway, Pinnable, ItemIds
  <2>5. ASSUME NEW i \in Pinnable
        PROVE  PinsAgree(i)' \/ \E r \in Slots : Midway(slots[r].todo, i)'
    <3>1. CASE PinsAgree(i)
      <4>1. IsLive(i)' <=> IsLive(i)
        BY <1>2 DEF Pinnable, ItemIds
      <4> QED BY <2>3, <3>1, <4>1 DEF PinsAgree
    <3>2. ASSUME NEW r \in Slots, Midway(slots[r].todo, i) PROVE Midway(slots[r].todo, i)'
      <4>1. PICK t : t = slots[r].todo
        OBVIOUS
      <4>2. Midway(t, i)'
        BY <2>4, <3>2, <4>1
      <4> QED BY <4>1, <4>2 DEF Midway
    <3> QED BY <2>1, <3>1, <3>2 DEF CalmInv
  <2>6. ASSUME NEW p \in PollIds PROVE VotesAgree(p)'
    <3>1. IsLive(p) => items'[p].votes = items[p].votes
      BY DEF LeftAlone, ItemIds
    <3>2. IsLive(p)' <=> IsLive(p)
      BY <1>2 DEF ItemIds
    <3> QED BY <2>1, <3>1, <3>2 DEF CalmInv, VotesAgree, Selection
  <2>7. ASSUME NEW r \in Slots PROVE Ready(slots[r].todo)'
    <3>1. PICK t : t = slots[r].todo
      OBVIOUS
    <3>2. Ready(t) /\ Shape(t)
      BY <1>1, <2>1, <3>1 DEF CalmInv, SlotsOK
    <3>3. t # <<>> /\ Head(t).kind = "set" => Head(t).id \in ItemIds
      BY <3>2, Parts DEF Single, Double, Setting, Pinnable, ItemIds
    <3>4. SetsVotes(Head(t))' <=> SetsVotes(Head(t))
      BY DEF SetsVotes, Selection
    <3>5. Ready(t)'
      BY <1>2, <2>2, <2>4, <3>2, <3>3, <3>4 DEF Ready
    <3> QED BY <3>1, <3>5 DEF Ready, Midway
  <2> QED BY <2>2, <2>5, <2>6, <2>7
<1> QED BY <1>3, <1>4, <1>5, <1>6, <1>7

\* A run goes on; it may be about to announce what nobody was told and what is
\* over by then.
LEMMA RunGoesOn ==
  ASSUME WorkersOK, OnceInv, NEW w \in Workers, NEW x, Working(x),
         workers' = [workers EXCEPT ![w] = x], UNCHANGED <<announced, repeated>>,
         \A p \in PollIds : Ended(p) => Ended(p)',
         \A i \in ReminderIds, k \in Nat : Past(i, k) => Past(i, k)',
         x.pc = "notify" =>
           /\ ~Told(x.about)
           /\ \A p \in PollIds : x.about = <<p, 0>> => Ended(p)'
           /\ \A i \in ReminderIds, k \in Nat : x.about = <<i, k>> => Past(i, k)'
  PROVE  WorkersOK' /\ OnceInv'
<1>1. DOMAIN workers' = Workers /\ workers'[w] = x /\ \A v \in Workers : v # w => workers'[v] = workers[v]
  BY DEF WorkersOK
<1>2. WorkersOK'
  BY <1>1 DEF WorkersOK
<1>3. \A v \in Workers : v # w => (Notifying(v)' <=> Notifying(v))
  BY <1>1 DEF Notifying
<1>4. Notifying(w)' <=> x.pc = "notify"
  BY <1>1 DEF Notifying
<1>5. ASSUME NEW n, Told(n)' PROVE Told(n) \/ (x.pc = "notify" /\ x.about = n)
  BY <1>1, <1>3, <1>4, <1>5 DEF Told
<1>6. ASSUME NEW v \in Workers, Notifying(v)'
      PROVE  /\ workers'[v].about \notin announced'
             /\ \A y \in Workers : Notifying(y)' /\ workers'[y].about = workers'[v].about => y = v
  <2>1. CASE v = w
    <3>1. ~Told(x.about)
      BY <1>4, <1>6, <2>1
    <3> QED BY <1>1, <1>3, <2>1, <3>1 DEF Told
  <2>2. CASE v # w
    <3>1. workers'[v] = workers[v] /\ Notifying(v)
      BY <1>1, <1>3, <1>6, <2>2
    <3>2. x.pc = "notify" => x.about # workers[v].about
      BY <3>1 DEF Told
    <3> QED BY <1>1, <1>3, <1>4, <2>2, <3>1, <3>2 DEF OnceInv
  <2> QED BY <2>1, <2>2
<1>7. \A p \in PollIds : Told(<<p, 0>>)' => Ended(p)'
  BY <1>5 DEF OnceInv
<1>8. \A i \in ReminderIds, k \in Nat : Told(<<i, k>>)' => Past(i, k)'
  BY <1>5 DEF OnceInv
<1>9. OnceInv'
  BY <1>6, <1>7, <1>8 DEF OnceInv
<1> QED BY <1>2, <1>9

\* A step of a run that writes nothing and is not about to announce anything.
LEMMA IdleStepKeeps ==
  ASSUME ToolsInv, OnceInv, CalmInv, NEW w \in Workers, NEW x, Working(x), x.pc # "notify",
         workers' = [workers EXCEPT ![w] = x],
         UNCHANGED <<items, shown, pins, byHand, links, slots, calm, chosen, armed, announced, repeated>>
  PROVE  ToolsInv' /\ OnceInv' /\ CalmInv'
<1>1. ItemsOK /\ BooksOK /\ WorkersOK
  BY DEF ToolsInv
<1>2. /\ DOMAIN items' = ItemIds /\ armed' \in [ReminderIds -> Nat]
      /\ \A i \in ItemIds : LeftAlone(i)
  BY <1>1 DEF ItemsOK, BooksOK, LeftAlone
<1>3. \A p \in PollIds : Ended(p) => Ended(p)'
  BY DEF Ended, Active, IsLive
<1>4. \A i \in ReminderIds, k \in Nat : Past(i, k) => Past(i, k)'
  BY DEF Past, Active, IsLive
<1>5. WorkersOK' /\ OnceInv'
  BY <1>1, <1>3, <1>4, RunGoesOn
<1>6. ItemsOK' /\ SlotsOK' /\ Claims' /\ BooksOK' /\ CalmInv'
  BY <1>2, RequestsKept
<1> QED BY <1>5, <1>6 DEF ToolsInv

LEMMA RunStates ==
  ASSUME ToolsInv, NEW w \in Workers
  PROVE  /\ workers[w].pc = "polls" =>
              /\ {"pc", "now", "left"} \subseteq DOMAIN workers[w] /\ workers[w].left \subseteq PollIds
         /\ workers[w].pc = "reminders" =>
              /\ {"pc", "now", "read"} \subseteq DOMAIN workers[w] /\ DOMAIN workers[w].read \subseteq ReminderIds
         /\ workers[w].pc = "notify" => workers[w].about \in Notices /\ Running(workers[w].then)
<1>1. Working(workers[w])
  BY DEF ToolsInv, WorkersOK
<1>2. Resting.pc = "idle"
  BY DEF Resting
<1> QED BY <1>1, <1>2 DEF Working, Running

LEMMA QuietStepsKeep ==
  ASSUME ToolsInv, OnceInv, CalmInv, NEW w \in Workers,
         RunOnce(w) \/ FindDue(w) \/ FinishRun(w) \/ RunFails(w)
  PROVE  ToolsInv' /\ OnceInv' /\ CalmInv'
<1>1. CASE RunOnce(w)
  <2>1. PICK x : x = [pc |-> "polls", now |-> now, left |-> {p \in PollIds : IsExpired(p, now)}]
    OBVIOUS
  <2>2. workers' = [workers EXCEPT ![w] = x] /\ UNCHANGED <<items, shown, pins, byHand, links, slots, calm, chosen, armed, announced, repeated>>
    BY <1>1, <2>1 DEF RunOnce, WorkerGoes, counters, tables, log
  <2>3. x.pc = "polls" /\ {"pc", "now", "left"} \subseteq DOMAIN x /\ x.left \subseteq PollIds
    BY <2>1
  <2> QED BY <2>2, <2>3, IdleStepKeeps DEF Working, Running
<1>2. CASE FindDue(w)
  <2>1. PICK x : x = LET due == {i \in ReminderIds : IsDue(i, workers[w].now)}
                     IN [pc |-> "reminders", now |-> workers[w].now, read |-> [i \in due |-> items[i]]]
    OBVIOUS
  <2>2. workers' = [workers EXCEPT ![w] = x] /\ UNCHANGED <<items, shown, pins, byHand, links, slots, calm, chosen, armed, announced, repeated>>
    BY <1>2, <2>1 DEF FindDue, WorkerGoes, counters, tables, log
  <2>3. x.pc = "reminders" /\ {"pc", "now", "read"} \subseteq DOMAIN x /\ DOMAIN x.read \subseteq ReminderIds
    BY <2>1
  <2> QED BY <2>2, <2>3, IdleStepKeeps DEF Working, Running
<1>3. CASE FinishRun(w) \/ RunFails(w)
  <2>1. PICK x : x = Resting
    OBVIOUS
  <2>2. workers' = [workers EXCEPT ![w] = x] /\ UNCHANGED <<items, shown, pins, byHand, links, slots, calm, chosen, armed, announced, repeated>>
    BY <1>3, <2>1 DEF FinishRun, RunFails, WorkerGoes, counters, tables, log
  <2>3. x.pc # "notify" /\ Working(x)
    BY <2>1 DEF Working, Resting
  <2> QED BY <2>2, <2>3, IdleStepKeeps
<1> QED BY <1>1, <1>2, <1>3

LEMMA ActiveIsUntold ==
  ASSUME OnceInv, BooksOK
  PROVE  /\ \A p \in PollIds : Active(p) => ~Told(<<p, 0>>)
         /\ \A i \in ReminderIds : Active(i) => ~Told(<<i, armed[i]>>)
<1>1. \A i \in ReminderIds : armed[i] \in Nat
  BY DEF BooksOK
<1>2. \A p \in PollIds : Active(p) => ~Told(<<p, 0>>)
  BY DEF OnceInv, Ended
<1>3. \A i \in ReminderIds : Active(i) => ~Told(<<i, armed[i]>>)
  BY <1>1 DEF OnceInv, Past
<1> QED BY <1>2, <1>3

\* A poll that is closed by the worker was open, so that nobody was told.
LEMMA CloseKeeps ==
  ASSUME ToolsInv, OnceInv, CalmInv, NEW w \in Workers, CloseExpired(w)
  PROVE  ToolsInv' /\ OnceInv' /\ CalmInv'
<1>1. PICK old, rest, p :
        /\ old = workers[w] /\ p \in old.left /\ rest = [old EXCEPT !.left = @ \ {p}]
        /\ IF StillExpired(p, old.now)
             THEN /\ items' = [items EXCEPT ![p].status = "CLOSED"]
                  /\ WorkerGoes(w, [pc |-> "notify", about |-> <<p, 0>>, then |-> rest])
             ELSE WorkerGoes(w, rest) /\ UNCHANGED items
  BY DEF CloseExpired
<1>2. old.pc = "polls" /\ UNCHANGED <<shown, pins, byHand, links, armed, announced, repeated>>
  BY <1>1 DEF CloseExpired, log
<1>3. {"pc", "now", "left"} \subseteq DOMAIN old /\ p \in PollIds /\ old.left \subseteq PollIds
  BY <1>1, <1>2, RunStates
<1>4. Running(rest) /\ rest.pc = "polls"
  <2>1. rest.pc = "polls" /\ DOMAIN rest = DOMAIN old /\ rest.left = old.left \ {p}
    BY <1>1, <1>2, <1>3
  <2> QED BY <1>3, <2>1 DEF Running
<1>5. ItemsOK /\ BooksOK /\ WorkersOK
  BY DEF ToolsInv
<1>6. CASE ~StillExpired(p, old.now)
  <2>1. workers' = [workers EXCEPT ![w] = rest] /\ UNCHANGED <<items, slots, calm, chosen>>
    BY <1>1, <1>6 DEF WorkerGoes, counters
  <2> QED BY <1>2, <1>4, <2>1, IdleStepKeeps DEF Working
<1>7. CASE StillExpired(p, old.now)
  <2>1. PICK x : x = [pc |-> "notify", about |-> <<p, 0>>, then |-> rest]
    OBVIOUS
  <2>2. /\ workers' = [workers EXCEPT ![w] = x] /\ UNCHANGED <<slots, calm, chosen>>
        /\ items' = [items EXCEPT ![p].status = "CLOSED"]
    BY <1>1, <1>7, <2>1 DEF WorkerGoes, counters
  <2>3. x.pc = "notify" /\ x.about = <<p, 0>> /\ x.then = rest
    BY <2>1
  <2>4. Active(p) /\ IsLive(p) /\ p \in Pinnable /\ p \in ItemIds
    BY <1>3, <1>7 DEF StillExpired, IsExpired, Active, Pinnable, ItemIds
  <2>5. {"state", "status", "pinned", "votes"} \subseteq DOMAIN items[p]
    BY <1>3, <1>5, <2>4 DEF ItemsOK
  <2>6. /\ DOMAIN items' = ItemIds /\ DOMAIN items'[p] = DOMAIN items[p] /\ items'[p].status = "CLOSED"
        /\ items'[p].state = items[p].state /\ items'[p].pinned = items[p].pinned
        /\ items'[p].votes = items[p].votes
        /\ \A i \in ItemIds : i # p => items'[i] = items[i]
    BY <1>5, <2>2, <2>4, <2>5 DEF ItemsOK
  <2>7. \A i \in ItemIds : LeftAlone(i)
    BY <2>4, <2>5, <2>6 DEF LeftAlone, IsLive
  <2>8. ItemsOK' /\ SlotsOK' /\ Claims' /\ BooksOK' /\ CalmInv'
    <3>1. armed' \in [ReminderIds -> Nat]
      BY <1>2, <1>5 DEF BooksOK
    <3> QED BY <1>2, <2>2, <2>6, <2>7, <3>1, RequestsKept
  <2>9. Working(x)
    BY <1>3, <1>4, <2>3 DEF Working, Notices
  <2>10. Ended(p)'
    BY <2>4, <2>6 DEF Ended, Active, IsLive, Missing
  <2>11. \A q \in PollIds : Ended(q) => Ended(q)'
    <3>1. \A q \in PollIds : q # p => items'[q] = items[q]
      BY <2>6 DEF ItemIds
    <3> QED BY <2>10, <3>1 DEF Ended, Active, IsLive
  <2>12. \A i \in ReminderIds, k \in Nat : Past(i, k) => Past(i, k)'
    <3>1. \A i \in ReminderIds : items'[i] = items[i]
      BY <1>3, <2>6, GroupToolsAssumption DEF ItemIds
    <3> QED BY <1>2, <3>1 DEF Past, Active, IsLive
  <2>13. ~Told(x.about)
    BY <1>3, <1>5, <2>3, <2>4, ActiveIsUntold
  <2>14. \A q \in PollIds : x.about = <<q, 0>> => Ended(q)'
    BY <2>3, <2>10
  <2>15. \A i \in ReminderIds, k \in Nat : x.about = <<i, k>> => Past(i, k)'
    BY <1>3, <2>3, GroupToolsAssumption
  <2>16. WorkersOK' /\ OnceInv'
    BY <1>2, <1>5, <2>2, <2>9, <2>11, <2>12, <2>13, <2>14, <2>15, RunGoesOn
  <2> QED BY <2>8, <2>16 DEF ToolsInv
<1> QED BY <1>6, <1>7

\* A notice sets the reminder to go off again or ends it.
LEMMA NoticeFields ==
  ASSUME NEW item, NEW t, NEW update, update = AfterNotice(item, t)
  PROVE  /\ {"state", "pinned"} \cap DOMAIN update = {}
         /\ "next" \notin DOMAIN update => "status" \in DOMAIN update /\ update.status = "DONE"
<1>1. CASE t < item.at
  BY <1>1 DEF AfterNotice
<1>2. CASE ~(t < item.at) /\ ~item.repeat
  BY <1>2 DEF AfterNotice
<1>3. CASE ~(t < item.at) /\ item.repeat
  <2>1. PICK a, n : update = [at |-> a, next |-> n]
    BY <1>3 DEF AfterNotice
  <2> QED BY <2>1
<1> QED BY <1>1, <1>2, <1>3

\* The reminder has not been told of as it is set: it is counted as set again, or
\* it is done.
LEMMA NoticeKeeps ==
  ASSUME ToolsInv, OnceInv, CalmInv, NEW w \in Workers, UpdateDueReminder(w)
  PROVE  ToolsInv' /\ OnceInv' /\ CalmInv'
<1>1. PICK i \in DOMAIN workers[w].read :
        LET read == workers[w].read[i]
            update == AfterNotice(read, workers[w].now)
            rest == [workers[w] EXCEPT !.read = [j \in DOMAIN @ \ {i} |-> @[j]]]
        IN IF StillDue(i, read)
             THEN /\ items' = [items EXCEPT ![i] = Merged(update, items[i])]
                  /\ armed' = IF "next" \in DOMAIN update THEN [armed EXCEPT ![i] = @ + 1] ELSE armed
                  /\ WorkerGoes(w, [pc |-> "notify", about |-> <<i, armed[i]>>, then |-> rest])
             ELSE WorkerGoes(w, rest) /\ UNCHANGED <<items, armed>>
  BY DEF UpdateDueReminder
<1>2. PICK old, read, update, rest :
        /\ old = workers[w] /\ read = old.read[i] /\ update = AfterNotice(read, old.now)
        /\ rest = [old EXCEPT !.read = [j \in DOMAIN @ \ {i} |-> @[j]]]
  OBVIOUS
<1>3. old.pc = "reminders" /\ UNCHANGED <<shown, pins, byHand, links, announced, repeated>>
  BY <1>2 DEF UpdateDueReminder
<1>4. {"pc", "now", "read"} \subseteq DOMAIN old /\ i \in ReminderIds /\ DOMAIN old.read \subseteq ReminderIds
  BY <1>1, <1>2, <1>3, RunStates
<1>5. Running(rest) /\ rest.pc = "reminders"
  <2>1. rest.pc = "reminders" /\ DOMAIN rest = DOMAIN old /\ DOMAIN rest.read = DOMAIN old.read \ {i}
    BY <1>2, <1>3, <1>4
  <2> QED BY <1>4, <2>1 DEF Running
<1>6. ItemsOK /\ BooksOK /\ WorkersOK
  BY DEF ToolsInv
<1>7. CASE ~StillDue(i, read)
  <2>1. workers' = [workers EXCEPT ![w] = rest] /\ UNCHANGED <<items, armed, slots, calm, chosen>>
    BY <1>1, <1>2, <1>7 DEF WorkerGoes, counters
  <2> QED BY <1>3, <1>5, <2>1, IdleStepKeeps DEF Working
<1>8. CASE StillDue(i, read)
  <2>1. PICK x, k : x = [pc |-> "notify", about |-> <<i, k>>, then |-> rest] /\ k = armed[i]
    OBVIOUS
  <2>2. /\ workers' = [workers EXCEPT ![w] = x] /\ UNCHANGED <<slots, calm, chosen>>
        /\ items' = [items EXCEPT ![i] = Merged(update, items[i])]
        /\ armed' = IF "next" \in DOMAIN update THEN [armed EXCEPT ![i] = @ + 1] ELSE armed
    BY <1>1, <1>2, <1>8, <2>1 DEF WorkerGoes, counters
  <2>3. x.pc = "notify" /\ x.about = <<i, k>> /\ x.then = rest
    BY <2>1
  <2>4. armed \in [ReminderIds -> Nat] /\ k \in Nat
    BY <1>4, <1>6, <2>1 DEF BooksOK
  <2>5. Active(i) /\ IsLive(i) /\ i \in Pinnable /\ i \in ItemIds /\ i \notin PollIds
    BY <1>4, <1>8, GroupToolsAssumption DEF StillDue, Active, Pinnable, ItemIds
  <2>6. {"state", "status", "pinned"} \subseteq DOMAIN items[i]
    BY <1>6, <2>5 DEF ItemsOK
  <2>7. /\ {"state", "pinned"} \cap DOMAIN update = {}
        /\ "next" \notin DOMAIN update => "status" \in DOMAIN update /\ update.status = "DONE"
    BY <1>2, NoticeFields
  <2>8. /\ DOMAIN items' = ItemIds /\ items'[i] = Merged(update, items[i])
        /\ \A j \in ItemIds : j # i => items'[j] = items[j]
    BY <1>6, <2>2, <2>5 DEF ItemsOK
  <2>9. /\ DOMAIN items'[i] = DOMAIN items[i]
        /\ items'[i].state = items[i].state /\ items'[i].pinned = items[i].pinned
        /\ "next" \notin DOMAIN update => items'[i].status = "DONE"
    BY <2>6, <2>7, <2>8 DEF Merged
  <2>10. \A j \in ItemIds : LeftAlone(j)
    BY <2>5, <2>6, <2>8, <2>9 DEF LeftAlone, IsLive
  <2>11. armed' \in [ReminderIds -> Nat] /\ \A j \in ReminderIds : j # i => armed'[j] = armed[j]
    <3>1. CASE "next" \in DOMAIN update
      <4>1. armed' = [armed EXCEPT ![i] = @ + 1]
        BY <2>2, <3>1
      <4> QED BY <1>4, <2>4, <4>1
    <3>2. CASE "next" \notin DOMAIN update
      <4>1. armed' = armed
        BY <2>2, <3>2
      <4> QED BY <2>4, <4>1
    <3> QED BY <3>1, <3>2
  <2>12. ItemsOK' /\ SlotsOK' /\ Claims' /\ BooksOK' /\ CalmInv'
    BY <1>3, <2>2, <2>8, <2>10, <2>11, RequestsKept
  <2>13. Working(x)
    BY <1>4, <1>5, <2>3, <2>4 DEF Working, Notices
  <2>14. \A p \in PollIds : Ended(p) => Ended(p)'
    <3>1. \A p \in PollIds : items'[p] = items[p]
      BY <2>5, <2>8 DEF ItemIds
    <3> QED BY <3>1 DEF Ended, Active, IsLive
  <2>15. \A m \in Nat : m <= k => Past(i, m)'
    <3>1. CASE "next" \in DOMAIN update
      <4>1. armed'[i] = k + 1
        BY <1>4, <2>1, <2>2, <2>4, <3>1
      <4> QED BY <2>4, <4>1 DEF Past
    <3>2. CASE "next" \notin DOMAIN update
      <4>1. armed'[i] = k /\ ~Active(i)'
        BY <2>1, <2>2, <2>9, <3>2 DEF Active
      <4> QED BY <2>4, <4>1 DEF Past
    <3> QED BY <3>1, <3>2
  <2>16. ASSUME NEW j \in ReminderIds, NEW m \in Nat, Past(j, m) PROVE Past(j, m)'
    <3>1. CASE j = i
      BY <2>1, <2>4, <2>15, <2>16, <3>1 DEF Past
    <3>2. CASE j # i
      <4>1. armed'[j] = armed[j] /\ items'[j] = items[j]
        BY <2>8, <2>11, <3>2 DEF ItemIds
      <4> QED BY <2>16, <4>1 DEF Past, Active, IsLive
    <3> QED BY <3>1, <3>2
  <2>17. ~Told(x.about)
    BY <1>4, <1>6, <2>1, <2>3, <2>5, ActiveIsUntold
  <2>18. \A p \in PollIds : x.about = <<p, 0>> => Ended(p)'
    BY <2>3, <2>5
  <2>19. \A j \in ReminderIds, m \in Nat : x.about = <<j, m>> => Past(j, m)'
    BY <2>3, <2>4, <2>15
  <2>20. WorkersOK' /\ OnceInv'
    BY <1>3, <1>6, <2>2, <2>13, <2>14, <2>16, <2>17, <2>18, <2>19, RunGoesOn
  <2> QED BY <2>12, <2>20 DEF ToolsInv
<1> QED BY <1>7, <1>8

\* What is announced was told by this worker only, and not announced before.
LEMMA AnnouncingKeeps ==
  ASSUME ToolsInv, OnceInv, CalmInv, NEW w \in Workers, Notify(w)
  PROVE  ToolsInv' /\ OnceInv' /\ CalmInv'
<1>1. PICK n, x : n = workers[w].about /\ x = workers[w].then
  OBVIOUS
<1>2. /\ Notifying(w) /\ announced' = announced \cup {n} /\ repeated' = repeated \cup ({n} \cap announced)
      /\ workers' = [workers EXCEPT ![w] = x]
      /\ UNCHANGED <<items, shown, pins, byHand, links, slots, calm, chosen, armed>>
  BY <1>1 DEF Notify, Notifying, WorkerGoes, counters, tables
<1>3. n \in Notices /\ Running(x)
  BY <1>1, <1>2, RunStates DEF Notifying
<1>4. ItemsOK /\ BooksOK /\ WorkersOK
  BY DEF ToolsInv
<1>5. DOMAIN workers' = Workers /\ workers'[w] = x /\ \A v \in Workers : v # w => workers'[v] = workers[v]
  BY <1>2, <1>4 DEF WorkersOK
<1>6. WorkersOK'
  BY <1>3, <1>4, <1>5 DEF WorkersOK, Working
<1>7. ~Notifying(w)' /\ \A v \in Workers : v # w => (Notifying(v)' <=> Notifying(v))
  BY <1>3, <1>5 DEF Notifying, Running
<1>8. n \notin announced
  BY <1>1, <1>2 DEF OnceInv
<1>9. \A m : Told(m)' => Told(m)
  BY <1>1, <1>2, <1>5, <1>7 DEF Told
<1>10. OnceInv'
  <2>1. repeated' = {} /\ announced' \subseteq Notices
    BY <1>2, <1>3, <1>8 DEF OnceInv
  <2>2. ASSUME NEW v \in Workers, Notifying(v)'
        PROVE  /\ workers'[v].about \notin announced'
               /\ \A y \in Workers : Notifying(y)' /\ workers'[y].about = workers'[v].about => y = v
    <3>1. v # w /\ Notifying(v) /\ workers'[v] = workers[v]
      BY <1>5, <1>7, <2>2
    <3>2. workers[v].about # n
      BY <1>1, <1>2, <3>1 DEF OnceInv
    <3> QED BY <1>2, <1>5, <1>7, <3>1, <3>2 DEF OnceInv
  <2>3. \A p \in PollIds : Told(<<p, 0>>)' => Ended(p)'
    BY <1>2, <1>9 DEF OnceInv, Ended, Active, IsLive
  <2>4. \A i \in ReminderIds, k \in Nat : Told(<<i, k>>)' => Past(i, k)'
    BY <1>2, <1>9 DEF OnceInv, Past, Active, IsLive
  <2> QED BY <2>1, <2>2, <2>3, <2>4 DEF OnceInv
<1>11. /\ DOMAIN items' = ItemIds /\ armed' \in [ReminderIds -> Nat]
       /\ \A i \in ItemIds : LeftAlone(i)
  BY <1>2, <1>4 DEF ItemsOK, BooksOK, LeftAlone
<1>12. ItemsOK' /\ SlotsOK' /\ Claims' /\ BooksOK' /\ CalmInv'
  BY <1>2, <1>11, RequestsKept
<1> QED BY <1>6, <1>10, <1>12 DEF ToolsInv

-----------------------------------------------------------------------------
(* Every step *)

LEMMA ToolsStart == Init => ToolsInv /\ OnceInv /\ CalmInv
<1> SUFFICES ASSUME Init PROVE ToolsInv /\ OnceInv /\ CalmInv
  OBVIOUS
<1>1. \A r \in Slots : slots[r] = Idle /\ slots[r].todo = <<>>
  BY DEF Init, Idle
<1>2. \A i \in ItemIds : items[i] = Missing /\ ~IsLive(i)
  BY DEF Init, IsLive, Missing
<1>3. ItemsOK
  BY <1>2 DEF Init, ItemsOK, Pinnable, ItemIds
<1>4. SlotsOK
  BY <1>1, NoCall DEF Init, SlotsOK, Idle
<1>5. Claims
  BY <1>1, NoCall DEF Claims
<1>6. BooksOK
  BY DEF Init, BooksOK
<1>7. WorkersOK
  BY DEF Init, WorkersOK, Working
<1>8. \A w \in Workers : ~Notifying(w)
  BY DEF Init, Notifying, Resting
<1>9. OnceInv
  BY <1>8 DEF Init, OnceInv, Told
<1>10. CalmInv
  <2>1. OneAtATime
    BY <1>1 DEF OneAtATime, Busy
  <2>2. \A i \in Pinnable : PinsAgree(i)
    BY <1>2 DEF Init, PinsAgree, Pinnable, ItemIds
  <2>3. \A p \in PollIds : VotesAgree(p)
    BY <1>2 DEF VotesAgree, ItemIds
  <2>4. ActiveLinks = {}
    BY DEF Init, ActiveLinks
  <2>5. \A r \in Slots : Ready(slots[r].todo)
    BY <1>1, NoCall
  <2> QED BY <2>1, <2>2, <2>3, <2>4, <2>5 DEF CalmInv
<1> QED BY <1>3, <1>4, <1>5, <1>6, <1>7, <1>9, <1>10 DEF ToolsInv

LEMMA NothingKeeps ==
  ASSUME ToolsInv, OnceInv, CalmInv, UNCHANGED <<tables, slots, workers, calm, chosen, log>>
  PROVE  ToolsInv' /\ OnceInv' /\ CalmInv'
<1>1. UNCHANGED <<items, shown, pins, byHand, links, slots, workers, calm, chosen, armed, announced, repeated>>
  BY DEF tables, log
<1>2. ItemsOK /\ BooksOK /\ WorkersOK
  BY DEF ToolsInv
<1>3. /\ DOMAIN items' = ItemIds /\ armed' \in [ReminderIds -> Nat]
      /\ \A i \in ItemIds : LeftAlone(i)
  BY <1>1, <1>2 DEF ItemsOK, BooksOK, LeftAlone
<1>4. \A p \in PollIds : Ended(p) => Ended(p)'
  BY <1>1 DEF Ended, Active, IsLive
<1>5. \A i \in ReminderIds, k \in Nat : Past(i, k) => Past(i, k)'
  BY <1>1 DEF Past, Active, IsLive
<1>6. OnceInv'
  BY <1>1, <1>4, <1>5, OnceKept
<1>7. WorkersOK'
  BY <1>1, <1>2 DEF WorkersOK
<1>8. ItemsOK' /\ SlotsOK' /\ Claims' /\ BooksOK' /\ CalmInv'
  BY <1>1, <1>3, RequestsKept
<1> QED BY <1>6, <1>7, <1>8 DEF ToolsInv

LEMMA ToolsStep == ToolsInv /\ OnceInv /\ CalmInv /\ [Next]_vars => ToolsInv' /\ OnceInv' /\ CalmInv'
<1> SUFFICES ASSUME ToolsInv, OnceInv, CalmInv, [Next]_vars PROVE ToolsInv' /\ OnceInv' /\ CalmInv'
  OBVIOUS
<1>1. ASSUME NEW r \in Slots,
             \/ LinkUseCase(r) \/ MessageUseCase(r)
             \/ \E u \in Members : PollUseCase(r, u) \/ UtilityUseCase(r, u)
      PROVE  ToolsInv' /\ OnceInv' /\ CalmInv'
  BY <1>1, UseCaseOpens, StartKeeps
<1>2. ASSUME NEW r \in Slots, DatabaseCall(r) PROVE ToolsInv' /\ OnceInv' /\ CalmInv'
  BY <1>2, MessageKeeps, InsertKeeps, SetKeeps, PinKeeps, PinAnyKeeps, DropKeeps, FindKeeps, RevokeKeeps, MakeKeeps, FailKeeps
     DEF DatabaseCall
<1>3. ASSUME NEW w \in Workers, WorkerStep(w) \/ RunFails(w) PROVE ToolsInv' /\ OnceInv' /\ CalmInv'
  BY <1>3, QuietStepsKeep, CloseKeeps, NoticeKeeps, AnnouncingKeeps DEF WorkerStep
<1>4. CASE Tick \/ UNCHANGED vars
  <2>1. UNCHANGED <<tables, slots, workers, calm, chosen, log>>
    BY <1>4 DEF Tick, counters, vars
  <2> QED BY <2>1, NothingKeeps
<1> QED BY <1>1, <1>2, <1>3, <1>4 DEF Next

\* Every step keeps the invariants: a request that starts, each database call and
\* its failure, and each step of the worker.
THEOREM ToolsAreSound == Spec => [](ToolsInv /\ OnceInv /\ CalmInv)
BY ToolsStart, ToolsStep, PTL DEF Spec

-----------------------------------------------------------------------------
(* The properties *)

\* The end of a poll, and a reminder each time it is set to go off, is announced
\* at most once by all instances of the worker together: whoever announces it has
\* ended the poll or moved the reminder on, on the condition that nobody had.
THEOREM AnnouncementsAreUnique == Spec => []AnnouncedOnce
<1>1. OnceInv => AnnouncedOnce
  BY DEF OnceInv, AnnouncedOnce
<1> QED BY <1>1, ToolsAreSound, PTL

\* As long as requests are handled one at a time and do not fail, a poll holds the
\* last choice of every member, whatever is stored back with it.
THEOREM LastChoicesCount == Spec => []VotesAreKept
<1>1. CalmInv => VotesAreKept
  BY DEF CalmInv, VotesAgree, VotesAreKept
<1> QED BY <1>1, ToolsAreSound, PTL

\* As long as requests are handled one at a time and do not fail, a group has at
\* most one active link.
THEOREM LinkIsReplaced == Spec => []OneActiveLink
<1>1. ASSUME CalmInv, calm PROVE Cardinality(ActiveLinks) <= 1
  <2>1. \A k, l \in ActiveLinks : k = l
    BY <1>1 DEF CalmInv
  <2>2. CASE ActiveLinks = {}
    BY <2>2, FS_EmptySet
  <2>3. CASE ActiveLinks # {}
    <3>1. PICK k : ActiveLinks = {k}
      BY <2>1, <2>3
    <3> QED BY <3>1, FS_Singleton
  <2> QED BY <2>2, <2>3
<1>2. CalmInv => OneActiveLink
  BY <1>1 DEF OneActiveLink
<1> QED BY <1>2, ToolsAreSound, PTL

\* Whatever interleaves and fails, what is stored of polls and reminders is in the
\* timeline; and between requests that are handled one at a time and do not fail,
\* the pinned messages are those of the items that are pinned, but for those that
\* were pinned or unpinned past their items.
THEOREM TimelineShowsTheTools == Spec => []TimelineAgrees
<1>1. ASSUME ToolsInv, CalmInv, NEW i \in Pinnable
      PROVE  /\ IsLive(i) => i \in shown
             /\ calm /\ (\A r \in Slots : ~Busy(r)) => PinsAgree(i)
  <2>1. IsLive(i) => i \in shown
    BY <1>1 DEF ToolsInv, ItemsOK
  <2>2. ASSUME calm, \A r \in Slots : ~Busy(r) PROVE PinsAgree(i)
    <3>1. \A r \in Slots : slots[r].todo = <<>>
      BY <1>1, <2>2, SlotFacts DEF ToolsInv
    <3> QED BY <1>1, <2>2, <3>1 DEF CalmInv, Midway
  <2> QED BY <2>1, <2>2
<1>2. ToolsInv /\ CalmInv => TimelineAgrees
  BY <1>1 DEF TimelineAgrees, Pinnable, PinsAgree
<1> QED BY <1>2, ToolsAreSound, PTL
=============================================================================
