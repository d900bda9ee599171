--------------------------- MODULE RealtimeProofs ---------------------------
(***************************************************************************)
(* Every client a change concerns has heard of it when its request ends,   *)
(* for any number of users, sockets and requests in flight.                *)
(***************************************************************************)
EXTENDS Realtime, SequenceTheorems, TLAPS

\* The steps that store a change, and those that read the members.
Storing == {"store", "admit", "expel", "hide", "unhide"}
Listing == {"list", "tryList", "listVisible"}

Steps ==
  [do: {"store"}, labels: SUBSET Labels]
  \cup [do: {"admit"}, users: SUBSET Users, labels: SUBSET Labels]
  \cup [do: {"expel", "hide", "unhide"}, user: Users, labels: SUBSET Labels]
  \cup [do: {"emit"}, audience: SUBSET {"room", "listed"}, users: SUBSET Users]
  \cup [do: {"welcome"}, user: Users]
  \cup [do: Listing \cup {"latest", "dissolve"}]

ToTheListed(step) == step.do = "emit" /\ "listed" \in step.audience

\* After position k of the list somebody tells the clients a label stands for:
\* those of the members, who are read first, those in the room or those of a user.
Told(todo, k, label) ==
  CASE label = "members" -> \E i \in (k + 1)..(Len(todo) - 1) :
                              todo[i].do \in Listing /\ ToTheListed(todo[i + 1])
    [] label = "notice" -> \E i, m \in (k + 1)..Len(todo) :
                              i < m /\ todo[i].do \in Listing /\ todo[m].do = "latest"
    [] label = "room" -> \E i \in (k + 1)..Len(todo) :
                              todo[i].do = "emit" /\ "room" \in todo[i].audience
    [] OTHER -> \E i \in (k + 1)..Len(todo) : todo[i].do = "emit" /\ label \in todo[i].users

\* Whatever the rest of a handler stores, its rest tells.
Sound(todo) ==
  \A k \in 1..Len(todo) :
    /\ todo[k].do \in Storing => \A label \in todo[k].labels : Told(todo, k, label)
    /\ todo[k].do = "dissolve" => k < Len(todo) /\ ToTheListed(todo[k + 1])

\* The list that was read is still to be used for this label.
InUse(todo, label) ==
  CASE label = "notice" -> \E m \in 1..Len(todo) : todo[m].do = "latest"
    [] label = "room" -> FALSE
    [] OTHER -> todo # <<>> /\ ToTheListed(todo[1])

\* A socket has heard of a change, or will: the members are read once more, or
\* its user is in the list that was read.
Covered(r, label, s) ==
  \/ <<r, label>> \in heard[s]
  \/ Told(tasks[r].todo, 0, label)
  \/ InUse(tasks[r].todo, label) /\ UserOf[s] \in tasks[r].list

Task == [todo: Seq(Steps), did: SUBSET Labels, list: SUBSET Users, alone: BOOLEAN,
         here: BOOLEAN, over: BOOLEAN]

TypeOK ==
  /\ open \subseteq Sockets /\ joining \subseteq open /\ room \subseteq open
  /\ members \subseteq Users /\ hidden \subseteq Users
  /\ tasks \in [Slots -> Task]
  /\ heard \in [Sockets -> SUBSET (Slots \X Labels)]
  /\ follows \in [Sockets -> SUBSET {"user", "members", "room"}]

\* A client follows no more than it is let to: while it is connected, while its
\* user is a member, while it is in the room.
FollowsWhatItMay ==
  \A s \in Sockets :
    /\ follows[s] # {} => s \in open
    /\ "members" \in follows[s] => UserOf[s] \in members
    /\ "room" \in follows[s] => s \in room

\* A request owes its audience the events as long as it names the conversation.
Owes(r) == Busy(r) /\ tasks[r].here

\* What is left of a request tells what it has stored and will store.
Fine(r) ==
  Owes(r) => /\ Sound(tasks[r].todo)
             /\ \A label \in tasks[r].did : \A s \in Audience(r, label) : Covered(r, label, s)

\* The inductive invariant.  EveryoneHears speaks of the end of a request; until
\* then the steps that are left, the list that was read and what has been heard
\* cover the audience, however it changes.
Inv == TypeOK /\ FollowsWhatItMay /\ \A r \in Slots : Fine(r)

-----------------------------------------------------------------------------
(* Lists of steps *)

\* The labels that are names are no users.
LEMMA NamesAreNoUsers == \A u \in Users : u \notin {"members", "notice", "room"}
BY RealtimeAssumption

\* The first step of a list and the others.
LEMMA FirstAndRest ==
  ASSUME NEW todo \in Seq(Steps), todo # <<>>
  PROVE  /\ Head(todo) = todo[1] /\ todo[1] \in Steps
         /\ Tail(todo) \in Seq(Steps)
         /\ Len(todo) \in Nat \ {0} /\ Len(Tail(todo)) = Len(todo) - 1
         /\ \A i \in 1..Len(Tail(todo)) : Tail(todo)[i] = todo[i + 1]
BY HeadTailProperties, EmptySeq, ElementOfSeq

\* The second step is the first of what follows.
LEMMA SecondStep ==
  ASSUME NEW todo \in Seq(Steps), Len(todo) > 1
  PROVE  Tail(todo) # <<>> /\ Tail(todo)[1] = todo[2]
<1>1. todo # <<>>
  OBVIOUS
<1>2. /\ Len(Tail(todo)) = Len(todo) - 1 /\ Len(todo) \in Nat
      /\ \A i \in 1..Len(Tail(todo)) : Tail(todo)[i] = todo[i + 1]
  BY <1>1, FirstAndRest
<1>3. 1 \in 1..Len(Tail(todo))
  BY <1>2
<1>4. Tail(todo)[1] = todo[1 + 1]
  BY <1>2, <1>3
<1>5. QED BY <1>3, <1>4

\* What is told after a position is told after the one before it by the other steps.
LEMMA TailTold ==
  ASSUME NEW todo \in Seq(Steps), todo # <<>>, NEW k \in Nat, NEW label
  PROVE  Told(Tail(todo), k, label) <=> Told(todo, k + 1, label)
<1> DEFINE rest == Tail(todo)
<1>1. /\ Len(todo) \in Nat /\ Len(rest) = Len(todo) - 1
      /\ \A i \in 1..Len(rest) : rest[i] = todo[i + 1]
  BY FirstAndRest
<1> HIDE DEF rest
<1>2. \A i \in (k + 1)..Len(rest) : i + 1 \in (k + 1 + 1)..Len(todo) /\ rest[i] = todo[i + 1]
  BY <1>1
<1>3. \A i \in (k + 1 + 1)..Len(todo) : i - 1 \in (k + 1)..Len(rest) /\ rest[i - 1] = todo[i]
  BY <1>1
<1>4. CASE label = "members"
  <2>1. ASSUME NEW i \in (k + 1)..(Len(rest) - 1), rest[i].do \in Listing /\ ToTheListed(rest[i + 1])
        PROVE  /\ i + 1 \in (k + 1 + 1)..(Len(todo) - 1)
               /\ todo[i + 1].do \in Listing /\ ToTheListed(todo[i + 1 + 1])
    BY <1>1, <2>1
  <2>2. ASSUME NEW i \in (k + 1 + 1)..(Len(todo) - 1), todo[i].do \in Listing /\ ToTheListed(todo[i + 1])
        PROVE  /\ i - 1 \in (k + 1)..(Len(rest) - 1)
               /\ rest[i - 1].do \in Listing /\ ToTheListed(rest[i - 1 + 1])
    <3>1. i - 1 \in 1..Len(rest) /\ i \in 1..Len(rest) /\ i - 1 + 1 = i
      BY <1>1
    <3>2. QED BY <1>1, <2>2, <3>1
  <2>3. QED BY <1>4, <2>1, <2>2 DEF Told, rest
<1>5. CASE label = "notice"
  <2>1. ASSUME NEW i \in (k + 1)..Len(rest), NEW m \in (k + 1)..Len(rest),
               i < m /\ rest[i].do \in Listing /\ rest[m].do = "latest"
        PROVE  \E a, b \in (k + 1 + 1)..Len(todo) :
                 a < b /\ todo[a].do \in Listing /\ todo[b].do = "latest"
    <3>1. i + 1 < m + 1
      BY <2>1
    <3>2. QED BY <1>2, <2>1, <3>1
  <2>2. ASSUME NEW i \in (k + 1 + 1)..Len(todo), NEW m \in (k + 1 + 1)..Len(todo),
               i < m /\ todo[i].do \in Listing /\ todo[m].do = "latest"
        PROVE  \E a, b \in (k + 1)..Len(rest) :
                 a < b /\ rest[a].do \in Listing /\ rest[b].do = "latest"
    <3>1. i - 1 < m - 1
      BY <2>2
    <3>2. QED BY <1>3, <2>2, <3>1
  <2>3. QED BY <1>5, <2>1, <2>2 DEF Told, rest
<1>6. CASE label = "room"
  BY <1>2, <1>3, <1>6 DEF Told, rest
<1>7. CASE label \notin {"members", "notice", "room"}
  BY <1>2, <1>3, <1>7 DEF Told, rest
<1>8. QED BY <1>4, <1>5, <1>6, <1>7

\* A list that tells what it stores still does when its first step is done.
LEMMA TailSound ==
  ASSUME NEW todo \in Seq(Steps), todo # <<>>, Sound(todo)
  PROVE  Sound(Tail(todo))
<1> DEFINE rest == Tail(todo)
<1>1. /\ Len(todo) \in Nat /\ Len(rest) = Len(todo) - 1
      /\ \A i \in 1..Len(rest) : rest[i] = todo[i + 1]
  BY FirstAndRest
<1>2. ASSUME NEW k \in 1..Len(rest)
      PROVE  /\ rest[k].do \in Storing => \A label \in rest[k].labels : Told(rest, k, label)
             /\ rest[k].do = "dissolve" => k < Len(rest) /\ ToTheListed(rest[k + 1])
  <2>1. k + 1 \in 1..Len(todo) /\ rest[k] = todo[k + 1] /\ k \in Nat
    BY <1>1
  <2>2. /\ todo[k + 1].do \in Storing => \A label \in todo[k + 1].labels : Told(todo, k + 1, label)
        /\ todo[k + 1].do = "dissolve" => k + 1 < Len(todo) /\ ToTheListed(todo[k + 1 + 1])
    BY <2>1 DEF Sound
  <2>3. \A label : Told(rest, k, label) <=> Told(todo, k + 1, label)
    BY <2>1, TailTold
  <2>4. k + 1 < Len(todo) => k < Len(rest) /\ rest[k + 1] = todo[k + 1 + 1]
    BY <1>1, <2>1
  <2>5. QED BY <2>1, <2>2, <2>3, <2>4
<1>3. QED BY <1>2 DEF Sound

\* What is told from the first step on is told by it or by the others.
LEMMA FirstTold ==
  ASSUME NEW todo \in Seq(Steps), NEW label, Told(todo, 0, label)
  PROVE  /\ todo # <<>>
         /\ \/ Told(Tail(todo), 0, label)
            \/ /\ label = "members" /\ todo[1].do \in Listing
               /\ Len(todo) > 1 /\ ToTheListed(todo[2])
            \/ /\ label = "notice" /\ todo[1].do \in Listing
               /\ \E m \in 2..Len(todo) : todo[m].do = "latest"
            \/ label = "room" /\ todo[1].do = "emit" /\ "room" \in todo[1].audience
            \/ /\ label \notin {"members", "notice", "room"}
               /\ todo[1].do = "emit" /\ label \in todo[1].users
<1>1. todo # <<>>
  <2>1. Len(todo) \in Nat
    BY LenProperties
  <2>2. \E i \in 1..Len(todo) : TRUE
    <3>1. CASE label = "members"
      <4>1. \E i \in (0 + 1)..(Len(todo) - 1) : TRUE
        BY <3>1 DEF Told
      <4>2. QED BY <2>1, <4>1
    <3>2. CASE label = "notice"
      BY <3>2 DEF Told
    <3>3. CASE label = "room"
      BY <3>3 DEF Told
    <3>4. CASE label \notin {"members", "notice", "room"}
      BY <3>4 DEF Told
    <3>5. QED BY <3>1, <3>2, <3>3, <3>4
  <2>3. QED BY <2>1, <2>2, EmptySeq
<1>2. Told(Tail(todo), 0, label) <=> Told(todo, 1, label)
  BY <1>1, TailTold
<1>3. Len(todo) \in Nat
  BY LenProperties
<1>4. CASE label = "members"
  <2>1. PICK i \in 1..(Len(todo) - 1) : todo[i].do \in Listing /\ ToTheListed(todo[i + 1])
    BY <1>4 DEF Told
  <2>2. CASE i = 1
    BY <1>1, <1>3, <1>4, <2>1, <2>2
  <2>3. CASE i # 1
    <3>1. i \in (1 + 1)..(Len(todo) - 1)
      BY <1>3, <2>3
    <3>2. Told(todo, 1, label)
      BY <1>4, <2>1, <3>1 DEF Told
    <3>3. QED BY <1>1, <1>2, <3>2
  <2>4. QED BY <2>2, <2>3
<1>5. CASE label = "notice"
  <2>1. PICK i, m \in 1..Len(todo) : i < m /\ todo[i].do \in Listing /\ todo[m].do = "latest"
    BY <1>5 DEF Told
  <2>2. m \in 2..Len(todo)
    BY <1>3, <2>1
  <2>3. CASE i = 1
    BY <1>1, <1>5, <2>1, <2>2, <2>3
  <2>4. CASE i # 1
    <3>1. i \in (1 + 1)..Len(todo) /\ m \in (1 + 1)..Len(todo)
      BY <1>3, <2>2, <2>4
    <3>2. Told(todo, 1, label)
      BY <1>5, <2>1, <3>1 DEF Told
    <3>3. QED BY <1>1, <1>2, <3>2
  <2>5. QED BY <2>3, <2>4
<1>6. CASE label = "room"
  <2>1. PICK i \in 1..Len(todo) : todo[i].do = "emit" /\ "room" \in todo[i].audience
    BY <1>6 DEF Told
  <2>2. CASE i = 1
    BY <1>1, <1>6, <2>1, <2>2
  <2>3. CASE i # 1
    <3>1. i \in (1 + 1)..Len(todo)
      BY <1>3, <2>3
    <3>2. Told(todo, 1, label)
      BY <1>6, <2>1, <3>1 DEF Told
    <3>3. QED BY <1>1, <1>2, <3>2
  <2>4. QED BY <2>2, <2>3
<1>7. CASE label \notin {"members", "notice", "room"}
  <2>1. PICK i \in 1..Len(todo) : todo[i].do = "emit" /\ label \in todo[i].users
    BY <1>7 DEF Told
  <2>2. CASE i = 1
    BY <1>1, <1>7, <2>1, <2>2
  <2>3. CASE i # 1
    <3>1. i \in (1 + 1)..Len(todo)
      BY <1>3, <2>3
    <3>2. Told(todo, 1, label)
      BY <1>7, <2>1, <3>1 DEF Told
    <3>3. QED BY <1>1, <1>2, <3>2
  <2>4. QED BY <2>2, <2>3
<1>8. QED BY <1>4, <1>5, <1>6, <1>7

\* The latest message that is still to be sent.
LEMMA LatestLeft ==
  ASSUME NEW todo \in Seq(Steps), todo # <<>>
  PROVE  /\ (\E m \in 2..Len(todo) : todo[m].do = "latest") => InUse(Tail(todo), "notice")
         /\ InUse(todo, "notice") /\ todo[1].do # "latest" => InUse(Tail(todo), "notice")
         /\ InUse(todo, "notice") => Latest(todo)
<1>1. /\ Len(todo) \in Nat \ {0} /\ Len(Tail(todo)) = Len(todo) - 1
      /\ \A i \in 1..Len(Tail(todo)) : Tail(todo)[i] = todo[i + 1]
  BY FirstAndRest
<1>2. ASSUME NEW m \in 2..Len(todo), todo[m].do = "latest"
      PROVE  InUse(Tail(todo), "notice")
  <2>1. m - 1 \in 1..Len(Tail(todo)) /\ Tail(todo)[m - 1] = todo[m]
    <3>1. m - 1 \in 1..Len(Tail(todo)) /\ m - 1 + 1 = m
      BY <1>1
    <3>2. QED BY <1>1, <3>1
  <2>2. QED BY <1>2, <2>1 DEF InUse
<1>3. InUse(todo, "notice") => \E m \in 1..Len(todo) : todo[m].do = "latest"
  BY DEF InUse
<1>4. \A m \in 1..Len(todo) : m = 1 \/ m \in 2..Len(todo)
  BY <1>1
<1>5. DOMAIN todo = 1..Len(todo)
  BY LenProperties
<1>6. QED BY <1>2, <1>3, <1>4, <1>5 DEF Latest

-----------------------------------------------------------------------------
(* What a step leaves as it was *)

\* A slot whose list, labels and list of members stay is fine as long as those
\* who join the audience of its changes have heard of them.
LEMMA StaysFine ==
  ASSUME NEW x \in Slots, Fine(x),
         tasks'[x].todo = tasks[x].todo, tasks'[x].did = tasks[x].did,
         tasks'[x].list = tasks[x].list, tasks'[x].over = tasks[x].over, tasks'[x].here = tasks[x].here,
         \A label \in tasks[x].did : \A s \in Audience(x, label)' :
           \/ <<x, label>> \in heard'[s]
           \/ s \in Audience(x, label) /\ <<x, label>> \notin heard[s]
  PROVE  Fine(x)'
<1> SUFFICES ASSUME Owes(x)'
             PROVE  /\ Sound(tasks'[x].todo)
                    /\ \A label \in tasks'[x].did : \A s \in Audience(x, label)' : Covered(x, label, s)'
  BY DEF Fine
<1>1. Owes(x)
  BY DEF Owes, Busy
<1>2. Sound(tasks[x].todo)
  BY <1>1 DEF Fine
<1>3. ASSUME NEW label \in tasks[x].did, NEW s, s \in Audience(x, label)'
      PROVE  Covered(x, label, s)'
  <2>1. CASE <<x, label>> \in heard'[s]
    BY <2>1 DEF Covered
  <2>2. CASE s \in Audience(x, label) /\ <<x, label>> \notin heard[s]
    BY <1>1, <2>2 DEF Fine, Covered
  <2>3. QED BY <1>3, <2>1, <2>2
<1>4. QED BY <1>2, <1>3

\* The audience of a change shrinks when nobody gains anything he follows.
LEMMA AudienceShrinks ==
  ASSUME TypeOK, TypeOK', FollowsWhatItMay, NEW x \in Slots, NEW label \in Labels, NEW s,
         s \in Audience(x, label)',
         follows'[s] \subseteq follows[s],
         "members" \in follows'[s] => hidden \cap {UserOf[s]} \subseteq hidden',
         tasks'[x].alone => tasks[x].alone
  PROVE  s \in Audience(x, label)
<1>1. s \in Sockets
  <2>1. s \in open'
    BY DEF Audience, TypeOK
  <2>2. QED BY <2>1 DEF TypeOK
<1>2. follows[s] # {} => s \in open
  BY <1>1 DEF FollowsWhatItMay
<1>3. CASE label = "members"
  BY <1>1, <1>2, <1>3 DEF Audience
<1>4. CASE label = "notice"
  BY <1>1, <1>2, <1>4 DEF Audience
<1>5. CASE label = "room"
  BY <1>1, <1>5 DEF Audience, FollowsWhatItMay
<1>6. CASE label \notin {"members", "notice", "room"}
  BY <1>1, <1>2, <1>6 DEF Audience
<1>7. QED BY <1>3, <1>4, <1>5, <1>6

\* A step of request r goes on with the next step; the other requests stay.
LEMMA GoesOn ==
  ASSUME TypeOK, NEW r \in Slots, NEW task \in Task, task.todo # <<>>, Go(r, task)
  PROVE  /\ tasks' \in [Slots -> Task]
         /\ tasks'[r].todo = Tail(task.todo) /\ tasks'[r].did = task.did
         /\ tasks'[r].list = task.list
         /\ tasks'[r].alone = task.alone /\ tasks'[r].over = task.over /\ tasks'[r].here = task.here
         /\ \A x \in Slots \ {r} : tasks'[x] = tasks[x]
<1>1. Tail(task.todo) \in Seq(Steps)
  BY FirstAndRest DEF Task
<1>2. tasks' = [tasks EXCEPT ![r] = [task EXCEPT !.todo = Tail(task.todo)]]
  BY DEF Go
<1>3. tasks \in [Slots -> Task]
  BY DEF TypeOK
<1>4. [task EXCEPT !.todo = Tail(task.todo)] \in Task
  BY <1>1 DEF Task
<1>5. QED BY <1>2, <1>3, <1>4 DEF Task

\* The step that is next.
LEMMA NextStep ==
  ASSUME TypeOK, NEW r \in Slots, NEW what, Doing(r, what)
  PROVE  /\ tasks[r] \in Task /\ tasks[r].todo \in Seq(Steps) /\ tasks[r].todo # <<>>
         /\ Step(r) = tasks[r].todo[1] /\ Step(r) \in Steps /\ Step(r).do = what
<1>1. tasks[r] \in Task /\ tasks[r].todo # <<>> /\ Step(r).do = what
  BY DEF TypeOK, Doing
<1>2. tasks[r].todo \in Seq(Steps)
  BY <1>1 DEF Task
<1>3. QED BY <1>1, <1>2, FirstAndRest DEF Step

\* The label of a change is a name or a user.
LEMMA LabelKinds == \A label \in Labels : label \in {"members", "notice", "room"} \/ label \in Users
BY DEF Labels

-----------------------------------------------------------------------------
(* The steps of a request *)

\* A change is told by the steps that are left; a client that is let out follows no
\* more of the conversation, and nobody gains anything he follows.
LEMMA StoreKeepsInv ==
  ASSUME Inv, NEW r \in Slots, StoreChange(r)
  PROVE  Inv'
<1>1. PICK what \in Storing : Doing(r, what)
  BY DEF StoreChange, Storing
<1> DEFINE todo == tasks[r].todo
           task == [tasks[r] EXCEPT !.did = @ \cup Step(r).labels]
<1>2. /\ TypeOK /\ FollowsWhatItMay /\ \A x \in Slots : Fine(x)
  BY DEF Inv
<1>3. /\ tasks[r] \in Task /\ todo \in Seq(Steps) /\ todo # <<>>
      /\ Step(r) = todo[1] /\ Step(r) \in Steps /\ Step(r).do = what
  BY <1>1, <1>2, NextStep
<1>4. Step(r).labels \subseteq Labels
  BY <1>1, <1>3 DEF Steps, Storing, Listing
<1>5. task \in Task /\ task.todo = todo /\ task.did = tasks[r].did \cup Step(r).labels
      /\ task.list = tasks[r].list /\ task.over = tasks[r].over /\ task.here = tasks[r].here /\ task.alone = tasks[r].alone
  BY <1>3, <1>4 DEF Task
<1>6. /\ tasks' \in [Slots -> Task]
      /\ tasks'[r].todo = Tail(todo) /\ tasks'[r].did = tasks[r].did \cup Step(r).labels
      /\ tasks'[r].list = tasks[r].list /\ tasks'[r].over = tasks[r].over /\ tasks'[r].here = tasks[r].here
      /\ tasks'[r].alone = tasks[r].alone
      /\ \A x \in Slots \ {r} : tasks'[x] = tasks[x]
  <2>1. Go(r, task)
    BY DEF StoreChange
  <2> HIDE DEF task
  <2>2. QED BY <1>2, <1>3, <1>5, <2>1, GoesOn
<1>7. /\ UNCHANGED <<open, joining, room, heard>>
      /\ follows' = [s \in Sockets |-> IF UserOf[s] \in members' \ (hidden \ hidden') THEN follows[s]
                                       ELSE follows[s] \cap {"user"}]
  BY DEF StoreChange, sockets
<1>8. members' \subseteq Users /\ hidden' \subseteq Users
  <2>1. members \subseteq Users /\ hidden \subseteq Users
    BY <1>2 DEF TypeOK
  <2>2. /\ Step(r).do = "admit" => Step(r).users \subseteq Users
        /\ Step(r).do \in {"expel", "hide", "unhide"} => Step(r).user \in Users
    BY <1>3 DEF Steps, Listing
  <2>3. members' = members \/ members' = members \ {Step(r).user}
        \/ (Step(r).do = "admit" /\ members' = members \cup Step(r).users)
    BY <1>3 DEF StoreChange
  <2>4. hidden' = hidden \/ hidden' = hidden \ {Step(r).user}
        \/ (Step(r).do = "hide" /\ hidden' = hidden \cup {Step(r).user})
    BY <1>3 DEF StoreChange
  <2>5. QED BY <2>1, <2>2, <2>3, <2>4
<1>9. \A s \in Sockets : /\ follows'[s] \subseteq follows[s]
                         /\ "members" \in follows'[s] \/ "room" \in follows'[s]
                              => UserOf[s] \in members' \ (hidden \ hidden')
  BY <1>7
<1>10. TypeOK'
  <2>1. follows' \in [Sockets -> SUBSET {"user", "members", "room"}]
    BY <1>2, <1>7 DEF TypeOK
  <2>2. QED BY <1>2, <1>6, <1>7, <1>8, <2>1 DEF TypeOK
<1>11. FollowsWhatItMay'
  BY <1>2, <1>7, <1>9 DEF FollowsWhatItMay
<1>12. ASSUME NEW x \in Slots, NEW label \in Labels, NEW s, s \in Audience(x, label)'
       PROVE  s \in Audience(x, label)
  <2>1. s \in Sockets
    <3>1. s \in open'
      BY <1>10, <1>12 DEF Audience, TypeOK
    <3>2. QED BY <1>10, <3>1 DEF TypeOK
  <2>2. tasks'[x].alone => tasks[x].alone
    BY <1>6
  <2>3. "members" \in follows'[s] => hidden \cap {UserOf[s]} \subseteq hidden'
    BY <1>9, <2>1
  <2>4. QED BY <1>2, <1>9, <1>10, <1>12, <2>1, <2>2, <2>3, AudienceShrinks
<1>13. ASSUME NEW x \in Slots \ {r}
       PROVE  Fine(x)'
  <2>1. tasks'[x] = tasks[x] /\ tasks[x].did \subseteq Labels /\ Fine(x)
    BY <1>2, <1>6 DEF TypeOK, Task
  <2>2. heard' = heard
    BY <1>7
  <2>3. QED BY <1>12, <2>1, <2>2, StaysFine
<1>14. Fine(r)'
  <2> SUFFICES ASSUME Owes(r)'
               PROVE  /\ Sound(Tail(todo))
                      /\ \A label \in tasks'[r].did : \A s \in Audience(r, label)' : Covered(r, label, s)'
    BY <1>6 DEF Fine
  <2>1. Owes(r) /\ Sound(todo)
    BY <1>2, <1>6 DEF Owes, Busy, Fine
  <2>2. Sound(Tail(todo))
    BY <1>3, <2>1, TailSound
  <2>3. todo[1].do \notin Listing \cup {"emit", "latest"}
    BY <1>1, <1>3 DEF Storing, Listing
  <2>4. ASSUME NEW label \in tasks[r].did, NEW s, s \in Audience(r, label)'
        PROVE  Covered(r, label, s)'
    <3>1. label \in Labels /\ s \in Audience(r, label)
      BY <1>3, <1>12, <2>4 DEF Task
    <3>2. Covered(r, label, s)
      BY <1>2, <2>1, <3>1 DEF Fine
    <3>3. CASE <<r, label>> \in heard[s]
      BY <1>7, <3>3 DEF Covered
    <3>4. CASE Told(todo, 0, label)
      BY <1>3, <1>6, <2>3, <3>4, FirstTold DEF Covered
    <3>5. CASE InUse(todo, label) /\ UserOf[s] \in tasks[r].list
      <4>1. label = "notice"
        BY <2>3, <3>5 DEF InUse, ToTheListed
      <4>2. InUse(Tail(todo), label)
        BY <1>3, <2>3, <3>5, <4>1, LatestLeft
      <4>3. QED BY <1>6, <3>5, <4>2 DEF Covered
    <3>6. QED BY <3>2, <3>3, <3>4, <3>5 DEF Covered
  <2>5. ASSUME NEW label \in Step(r).labels
        PROVE  Told(Tail(todo), 0, label)
    <3>1. Told(todo, 1, label)
      <4>1. 1 \in 1..Len(todo)
        BY <1>3, FirstAndRest
      <4>2. QED BY <1>1, <1>3, <2>1, <2>5, <4>1 DEF Sound
    <3>2. QED BY <1>3, <3>1, TailTold
  <2>6. QED BY <1>6, <2>2, <2>4, <2>5 DEF Covered
<1>15. QED BY <1>10, <1>11, <1>13, <1>14 DEF Inv

\* A request is not disturbed when no client gains anything it follows, the
\* clients that follow something keep what they have heard, and nobody who is
\* shown the conversation again follows it.
LEMMA KeepsFine ==
  ASSUME TypeOK, TypeOK', FollowsWhatItMay, NEW x \in Slots, Fine(x),
         tasks'[x].todo = tasks[x].todo, tasks'[x].did = tasks[x].did,
         tasks'[x].list = tasks[x].list, tasks'[x].over = tasks[x].over, tasks'[x].here = tasks[x].here,
         tasks'[x].alone => tasks[x].alone,
         \A s \in Sockets :
           /\ follows'[s] \subseteq follows[s]
           /\ "members" \in follows'[s] => hidden \cap {UserOf[s]} \subseteq hidden'
           /\ follows'[s] # {} =>
                \A label \in Labels : <<x, label>> \in heard[s] => <<x, label>> \in heard'[s]
  PROVE  Fine(x)'
<1>1. tasks[x].did \subseteq Labels
  BY DEF TypeOK, Task
<1>2. ASSUME NEW label \in tasks[x].did, NEW s, s \in Audience(x, label)'
      PROVE  \/ <<x, label>> \in heard'[s]
             \/ s \in Audience(x, label) /\ <<x, label>> \notin heard[s]
  <2>1. s \in Sockets /\ follows'[s] # {} /\ label \in Labels
    <3>1. s \in open' /\ follows'[s] # {}
      BY <1>2 DEF Audience, TypeOK
    <3>2. QED BY <1>1, <3>1 DEF TypeOK
  <2>2. s \in Audience(x, label)
    BY <1>2, <2>1, AudienceShrinks
  <2>3. QED BY <2>1, <2>2
<1>3. QED BY <1>2, StaysFine

\* Dissolving is told to the list that was read before it, by the very next step.
LEMMA DissolveKeepsInv ==
  ASSUME Inv, NEW r \in Slots, Dissolve(r)
  PROVE  Inv'
<1> DEFINE todo == tasks[r].todo
           task == [tasks[r] EXCEPT !.did = tasks[r].list]
<1>1. /\ TypeOK /\ FollowsWhatItMay /\ \A x \in Slots : Fine(x)
      /\ Doing(r, "dissolve")
  BY DEF Inv, Dissolve
<1>2. /\ tasks[r] \in Task /\ todo \in Seq(Steps) /\ todo # <<>>
      /\ Step(r) = todo[1] /\ Step(r).do = "dissolve"
  BY <1>1, NextStep
<1>3. task \in Task /\ task.todo = todo /\ task.did = tasks[r].list
      /\ task.list = tasks[r].list /\ task.over = tasks[r].over /\ task.here = tasks[r].here
  BY <1>2 DEF Task, Labels
<1>4. /\ tasks' \in [Slots -> Task]
      /\ tasks'[r].todo = Tail(todo) /\ tasks'[r].did = tasks[r].list
      /\ tasks'[r].list = tasks[r].list /\ tasks'[r].over = tasks[r].over /\ tasks'[r].here = tasks[r].here
      /\ \A x \in Slots \ {r} : tasks'[x] = tasks[x]
  <2>1. Go(r, task)
    BY DEF Dissolve
  <2> HIDE DEF task
  <2>2. QED BY <1>1, <1>2, <1>3, <2>1, GoesOn
<1>5. /\ UNCHANGED <<open, joining, room, heard>> /\ members' = {} /\ hidden' = {}
      /\ follows' = [s \in Sockets |-> follows[s] \cap {"user"}]
  BY DEF Dissolve, sockets
<1>6. TypeOK'
  <2>1. follows' \in [Sockets -> SUBSET {"user", "members", "room"}]
    BY <1>1, <1>5 DEF TypeOK
  <2>2. QED BY <1>1, <1>4, <1>5, <2>1 DEF TypeOK
<1>7. FollowsWhatItMay'
  BY <1>1, <1>5 DEF FollowsWhatItMay
<1>8. ASSUME NEW x \in Slots \ {r}
      PROVE  Fine(x)'
  <2>1. tasks'[x] = tasks[x] /\ Fine(x)
    BY <1>1, <1>4
  <2>2. \A s \in Sockets : /\ follows'[s] \subseteq follows[s]
                           /\ "members" \notin follows'[s] /\ heard'[s] = heard[s]
    BY <1>5
  <2>3. QED BY <1>1, <1>6, <2>1, <2>2, KeepsFine
<1>9. Fine(r)'
  <2> SUFFICES ASSUME Owes(r)'
               PROVE  /\ Sound(Tail(todo))
                      /\ \A label \in tasks[r].list : \A s \in Audience(r, label)' : Covered(r, label, s)'
    BY <1>4 DEF Fine
  <2>1. Owes(r) /\ Sound(todo)
    BY <1>1, <1>4 DEF Owes, Busy, Fine
  <2>2. Sound(Tail(todo))
    BY <1>2, <2>1, TailSound
  <2>3. /\ 1 < Len(todo) /\ ToTheListed(todo[2])
        /\ Tail(todo) # <<>> /\ Tail(todo)[1] = todo[2]
    <3>1. Len(todo) \in Nat \ {0}
      BY <1>2, FirstAndRest
    <3>2. 1 < Len(todo) /\ ToTheListed(todo[2])
      BY <1>2, <2>1, <3>1 DEF Sound
    <3>3. QED BY <1>2, <3>1, <3>2, SecondStep
  <2>4. ASSUME NEW label \in tasks[r].list, NEW s, s \in Audience(r, label)'
        PROVE  Covered(r, label, s)'
    <3>1. label \notin {"members", "notice", "room"}
      BY <1>2, NamesAreNoUsers DEF Task
    <3>2. UserOf[s] = label
      BY <2>4, <3>1 DEF Audience
    <3>3. InUse(Tail(todo), label)
      BY <2>3, <3>1 DEF InUse
    <3>4. QED BY <1>4, <3>2, <3>3 DEF Covered
  <2>5. QED BY <2>2, <2>4
<1>10. QED BY <1>6, <1>7, <1>8, <1>9 DEF Inv

\* The steps that send or read: nobody's access changes, and the audience of no
\* change grows.
LEMMA ReadMembersKeepsInv ==
  ASSUME Inv, NEW r \in Slots, ReadMembers(r)
  PROVE  Inv'
<1> DEFINE todo == tasks[r].todo
<1>1. /\ TypeOK /\ FollowsWhatItMay /\ \A x \in Slots : Fine(x)
  BY DEF Inv
<1>2. PICK what \in Listing, read \in {members, members \ hidden} :
        Doing(r, what) /\ Go(r, [tasks[r] EXCEPT !.list = read])
  BY DEF ReadMembers, Listing
<1> DEFINE task == [tasks[r] EXCEPT !.list = read]
<1>3. /\ tasks[r] \in Task /\ todo \in Seq(Steps) /\ todo # <<>>
      /\ Step(r) = todo[1] /\ Step(r).do = what
  BY <1>1, <1>2, NextStep
<1>4. task \in Task /\ task.todo = todo /\ task.did = tasks[r].did
      /\ task.list = read /\ task.over = tasks[r].over /\ task.here = tasks[r].here /\ task.alone = tasks[r].alone
  BY <1>1, <1>3 DEF Task, TypeOK
<1>5. /\ tasks' \in [Slots -> Task]
      /\ tasks'[r].todo = Tail(todo) /\ tasks'[r].did = tasks[r].did
      /\ tasks'[r].list = read /\ tasks'[r].over = tasks[r].over /\ tasks'[r].here = tasks[r].here
      /\ tasks'[r].alone = tasks[r].alone
      /\ \A x \in Slots \ {r} : tasks'[x] = tasks[x]
  <2>1. Go(r, task)
    BY <1>2
  <2> HIDE DEF task
  <2>2. QED BY <1>1, <1>3, <1>4, <2>1, GoesOn
<1>6. UNCHANGED <<open, joining, room, members, hidden, heard, follows>>
  BY DEF ReadMembers, sockets, conversation
<1>7. TypeOK'
  BY <1>1, <1>5, <1>6 DEF TypeOK
<1>8. FollowsWhatItMay'
  BY <1>1, <1>6 DEF FollowsWhatItMay
<1>9. ASSUME NEW x \in Slots \ {r}
      PROVE  Fine(x)'
  <2>1. tasks'[x] = tasks[x] /\ Fine(x)
    BY <1>1, <1>5
  <2>2. QED BY <1>1, <1>6, <1>7, <2>1, KeepsFine
<1>10. Fine(r)'
  <2> SUFFICES ASSUME Owes(r)'
               PROVE  /\ Sound(Tail(todo))
                      /\ \A label \in tasks[r].did : \A s \in Audience(r, label)' : Covered(r, label, s)'
    BY <1>5 DEF Fine
  <2>1. Owes(r) /\ Sound(todo)
    BY <1>1, <1>5 DEF Owes, Busy, Fine
  <2>2. Sound(Tail(todo))
    BY <1>3, <2>1, TailSound
  <2>3. todo[1].do \in Listing
    BY <1>3
  <2>4. ASSUME NEW label \in tasks[r].did, NEW s, s \in Audience(r, label)'
        PROVE  Covered(r, label, s)'
    <3>1. s \in Audience(r, label) /\ label \in Labels
      BY <1>3, <1>5, <1>6, <2>4 DEF Audience, Task
    <3>2. Covered(r, label, s)
      BY <1>1, <2>1, <3>1 DEF Fine
    <3>3. ASSUME label \in {"members", "notice"}
          PROVE  UserOf[s] \in read
      <4>1. s \in Sockets /\ "members" \in follows[s] /\ UserOf[s] \notin hidden
        BY <1>1, <3>1, <3>3 DEF Audience, TypeOK
      <4>2. QED BY <1>1, <4>1 DEF FollowsWhatItMay
    <3>4. CASE <<r, label>> \in heard[s]
      BY <1>6, <3>4 DEF Covered
    <3>5. CASE InUse(todo, label)
      <4>1. label = "notice"
        BY <2>3, <3>5 DEF InUse, ToTheListed, Listing
      <4>2. InUse(Tail(todo), label)
        BY <1>3, <2>3, <3>5, <4>1, LatestLeft DEF Listing
      <4>3. QED BY <1>5, <3>3, <4>1, <4>2 DEF Covered
    <3>6. CASE Told(todo, 0, label)
      <4>1. \/ Told(Tail(todo), 0, label)
            \/ label = "members" /\ Len(todo) > 1 /\ ToTheListed(todo[2])
            \/ label = "notice" /\ \E m \in 2..Len(todo) : todo[m].do = "latest"
        BY <1>3, <2>3, <3>6, FirstTold DEF Listing
      <4>2. CASE Told(Tail(todo), 0, label)
        BY <1>5, <4>2 DEF Covered
      <4>3. CASE label = "members" /\ Len(todo) > 1 /\ ToTheListed(todo[2])
        <5>1. Tail(todo) # <<>> /\ Tail(todo)[1] = todo[2]
          BY <1>3, <4>3, SecondStep
        <5>2. InUse(Tail(todo), label)
          BY <4>3, <5>1 DEF InUse
        <5>3. QED BY <1>5, <3>3, <4>3, <5>2 DEF Covered
      <4>4. CASE label = "notice" /\ \E m \in 2..Len(todo) : todo[m].do = "latest"
        <5>1. InUse(Tail(todo), label)
          BY <1>3, <4>4, LatestLeft
        <5>2. QED BY <1>5, <3>3, <4>4, <5>1 DEF Covered
      <4>5. QED BY <4>1, <4>2, <4>3, <4>4
    <3>7. QED BY <3>2, <3>4, <3>5, <3>6 DEF Covered
  <2>5. QED BY <2>2, <2>4
<1>11. QED BY <1>7, <1>8, <1>9, <1>10 DEF Inv

\* The clients the events reach have heard; the list is kept for the latest message.
LEMMA EmitKeepsInv ==
  ASSUME Inv, NEW r \in Slots, EmitEvents(r)
  PROVE  Inv'
<1> DEFINE todo == tasks[r].todo
           task == [tasks[r] EXCEPT !.list = IF Latest(tasks[r].todo) THEN @ ELSE {}]
           reached(label) == Reached(Step(r), tasks[r].list, label)
<1>1. /\ TypeOK /\ FollowsWhatItMay /\ \A x \in Slots : Fine(x)
      /\ Doing(r, "emit")
  BY DEF Inv, EmitEvents
<1>2. /\ tasks[r] \in Task /\ todo \in Seq(Steps) /\ todo # <<>>
      /\ Step(r) = todo[1] /\ Step(r).do = "emit"
  BY <1>1, NextStep
<1>3. task \in Task /\ task.todo = todo /\ task.did = tasks[r].did
      /\ task.list = (IF Latest(todo) THEN tasks[r].list ELSE {})
      /\ task.over = tasks[r].over /\ task.here = tasks[r].here /\ task.alone = tasks[r].alone
  BY <1>2 DEF Task
<1>4. /\ tasks' \in [Slots -> Task]
      /\ tasks'[r].todo = Tail(todo) /\ tasks'[r].did = tasks[r].did
      /\ tasks'[r].list = (IF Latest(todo) THEN tasks[r].list ELSE {})
      /\ tasks'[r].over = tasks[r].over /\ tasks'[r].here = tasks[r].here
      /\ tasks'[r].alone = tasks[r].alone
      /\ \A x \in Slots \ {r} : tasks'[x] = tasks[x]
  <2>1. Go(r, task)
    BY DEF EmitEvents
  <2> HIDE DEF task
  <2>2. QED BY <1>1, <1>2, <1>3, <2>1, GoesOn
<1>5. UNCHANGED <<open, joining, room, members, hidden, follows>>
  BY DEF EmitEvents, sockets, conversation
<1>6. heard' = [s \in Sockets |->
                  heard[s] \cup {<<r, l>> : l \in {x \in tasks[r].did : s \in reached(x)}}]
  BY DEF EmitEvents
<1>7. /\ heard' \in [Sockets -> SUBSET (Slots \X Labels)]
      /\ \A s \in Sockets : heard[s] \subseteq heard'[s]
      /\ \A s \in Sockets : \A label \in tasks[r].did :
           s \in reached(label) => <<r, label>> \in heard'[s]
  <2>1. tasks[r].did \subseteq Labels /\ heard \in [Sockets -> SUBSET (Slots \X Labels)]
    BY <1>1, <1>2 DEF Task, TypeOK
  <2> HIDE DEF reached
  <2>2. QED BY <1>6, <2>1
<1>8. TypeOK'
  BY <1>1, <1>4, <1>5, <1>7 DEF TypeOK
<1>9. FollowsWhatItMay'
  BY <1>1, <1>5 DEF FollowsWhatItMay
<1>10. ASSUME NEW x \in Slots \ {r}
       PROVE  Fine(x)'
  <2>1. tasks'[x] = tasks[x] /\ Fine(x)
    BY <1>1, <1>4
  <2>2. QED BY <1>1, <1>5, <1>7, <1>8, <2>1, KeepsFine
<1>11. Fine(r)'
  <2> SUFFICES ASSUME Owes(r)'
               PROVE  /\ Sound(Tail(todo))
                      /\ \A label \in tasks[r].did : \A s \in Audience(r, label)' : Covered(r, label, s)'
    BY <1>4 DEF Fine
  <2>1. Owes(r) /\ Sound(todo)
    BY <1>1, <1>4 DEF Owes, Busy, Fine
  <2>2. Sound(Tail(todo))
    BY <1>2, <2>1, TailSound
  <2>3. ASSUME NEW label \in tasks[r].did, NEW s, s \in Audience(r, label)'
        PROVE  Covered(r, label, s)'
    <3>1. s \in Audience(r, label) /\ label \in Labels
      BY <1>2, <1>4, <1>5, <2>3 DEF Audience, Task
    <3>2. Covered(r, label, s)
      BY <1>1, <2>1, <3>1 DEF Fine
    <3>3. s \in Sockets /\ s \in open
      BY <1>1, <3>1 DEF Audience, TypeOK
    <3>4. CASE <<r, label>> \in heard[s]
      BY <1>7, <3>3, <3>4 DEF Covered
    <3>5. CASE s \in reached(label)
      BY <1>7, <3>3, <3>5 DEF Covered
    <3>6. CASE Told(todo, 0, label)
      <4>1. \/ Told(Tail(todo), 0, label)
            \/ label = "room" /\ "room" \in todo[1].audience
            \/ label \notin {"members", "notice", "room"} /\ label \in todo[1].users
        BY <1>2, <3>6, FirstTold DEF Listing
      <4>2. CASE Told(Tail(todo), 0, label)
        BY <1>4, <4>2 DEF Covered
      <4>3. CASE label = "room" /\ "room" \in todo[1].audience
        <5>1. s \in reached(label)
          BY <1>2, <3>1, <4>3 DEF Audience, Reached
        <5>2. QED BY <3>5, <5>1
      <4>4. CASE label \notin {"members", "notice", "room"} /\ label \in todo[1].users
        <5>1. UserOf[s] = label
          BY <3>1, <4>4 DEF Audience
        <5>2. s \in reached(label)
          BY <1>2, <3>3, <4>4, <5>1 DEF Reached, SocketsOf
        <5>3. QED BY <3>5, <5>2
      <4>5. QED BY <4>1, <4>2, <4>3, <4>4
    <3>7. CASE InUse(todo, label) /\ UserOf[s] \in tasks[r].list
      <4>1. CASE label = "notice"
        <5>1. InUse(Tail(todo), label) /\ Latest(todo)
          BY <1>2, <3>7, <4>1, LatestLeft
        <5>2. QED BY <1>4, <3>7, <5>1 DEF Covered
      <4>2. CASE label # "notice"
        <5>1. label # "room" /\ "listed" \in todo[1].audience
          BY <3>7, <4>2 DEF InUse, ToTheListed
        <5>2. s \in reached(label)
          BY <1>2, <3>3, <3>7, <4>2, <5>1 DEF Reached, SocketsOf
        <5>3. QED BY <3>5, <5>2
      <4>3. QED BY <4>1, <4>2
    <3>8. QED BY <3>2, <3>4, <3>6, <3>7 DEF Covered
  <2>4. QED BY <2>2, <2>3
<1>12. QED BY <1>8, <1>9, <1>10, <1>11 DEF Inv

\* The latest message reaches the list, unless others may have sent a newer one: then
\* nobody is promised it.
LEMMA EmitLatestKeepsInv ==
  ASSUME Inv, NEW r \in Slots, EmitLatestMessage(r)
  PROVE  Inv'
<1> DEFINE todo == tasks[r].todo
           task == [tasks[r] EXCEPT !.list = {}]
<1>1. /\ TypeOK /\ FollowsWhatItMay /\ \A x \in Slots : Fine(x)
      /\ Doing(r, "latest")
  BY DEF Inv, EmitLatestMessage
<1>2. /\ tasks[r] \in Task /\ todo \in Seq(Steps) /\ todo # <<>>
      /\ Step(r) = todo[1] /\ Step(r).do = "latest"
  BY <1>1, NextStep
<1>3. task \in Task /\ task.todo = todo /\ task.did = tasks[r].did /\ task.list = {}
      /\ task.over = tasks[r].over /\ task.here = tasks[r].here /\ task.alone = tasks[r].alone
  BY <1>2 DEF Task
<1>4. /\ tasks' \in [Slots -> Task]
      /\ tasks'[r].todo = Tail(todo) /\ tasks'[r].did = tasks[r].did
      /\ tasks'[r].over = tasks[r].over /\ tasks'[r].here = tasks[r].here
      /\ tasks'[r].alone = tasks[r].alone
      /\ \A x \in Slots \ {r} : tasks'[x] = tasks[x]
  <2>1. Go(r, task)
    BY DEF EmitLatestMessage
  <2> HIDE DEF task
  <2>2. QED BY <1>1, <1>2, <1>3, <2>1, GoesOn
<1>5. UNCHANGED <<open, joining, room, members, hidden, follows>>
  BY DEF EmitLatestMessage, sockets, conversation
<1>6. /\ heard' \in [Sockets -> SUBSET (Slots \X Labels)]
      /\ \A s \in Sockets : heard[s] \subseteq heard'[s]
      /\ \A s \in Sockets : tasks[r].alone /\ "notice" \in tasks[r].did /\ s \in SocketsOf(tasks[r].list)
                              => <<r, "notice">> \in heard'[s]
  <2>1. heard \in [Sockets -> SUBSET (Slots \X Labels)] /\ "notice" \in Labels
    BY <1>1 DEF TypeOK, Labels
  <2>2. heard' = [s \in Sockets |->
                   IF tasks[r].alone /\ "notice" \in tasks[r].did /\ s \in SocketsOf(tasks[r].list)
                     THEN heard[s] \cup {<<r, "notice">>} ELSE heard[s]]
    BY DEF EmitLatestMessage
  <2>3. QED BY <2>1, <2>2
<1>7. TypeOK'
  BY <1>1, <1>4, <1>5, <1>6 DEF TypeOK
<1>8. FollowsWhatItMay'
  BY <1>1, <1>5 DEF FollowsWhatItMay
<1>9. ASSUME NEW x \in Slots \ {r}
      PROVE  Fine(x)'
  <2>1. tasks'[x] = tasks[x] /\ Fine(x)
    BY <1>1, <1>4
  <2>2. QED BY <1>1, <1>5, <1>6, <1>7, <2>1, KeepsFine
<1>10. Fine(r)'
  <2> SUFFICES ASSUME Owes(r)'
               PROVE  /\ Sound(Tail(todo))
                      /\ \A label \in tasks[r].did : \A s \in Audience(r, label)' : Covered(r, label, s)'
    BY <1>4 DEF Fine
  <2>1. Owes(r) /\ Sound(todo)
    BY <1>1, <1>4 DEF Owes, Busy, Fine
  <2>2. Sound(Tail(todo))
    BY <1>2, <2>1, TailSound
  <2>3. ASSUME NEW label \in tasks[r].did, NEW s, s \in Audience(r, label)'
        PROVE  Covered(r, label, s)'
    <3>1. s \in Audience(r, label)
      BY <1>4, <1>5, <2>3 DEF Audience
    <3>2. Covered(r, label, s)
      BY <1>1, <2>1, <3>1 DEF Fine
    <3>3. s \in Sockets /\ s \in open
      BY <1>1, <3>1 DEF Audience, TypeOK
    <3>4. CASE <<r, label>> \in heard[s]
      BY <1>6, <3>3, <3>4 DEF Covered
    <3>5. CASE Told(todo, 0, label)
      <4>1. Told(Tail(todo), 0, label)
        BY <1>2, <3>5, FirstTold DEF Listing
      <4>2. QED BY <1>4, <4>1 DEF Covered
    <3>6. CASE InUse(todo, label) /\ UserOf[s] \in tasks[r].list
      <4>1. label = "notice"
        BY <1>2, <3>6 DEF InUse, ToTheListed
      <4>2. tasks[r].alone /\ s \in SocketsOf(tasks[r].list)
        BY <3>1, <3>3, <3>6, <4>1 DEF Audience, SocketsOf
      <4>3. QED BY <1>6, <2>3, <3>3, <4>1, <4>2 DEF Covered
    <3>7. QED BY <3>2, <3>4, <3>5, <3>6 DEF Covered
  <2>4. QED BY <2>2, <2>3
<1>11. QED BY <1>7, <1>8, <1>9, <1>10 DEF Inv

\* A client that loads the conversation hears of everything that is stored.
LEMMA LoadTells ==
  ASSUME TypeOK, NEW loading \in SUBSET open, Load(loading)
  PROVE  /\ heard' \in [Sockets -> SUBSET (Slots \X Labels)]
         /\ follows' \in [Sockets -> SUBSET {"user", "members", "room"}]
         /\ \A s \in loading : follows'[s] = Loaded(s)
         /\ \A s \in Sockets \ loading : heard'[s] = heard[s] /\ follows'[s] = follows[s]
         /\ \A x \in Slots : \A label \in tasks[x].did : \A s \in loading : <<x, label>> \in heard'[s]
<1>1. /\ loading \subseteq Sockets /\ heard \in [Sockets -> SUBSET (Slots \X Labels)]
      /\ follows \in [Sockets -> SUBSET {"user", "members", "room"}]
      /\ \A x \in Slots : tasks[x].did \subseteq Labels
  BY DEF TypeOK, Task
<1> DEFINE all == {c \in Slots \X Labels : c[2] \in tasks[c[1]].did}
<1>2. /\ all \subseteq Slots \X Labels
      /\ \A x \in Slots : \A label \in tasks[x].did : <<x, label>> \in all
  BY <1>1
<1>3. \A s \in Sockets : Loaded(s) \subseteq {"user", "members", "room"}
  BY DEF Loaded
<1>4. /\ heard' = [s \in Sockets |-> IF s \in loading THEN all ELSE heard[s]]
      /\ follows' = [s \in Sockets |-> IF s \in loading THEN Loaded(s) ELSE follows[s]]
  BY DEF Load
<1> HIDE DEF all
<1>5. QED BY <1>1, <1>2, <1>3, <1>4

\* Loading keeps what the clients may follow, and leaves a request as fine as it was.
LEMMA LoadKeepsFollowing ==
  ASSUME Inv, NEW loading \in SUBSET open, Load(loading),
         UNCHANGED <<open, joining, room, members, hidden>>, tasks' \in [Slots -> Task]
  PROVE  /\ TypeOK' /\ FollowsWhatItMay'
         /\ \A x \in Slots : tasks'[x].did = tasks[x].did /\ tasks'[x].alone = tasks[x].alone =>
              \A label \in tasks[x].did : \A s \in Audience(x, label)' :
                \/ <<x, label>> \in heard'[s]
                \/ s \in Audience(x, label) /\ heard'[s] = heard[s]
<1>1. TypeOK /\ FollowsWhatItMay /\ loading \subseteq Sockets
  BY DEF Inv, TypeOK
<1>2. /\ heard' \in [Sockets -> SUBSET (Slots \X Labels)]
      /\ follows' \in [Sockets -> SUBSET {"user", "members", "room"}]
      /\ \A s \in loading : follows'[s] = Loaded(s)
      /\ \A s \in Sockets \ loading : heard'[s] = heard[s] /\ follows'[s] = follows[s]
      /\ \A x \in Slots : \A label \in tasks[x].did : \A s \in loading : <<x, label>> \in heard'[s]
  BY <1>1, LoadTells
<1>3. TypeOK'
  BY <1>1, <1>2 DEF TypeOK
<1>4. FollowsWhatItMay'
  BY <1>1, <1>2 DEF FollowsWhatItMay, Loaded
<1>5. ASSUME NEW x \in Slots, tasks'[x].did = tasks[x].did, tasks'[x].alone = tasks[x].alone,
             NEW label \in tasks[x].did, NEW s, s \in Audience(x, label)'
      PROVE  \/ <<x, label>> \in heard'[s]
             \/ s \in Audience(x, label) /\ heard'[s] = heard[s]
  <2>1. s \in Sockets
    <3>1. s \in open'
      BY <1>3, <1>5 DEF Audience, TypeOK
    <3>2. QED BY <1>3, <3>1 DEF TypeOK
  <2>2. CASE s \in loading
    BY <1>2, <2>2
  <2>3. CASE s \notin loading
    <3>1. follows'[s] = follows[s] /\ heard'[s] = heard[s]
      BY <1>2, <2>1, <2>3
    <3>2. s \in Audience(x, label)
      BY <1>5, <3>1 DEF Audience
    <3>3. QED BY <3>1, <3>2
  <2>4. QED BY <2>2, <2>3
<1>6. QED BY <1>3, <1>4, <1>5

\* The clients of the user who is welcomed load what is stored; the list stays in use.
LEMMA WelcomeKeepsInv ==
  ASSUME Inv, NEW r \in Slots, WelcomeUser(r)
  PROVE  Inv'
<1> DEFINE todo == tasks[r].todo
           loading == {s \in SocketsOf({Step(r).user}) : UserOf[s] \in members}
<1>1. /\ TypeOK /\ FollowsWhatItMay /\ \A x \in Slots : Fine(x)
      /\ Doing(r, "welcome") /\ loading \in SUBSET open
  BY DEF Inv, WelcomeUser, SocketsOf
<1>2. /\ tasks[r] \in Task /\ todo \in Seq(Steps) /\ todo # <<>>
      /\ Step(r) = todo[1] /\ Step(r).do = "welcome"
  BY <1>1, NextStep
<1>3. /\ tasks' \in [Slots -> Task]
      /\ tasks'[r].todo = Tail(todo) /\ tasks'[r].did = tasks[r].did
      /\ tasks'[r].list = tasks[r].list /\ tasks'[r].over = tasks[r].over /\ tasks'[r].here = tasks[r].here
      /\ tasks'[r].alone = tasks[r].alone
      /\ \A x \in Slots \ {r} : tasks'[x] = tasks[x]
  <2>1. Go(r, tasks[r])
    BY DEF WelcomeUser
  <2>2. QED BY <1>1, <1>2, <2>1, GoesOn
<1>4. UNCHANGED <<open, joining, room, members, hidden>> /\ Load(loading)
  BY DEF WelcomeUser, sockets, conversation
<1> HIDE DEF loading
<1>5. /\ TypeOK' /\ FollowsWhatItMay'
      /\ \A x \in Slots : tasks'[x].did = tasks[x].did /\ tasks'[x].alone = tasks[x].alone =>
           \A label \in tasks[x].did : \A s \in Audience(x, label)' :
             \/ <<x, label>> \in heard'[s]
             \/ s \in Audience(x, label) /\ heard'[s] = heard[s]
  BY <1>1, <1>3, <1>4, LoadKeepsFollowing
<1>6. ASSUME NEW x \in Slots \ {r}
      PROVE  Fine(x)'
  <2>1. tasks'[x] = tasks[x] /\ Fine(x)
    BY <1>1, <1>3
  <2>2. \A label \in tasks[x].did : \A s \in Audience(x, label)' :
          \/ <<x, label>> \in heard'[s]
          \/ s \in Audience(x, label) /\ <<x, label>> \notin heard[s]
    BY <1>5, <2>1
  <2>3. QED BY <2>1, <2>2, StaysFine
<1>7. Fine(r)'
  <2> SUFFICES ASSUME Owes(r)'
               PROVE  /\ Sound(Tail(todo))
                      /\ \A label \in tasks[r].did : \A s \in Audience(r, label)' : Covered(r, label, s)'
    BY <1>3 DEF Fine
  <2>1. Owes(r) /\ Sound(todo)
    BY <1>1, <1>3 DEF Owes, Busy, Fine
  <2>2. Sound(Tail(todo))
    BY <1>2, <2>1, TailSound
  <2>3. ASSUME NEW label \in tasks[r].did, NEW s, s \in Audience(r, label)'
        PROVE  Covered(r, label, s)'
    <3>1. CASE <<r, label>> \in heard'[s]
      BY <3>1 DEF Covered
    <3>2. CASE s \in Audience(r, label) /\ heard'[s] = heard[s]
      <4>1. Covered(r, label, s)
        BY <1>1, <2>1, <3>2 DEF Fine
      <4>2. CASE <<r, label>> \in heard[s]
        BY <3>2, <4>2 DEF Covered
      <4>3. CASE Told(todo, 0, label)
        <5>1. Told(Tail(todo), 0, label)
          BY <1>2, <4>3, FirstTold DEF Listing
        <5>2. QED BY <1>3, <5>1 DEF Covered
      <4>4. CASE InUse(todo, label) /\ UserOf[s] \in tasks[r].list
        <5>1. label = "notice"
          BY <1>2, <4>4 DEF InUse, ToTheListed
        <5>2. InUse(Tail(todo), label)
          BY <1>2, <4>4, <5>1, LatestLeft
        <5>3. QED BY <1>3, <4>4, <5>2 DEF Covered
      <4>5. QED BY <4>1, <4>2, <4>3, <4>4 DEF Covered
    <3>3. QED BY <1>3, <1>5, <2>3, <3>1, <3>2
  <2>4. QED BY <2>2, <2>3
<1>8. QED BY <1>5, <1>6, <1>7 DEF Inv

\* What is idle is fine.
LEMMA IdleIsFine == Idle \in Task /\ \A x : tasks[x] = Idle => Fine(x)
<1>1. <<>> \in Seq(Steps)
  BY EmptySeq
<1>2. Idle \in Task /\ Idle.over
  BY <1>1 DEF Idle, Task
<1>3. QED BY <1>2 DEF Fine, Owes, Busy

\* A request that fails or ends owes nothing any more, and the others keep what was heard.
LEMMA LeavesKeepsInv ==
  ASSUME Inv, NEW r \in Slots, CallFails(r) \/ Finish(r)
  PROVE  Inv'
<1>1. /\ TypeOK /\ FollowsWhatItMay /\ \A x \in Slots : Fine(x)
      /\ tasks[r] \in Task /\ tasks \in [Slots -> Task]
  BY DEF Inv, TypeOK
<1>2. /\ UNCHANGED <<open, joining, room, members, hidden, follows>>
      /\ heard' = [s \in Sockets |-> {c \in heard[s] : c[1] # r}]
  BY DEF CallFails, Finish, sockets, conversation
<1>3. /\ tasks' \in [Slots -> Task]
      /\ \A x \in Slots \ {r} : tasks'[x] = tasks[x]
      /\ \/ tasks'[r] = Idle
         \/ /\ Busy(r) /\ tasks[r].todo \in Seq(Steps) /\ tasks[r].todo # <<>>
            /\ tasks'[r].todo = Tail(tasks[r].todo) /\ tasks'[r].did = {}
            /\ tasks'[r].here = tasks[r].here
  <2>1. CASE tasks' = [tasks EXCEPT ![r] = Idle]
    BY <1>1, <2>1, IdleIsFine
  <2>2. ASSUME Busy(r), NEW what, Doing(r, what), Go(r, [tasks[r] EXCEPT !.list = {}, !.did = {}])
        PROVE  /\ tasks' \in [Slots -> Task]
               /\ \A x \in Slots \ {r} : tasks'[x] = tasks[x]
               /\ Busy(r) /\ tasks[r].todo \in Seq(Steps) /\ tasks[r].todo # <<>>
               /\ tasks'[r].todo = Tail(tasks[r].todo) /\ tasks'[r].did = {}
               /\ tasks'[r].here = tasks[r].here
    <3> DEFINE task == [tasks[r] EXCEPT !.list = {}, !.did = {}]
    <3>1. tasks[r].todo \in Seq(Steps) /\ tasks[r].todo # <<>>
      BY <1>1, <2>2, NextStep
    <3>2. task \in Task /\ task.todo = tasks[r].todo /\ task.did = {} /\ task.here = tasks[r].here
      BY <1>1 DEF Task
    <3>3. Go(r, task)
      BY <2>2
    <3> HIDE DEF task
    <3>4. QED BY <1>1, <2>2, <3>1, <3>2, <3>3, GoesOn
  <2>3. QED BY <2>1, <2>2 DEF CallFails, Finish
<1>4. heard' \in [Sockets -> SUBSET (Slots \X Labels)]
  BY <1>1, <1>2 DEF TypeOK
<1>5. TypeOK'
  BY <1>1, <1>2, <1>3, <1>4 DEF TypeOK
<1>6. FollowsWhatItMay'
  BY <1>1, <1>2 DEF FollowsWhatItMay
<1>7. ASSUME NEW x \in Slots \ {r}
      PROVE  Fine(x)'
  <2>1. tasks'[x] = tasks[x] /\ Fine(x)
    BY <1>1, <1>3
  <2>2. \A s \in Sockets : \A label \in Labels : <<x, label>> \in heard[s] => <<x, label>> \in heard'[s]
    BY <1>2
  <2>3. QED BY <1>1, <1>2, <1>5, <2>1, <2>2, KeepsFine
<1>8. Fine(r)'
  <2>1. CASE tasks'[r] = Idle
    BY <2>1, IdleIsFine DEF Fine, Owes, Busy, Idle
  <2>2. CASE /\ Busy(r) /\ tasks[r].todo \in Seq(Steps) /\ tasks[r].todo # <<>>
             /\ tasks'[r].todo = Tail(tasks[r].todo) /\ tasks'[r].did = {}
             /\ tasks'[r].here = tasks[r].here
    <3>1. tasks'[r].here => Sound(Tail(tasks[r].todo))
      BY <1>1, <2>2, TailSound DEF Fine, Owes
    <3>2. QED BY <2>2, <3>1 DEF Fine, Owes
  <2>3. QED BY <1>3, <2>1, <2>2
<1>9. QED BY <1>5, <1>6, <1>7, <1>8 DEF Inv

-----------------------------------------------------------------------------
(* A request begins, and the sockets *)

\* A request that begins has stored nothing; the others may lose the latest
\* message to it.
LEMMA BeginKeepsInv ==
  ASSUME Inv, NEW r \in Slots, NEW handler \in Seq(Steps),
         handler \in Elsewhere \/ Sound(handler), Begin(r, handler)
  PROVE  Inv'
<1> DEFINE first == [todo |-> handler, did |-> {}, list |-> {},
                     alone |-> (\A x \in Slots : ~Busy(x)) \/ ~Latest(handler),
                     here |-> handler \notin Elsewhere, over |-> FALSE]
           other(x) == [tasks[x] EXCEPT !.alone = @ /\ ~Latest(tasks[x].todo)]
<1>1. /\ TypeOK /\ FollowsWhatItMay /\ \A x \in Slots : Fine(x)
      /\ \A x \in Slots : tasks[x] \in Task
  BY DEF Inv, TypeOK
<1>2. /\ UNCHANGED <<open, joining, room, members, hidden, heard, follows>>
      /\ tasks' = [x \in Slots |-> IF x = r THEN first ELSE other(x)]
  BY DEF Begin, sockets, conversation
<1>3. first \in Task /\ first.todo = handler /\ first.did = {} /\ (first.here => Sound(handler))
  BY DEF Task, Latest
<1>4. ASSUME NEW x \in Slots
      PROVE  /\ other(x) \in Task /\ other(x).todo = tasks[x].todo /\ other(x).did = tasks[x].did
             /\ other(x).list = tasks[x].list /\ other(x).over = tasks[x].over
             /\ other(x).here = tasks[x].here
             /\ other(x).alone => tasks[x].alone
  <2>1. tasks[x] \in Task
    BY <1>1
  <2>2. Latest(tasks[x].todo) \in BOOLEAN
    BY DEF Latest
  <2>3. QED BY <2>1, <2>2 DEF Task
<1> HIDE DEF first, other
<1>5. TypeOK'
  BY <1>1, <1>2, <1>3, <1>4 DEF TypeOK
<1>6. FollowsWhatItMay'
  BY <1>1, <1>2 DEF FollowsWhatItMay
<1>7. ASSUME NEW x \in Slots \ {r}
      PROVE  Fine(x)'
  <2>1. tasks'[x] = other(x) /\ Fine(x)
    BY <1>1, <1>2
  <2>2. /\ tasks'[x].todo = tasks[x].todo /\ tasks'[x].did = tasks[x].did
        /\ tasks'[x].list = tasks[x].list /\ tasks'[x].over = tasks[x].over
        /\ tasks'[x].here = tasks[x].here
        /\ tasks'[x].alone => tasks[x].alone
    BY <1>4, <2>1
  <2>3. QED BY <1>1, <1>2, <1>5, <2>1, <2>2, KeepsFine
<1>8. Fine(r)'
  BY <1>2, <1>3 DEF Fine, Owes
<1>9. QED BY <1>5, <1>6, <1>7, <1>8 DEF Inv

\* A socket comes, leaves, joins the room or leaves it.
LEMMA SocketKeepsInv ==
  ASSUME Inv, NEW c \in Sockets,
         Connect(c) \/ Disconnect(c) \/ HandleJoinGroup(c) \/ EnterRoom(c) \/ HandleLeaveGroup(c)
  PROVE  Inv'
<1>1. TypeOK /\ FollowsWhatItMay /\ \A x \in Slots : Fine(x)
  BY DEF Inv
<1>2. /\ UNCHANGED <<members, hidden, tasks>>
      /\ open' \subseteq Sockets /\ joining' \subseteq open' /\ room' \subseteq open'
      /\ heard' \in [Sockets -> SUBSET (Slots \X Labels)]
      /\ follows' \in [Sockets -> SUBSET {"user", "members", "room"}]
      /\ \A s \in Sockets : /\ follows'[s] \subseteq follows[s]
                            /\ follows'[s] # {} => heard'[s] = heard[s]
                            /\ follows'[s] # {} /\ s \in open => s \in open'
                            /\ "room" \in follows'[s] /\ s \in room => s \in room'
  <2>1. CASE Connect(c)
    BY <1>1, <2>1 DEF Connect, conversation, TypeOK
  <2>2. CASE Disconnect(c)
    BY <1>1, <2>2 DEF Disconnect, conversation, TypeOK
  <2>3. CASE HandleJoinGroup(c)
    BY <1>1, <2>3 DEF HandleJoinGroup, conversation, TypeOK
  <2>4. CASE EnterRoom(c)
    BY <1>1, <2>4 DEF EnterRoom, conversation, TypeOK
  <2>5. CASE HandleLeaveGroup(c)
    BY <1>1, <2>5 DEF HandleLeaveGroup, conversation, TypeOK
  <2>6. QED BY <2>1, <2>2, <2>3, <2>4, <2>5
<1>3. TypeOK'
  BY <1>1, <1>2 DEF TypeOK
<1>4. FollowsWhatItMay'
  BY <1>1, <1>2 DEF FollowsWhatItMay
<1>5. ASSUME NEW x \in Slots
      PROVE  Fine(x)'
  BY <1>1, <1>2, <1>3, KeepsFine
<1>6. QED BY <1>3, <1>4, <1>5 DEF Inv

\* A client that loads hears of everything that is stored.
LEMMA LoadKeepsInv ==
  ASSUME Inv, NEW c \in Sockets, LoadConversation(c)
  PROVE  Inv'
<1>1. /\ TypeOK /\ FollowsWhatItMay /\ \A x \in Slots : Fine(x)
      /\ {c} \in SUBSET open /\ Load({c}) /\ tasks' = tasks
      /\ UNCHANGED <<open, joining, room, members, hidden>>
  BY DEF Inv, LoadConversation, sockets, conversation
<1>2. tasks' \in [Slots -> Task]
  BY <1>1 DEF TypeOK
<1>3. /\ TypeOK' /\ FollowsWhatItMay'
      /\ \A x \in Slots : tasks'[x].did = tasks[x].did /\ tasks'[x].alone = tasks[x].alone =>
           \A label \in tasks[x].did : \A s \in Audience(x, label)' :
             \/ <<x, label>> \in heard'[s]
             \/ s \in Audience(x, label) /\ heard'[s] = heard[s]
  BY <1>1, <1>2, LoadKeepsFollowing
<1>4. ASSUME NEW x \in Slots
      PROVE  Fine(x)'
  <2>1. \A label \in tasks[x].did : \A s \in Audience(x, label)' :
          \/ <<x, label>> \in heard'[s]
          \/ s \in Audience(x, label) /\ <<x, label>> \notin heard[s]
    BY <1>1, <1>3
  <2>2. Fine(x) /\ tasks'[x] = tasks[x]
    BY <1>1
  <2>3. QED BY <2>1, <2>2, StaysFine
<1>5. QED BY <1>3, <1>4 DEF Inv

-----------------------------------------------------------------------------
(* The handlers *)

\* Two lists after one another.
LEMMA Longer ==
  ASSUME NEW S, NEW s \in Seq(S), NEW t \in Seq(S), NEW u \in Seq(S), Len(u) = Len(s) + Len(t),
         \A i \in 1..Len(s) : u[i] = s[i],
         \A i \in 1..Len(t) : u[Len(s) + i] = t[i]
  PROVE  s \o t = u
<1>1. /\ s \o t \in Seq(S) /\ Len(s \o t) = Len(u)
      /\ \A i \in 1..Len(u) : (s \o t)[i] = IF i <= Len(s) THEN s[i] ELSE t[i - Len(s)]
  BY ConcatProperties
<1>2. \A i \in 1..Len(u) : (s \o t)[i] = u[i]
  <2> SUFFICES ASSUME NEW i \in 1..Len(u)
               PROVE  (s \o t)[i] = u[i]
    OBVIOUS
  <2>1. Len(s) \in Nat /\ Len(t) \in Nat
    BY LenProperties
  <2>2. CASE i <= Len(s)
    BY <1>1, <2>1, <2>2
  <2>3. CASE ~(i <= Len(s))
    <3>1. i - Len(s) \in 1..Len(t) /\ Len(s) + (i - Len(s)) = i
      BY <2>1, <2>3
    <3>2. QED BY <1>1, <2>3, <3>1
  <2>4. QED BY <2>2, <2>3
<1>3. QED BY <1>1, <1>2, SeqEqual

\* The concatenations the handlers are written with.
LEMMA Joins ==
  /\ \A a, b : <<a>> \o <<b>> = <<a, b>>
  /\ \A a, b, c : <<a, b>> \o <<c>> = <<a, b, c>>
  /\ \A a, b, c, d : <<a, b, c>> \o <<d>> = <<a, b, c, d>>
  /\ \A a, b, c, d, e : <<a, b, c, d>> \o <<e>> = <<a, b, c, d, e>>
  /\ \A a, b, c, d : <<a, b>> \o <<c, d>> = <<a, b, c, d>>
  /\ \A a, b, c, d, e : <<a, b, c>> \o <<d, e>> = <<a, b, c, d, e>>
  /\ \A a, b, c, d, e, f : <<a, b, c, d>> \o <<e, f>> = <<a, b, c, d, e, f>>
  /\ \A a, b, c, d : <<a>> \o <<b, c, d>> = <<a, b, c, d>>
  /\ \A a, b, c, d, e : <<a>> \o <<b, c, d, e>> = <<a, b, c, d, e>>
  /\ \A a, b, c, d, e, f : <<a>> \o <<b, c, d, e, f>> = <<a, b, c, d, e, f>>
  /\ \A a, b, c, d, e, f, g : <<a>> \o <<b, c, d, e, f, g>> = <<a, b, c, d, e, f, g>>
<1>1. \A a, b : <<a>> \o <<b>> = <<a, b>>
  <2> SUFFICES ASSUME NEW a, NEW b
               PROVE  <<a>> \o <<b>> = <<a, b>>
    OBVIOUS
  <2> DEFINE S == {a, b}
  <2>1. /\ <<a>> \in Seq(S) /\ <<b>> \in Seq(S)
        /\ <<a, b>> \in Seq(S)
    OBVIOUS
  <2>2. /\ Len(<<a>>) = 1 /\ Len(<<b>>) = 1
        /\ Len(<<a, b>>) = Len(<<a>>) + Len(<<b>>)
    OBVIOUS
  <2>3. \A i \in 1..Len(<<a>>) : <<a, b>>[i] = <<a>>[i]
    OBVIOUS
  <2>4. \A i \in 1..Len(<<b>>) : <<a, b>>[Len(<<a>>) + i] = <<b>>[i]
    OBVIOUS
  <2> HIDE DEF S
  <2>5. QED BY ONLY <2>1, <2>2, <2>3, <2>4, Longer, Zenon
<1>2. \A a, b, c : <<a, b>> \o <<c>> = <<a, b, c>>
  <2> SUFFICES ASSUME NEW a, NEW b, NEW c
               PROVE  <<a, b>> \o <<c>> = <<a, b, c>>
    OBVIOUS
  <2> DEFINE S == {a, b, c}
  <2>1. /\ <<a, b>> \in Seq(S) /\ <<c>> \in Seq(S)
        /\ <<a, b, c>> \in Seq(S)
    OBVIOUS
  <2>2. /\ Len(<<a, b>>) = 2 /\ Len(<<c>>) = 1
        /\ Len(<<a, b, c>>) = Len(<<a, b>>) + Len(<<c>>)
    OBVIOUS
  <2>3. \A i \in 1..Len(<<a, b>>) : <<a, b, c>>[i] = <<a, b>>[i]
    OBVIOUS
  <2>4. \A i \in 1..Len(<<c>>) : <<a, b, c>>[Len(<<a, b>>) + i] = <<c>>[i]
    OBVIOUS
  <2> HIDE DEF S
  <2>5. QED BY ONLY <2>1, <2>2, <2>3, <2>4, Longer, Zenon
<1>3. \A a, b, c, d : <<a, b, c>> \o <<d>> = <<a, b, c, d>>
  <2> SUFFICES ASSUME NEW a, NEW b, NEW c, NEW d
               PROVE  <<a, b, c>> \o <<d>> = <<a, b, c, d>>
    OBVIOUS
  <2> DEFINE S == {a, b, c, d}
  <2>1. /\ <<a, b, c>> \in Seq(S) /\ <<d>> \in Seq(S)
        /\ <<a, b, c, d>> \in Seq(S)
    OBVIOUS
  <2>2. /\ Len(<<a, b, c>>) = 3 /\ Len(<<d>>) = 1
        /\ Len(<<a, b, c, d>>) = Len(<<a, b, c>>) + Len(<<d>>)
    OBVIOUS
  <2>3. \A i \in 1..Len(<<a, b, c>>) : <<a, b, c, d>>[i] = <<a, b, c>>[i]
    OBVIOUS
  <2>4. \A i \in 1..Len(<<d>>) : <<a, b, c, d>>[Len(<<a, b, c>>) + i] = <<d>>[i]
    OBVIOUS
  <2> HIDE DEF S
  <2>5. QED BY ONLY <2>1, <2>2, <2>3, <2>4, Longer, Zenon
<1>4. \A a, b, c, d, e : <<a, b, c, d>> \o <<e>> = <<a, b, c, d, e>>
  <2> SUFFICES ASSUME NEW a, NEW b, NEW c, NEW d, NEW e
               PROVE  <<a, b, c, d>> \o <<e>> = <<a, b, c, d, e>>
    OBVIOUS
  <2> DEFINE S == {a, b, c, d, e}
  <2>1. /\ <<a, b, c, d>> \in Seq(S) /\ <<e>> \in Seq(S)
        /\ <<a, b, c, d, e>> \in Seq(S)
    OBVIOUS
  <2>2. /\ Len(<<a, b, c, d>>) = 4 /\ Len(<<e>>) = 1
        /\ Len(<<a, b, c, d, e>>) = Len(<<a, b, c, d>>) + Len(<<e>>)
    OBVIOUS
  <2>3. \A i \in 1..Len(<<a, b, c, d>>) : <<a, b, c, d, e>>[i] = <<a, b, c, d>>[i]
    OBVIOUS
  <2>4. \A i \in 1..Len(<<e>>) : <<a, b, c, d, e>>[Len(<<a, b, c, d>>) + i] = <<e>>[i]
    OBVIOUS
  <2> HIDE DEF S
  <2>5. QED BY ONLY <2>1, <2>2, <2>3, <2>4, Longer, Zenon
<1>5. \A a, b, c, d : <<a, b>> \o <<c, d>> = <<a, b, c, d>>
  <2> SUFFICES ASSUME NEW a, NEW b, NEW c, NEW d
               PROVE  <<a, b>> \o <<c, d>> = <<a, b, c, d>>
    OBVIOUS
  <2> DEFINE S == {a, b, c, d}
  <2>1. /\ <<a, b>> \in Seq(S) /\ <<c, d>> \in Seq(S)
        /\ <<a, b, c, d>> \in Seq(S)
    OBVIOUS
  <2>2. /\ Len(<<a, b>>) = 2 /\ Len(<<c, d>>) = 2
        /\ Len(<<a, b, c, d>>) = Len(<<a, b>>) + Len(<<c, d>>)
    OBVIOUS
  <2>3. \A i \in 1..Len(<<a, b>>) : <<a, b, c, d>>[i] = <<a, b>>[i]
    OBVIOUS
  <2>4. \A i \in 1..Len(<<c, d>>) : <<a, b, c, d>>[Len(<<a, b>>) + i] = <<c, d>>[i]
    OBVIOUS
  <2> HIDE DEF S
  <2>5. QED BY ONLY <2>1, <2>2, <2>3, <2>4, Longer, Zenon
<1>6. \A a, b, c, d, e : <<a, b, c>> \o <<d, e>> = <<a, b, c, d, e>>
  <2> SUFFICES ASSUME NEW a, NEW b, NEW c, NEW d, NEW e
               PROVE  <<a, b, c>> \o <<d, e>> = <<a, b, c, d, e>>
    OBVIOUS
  <2> DEFINE S == {a, b, c, d, e}
  <2>1. /\ <<a, b, c>> \in Seq(S) /\ <<d, e>> \in Seq(S)
        /\ <<a, b, c, d, e>> \in Seq(S)
    OBVIOUS
  <2>2. /\ Len(<<a, b, c>>) = 3 /\ Len(<<d, e>>) = 2
        /\ Len(<<a, b, c, d, e>>) = Len(<<a, b, c>>) + Len(<<d, e>>)
    OBVIOUS
  <2>3. \A i \in 1..Len(<<a, b, c>>) : <<a, b, c, d, e>>[i] = <<a, b, c>>[i]
    OBVIOUS
  <2>4. \A i \in 1..Len(<<d, e>>) : <<a, b, c, d, e>>[Len(<<a, b, c>>) + i] = <<d, e>>[i]
    OBVIOUS
  <2> HIDE DEF S
  <2>5. QED BY ONLY <2>1, <2>2, <2>3, <2>4, Longer, Zenon
<1>7. \A a, b, c, d, e, f : <<a, b, c, d>> \o <<e, f>> = <<a, b, c, d, e, f>>
  <2> SUFFICES ASSUME NEW a, NEW b, NEW c, NEW d, NEW e, NEW f
               PROVE  <<a, b, c, d>> \o <<e, f>> = <<a, b, c, d, e, f>>
    OBVIOUS
  <2> DEFINE S == {a, b, c, d, e, f}
  <2>1. /\ <<a, b, c, d>> \in Seq(S) /\ <<e, f>> \in Seq(S)
        /\ <<a, b, c, d, e, f>> \in Seq(S)
    OBVIOUS
  <2>2. /\ Len(<<a, b, c, d>>) = 4 /\ Len(<<e, f>>) = 2
        /\ Len(<<a, b, c, d, e, f>>) = Len(<<a, b, c, d>>) + Len(<<e, f>>)
    OBVIOUS
  <2>3. \A i \in 1..Len(<<a, b, c, d>>) : <<a, b, c, d, e, f>>[i] = <<a, b, c, d>>[i]
    OBVIOUS
  <2>4. \A i \in 1..Len(<<e, f>>) : <<a, b, c, d, e, f>>[Len(<<a, b, c, d>>) + i] = <<e, f>>[i]
    OBVIOUS
  <2> HIDE DEF S
  <2>5. QED BY ONLY <2>1, <2>2, <2>3, <2>4, Longer, Zenon
<1>8. \A a, b, c, d : <<a>> \o <<b, c, d>> = <<a, b, c, d>>
  <2> SUFFICES ASSUME NEW a, NEW b, NEW c, NEW d
               PROVE  <<a>> \o <<b, c, d>> = <<a, b, c, d>>
    OBVIOUS
  <2> DEFINE S == {a, b, c, d}
  <2>1. /\ <<a>> \in Seq(S) /\ <<b, c, d>> \in Seq(S)
        /\ <<a, b, c, d>> \in Seq(S)
    OBVIOUS
  <2>2. /\ Len(<<a>>) = 1 /\ Len(<<b, c, d>>) = 3
        /\ Len(<<a, b, c, d>>) = Len(<<a>>) + Len(<<b, c, d>>)
    OBVIOUS
  <2>3. \A i \in 1..Len(<<a>>) : <<a, b, c, d>>[i] = <<a>>[i]
    OBVIOUS
  <2>4. \A i \in 1..Len(<<b, c, d>>) : <<a, b, c, d>>[Len(<<a>>) + i] = <<b, c, d>>[i]
    OBVIOUS
  <2> HIDE DEF S
  <2>5. QED BY ONLY <2>1, <2>2, <2>3, <2>4, Longer, Zenon
<1>9. \A a, b, c, d, e : <<a>> \o <<b, c, d, e>> = <<a, b, c, d, e>>
  <2> SUFFICES ASSUME NEW a, NEW b, NEW c, NEW d, NEW e
               PROVE  <<a>> \o <<b, c, d, e>> = <<a, b, c, d, e>>
    OBVIOUS
  <2> DEFINE S == {a, b, c, d, e}
  <2>1. /\ <<a>> \in Seq(S) /\ <<b, c, d, e>> \in Seq(S)
        /\ <<a, b, c, d, e>> \in Seq(S)
    OBVIOUS
  <2>2. /\ Len(<<a>>) = 1 /\ Len(<<b, c, d, e>>) = 4
        /\ Len(<<a, b, c, d, e>>) = Len(<<a>>) + Len(<<b, c, d, e>>)
    OBVIOUS
  <2>3. \A i \in 1..Len(<<a>>) : <<a, b, c, d, e>>[i] = <<a>>[i]
    OBVIOUS
  <2>4. \A i \in 1..Len(<<b, c, d, e>>) : <<a, b, c, d, e>>[Len(<<a>>) + i] = <<b, c, d, e>>[i]
    OBVIOUS
  <2> HIDE DEF S
  <2>5. QED BY ONLY <2>1, <2>2, <2>3, <2>4, Longer, Zenon
<1>10. \A a, b, c, d, e, f : <<a>> \o <<b, c, d, e, f>> = <<a, b, c, d, e, f>>
  <2> SUFFICES ASSUME NEW a, NEW b, NEW c, NEW d, NEW e, NEW f
               PROVE  <<a>> \o <<b, c, d, e, f>> = <<a, b, c, d, e, f>>
    OBVIOUS
  <2> DEFINE S == {a, b, c, d, e, f}
  <2>1. /\ <<a>> \in Seq(S) /\ <<b, c, d, e, f>> \in Seq(S)
        /\ <<a, b, c, d, e, f>> \in Seq(S)
    OBVIOUS
  <2>2. /\ Len(<<a>>) = 1 /\ Len(<<b, c, d, e, f>>) = 5
        /\ Len(<<a, b, c, d, e, f>>) = Len(<<a>>) + Len(<<b, c, d, e, f>>)
    OBVIOUS
  <2>3. \A i \in 1..Len(<<a>>) : <<a, b, c, d, e, f>>[i] = <<a>>[i]
    OBVIOUS
  <2>4. \A i \in 1..Len(<<b, c, d, e, f>>) : <<a, b, c, d, e, f>>[Len(<<a>>) + i] = <<b, c, d, e, f>>[i]
    OBVIOUS
  <2> HIDE DEF S
  <2>5. QED BY ONLY <2>1, <2>2, <2>3, <2>4, Longer, Zenon
<1>11. \A a, b, c, d, e, f, g : <<a>> \o <<b, c, d, e, f, g>> = <<a, b, c, d, e, f, g>>
  <2> SUFFICES ASSUME NEW a, NEW b, NEW c, NEW d, NEW e, NEW f, NEW g
               PROVE  <<a>> \o <<b, c, d, e, f, g>> = <<a, b, c, d, e, f, g>>
    OBVIOUS
  <2> DEFINE S == {a, b, c, d, e, f, g}
  <2>1. /\ <<a>> \in Seq(S) /\ <<b, c, d, e, f, g>> \in Seq(S)
        /\ <<a, b, c, d, e, f, g>> \in Seq(S)
    OBVIOUS
  <2>2. /\ Len(<<a>>) = 1 /\ Len(<<b, c, d, e, f, g>>) = 6
        /\ Len(<<a, b, c, d, e, f, g>>) = Len(<<a>>) + Len(<<b, c, d, e, f, g>>)
    OBVIOUS
  <2>3. \A i \in 1..Len(<<a>>) : <<a, b, c, d, e, f, g>>[i] = <<a>>[i]
    OBVIOUS
  <2>4. \A i \in 1..Len(<<b, c, d, e, f, g>>) : <<a, b, c, d, e, f, g>>[Len(<<a>>) + i] = <<b, c, d, e, f, g>>[i]
    OBVIOUS
  <2> HIDE DEF S
  <2>5. QED BY ONLY <2>1, <2>2, <2>3, <2>4, Longer, Zenon
<1>12. QED BY <1>1, <1>2, <1>3, <1>4, <1>5, <1>6, <1>7, <1>8, <1>9, <1>10, <1>11

\* The handlers whose steps tell all they store.
Handlers == {h \in Seq(Steps) : Sound(h)}

\* The labels the events of one step reach whatever the list is.
ToldBy(step) == step.users \cup (IF "room" \in step.audience THEN {"room"} ELSE {})

\* Who tells, position by position.
LEMMA Tellings ==
  ASSUME NEW h \in Seq(Steps), NEW k \in Nat
  PROVE  /\ \A i \in (k + 1)..(Len(h) - 1) :
              h[i].do \in Listing /\ ToTheListed(h[i + 1]) => Told(h, k, "members")
         /\ \A i, m \in (k + 1)..Len(h) :
              i < m /\ h[i].do \in Listing /\ h[m].do = "latest" => Told(h, k, "notice")
         /\ \A i \in (k + 1)..Len(h) :
              h[i].do = "emit" => \A label \in ToldBy(h[i]) : Told(h, k, label)
<1>1. \A i \in (k + 1)..(Len(h) - 1) :
        h[i].do \in Listing /\ ToTheListed(h[i + 1]) => Told(h, k, "members")
  BY DEF Told
<1>2. \A i, m \in (k + 1)..Len(h) :
        i < m /\ h[i].do \in Listing /\ h[m].do = "latest" => Told(h, k, "notice")
  BY DEF Told
<1>3. ASSUME NEW i \in (k + 1)..Len(h), h[i].do = "emit", NEW label \in ToldBy(h[i])
      PROVE  Told(h, k, label)
  <2>1. h[i] \in Steps
    <3>1. Len(h) \in Nat /\ i \in 1..Len(h)
      BY LenProperties
    <3>2. QED BY <3>1, ElementOfSeq
  <2>2. h[i].users \subseteq Users
    BY <1>3, <2>1 DEF Steps, Listing
  <2>3. CASE label = "room" /\ "room" \in h[i].audience
    BY <1>3, <2>3 DEF Told
  <2>4. CASE label \in h[i].users
    <3>1. label \notin {"members", "notice", "room"}
      BY <2>2, <2>4, NamesAreNoUsers
    <3>2. QED BY <1>3, <2>4, <3>1 DEF Told
  <2>5. QED BY <1>3, <2>3, <2>4 DEF ToldBy
<1>4. QED BY <1>1, <1>2, <1>3

\* A handler that stores with its first step only.
LEMMA OneStore ==
  ASSUME NEW h \in Seq(Steps), h[1].do \in Storing,
         \A label \in h[1].labels : Told(h, 1, label),
         \A k \in 2..Len(h) : h[k].do \notin Storing \cup {"dissolve"}
  PROVE  h \in Handlers
<1>1. Len(h) \in Nat
  BY LenProperties
<1>2. \A k \in 1..Len(h) : k = 1 \/ k \in 2..Len(h)
  BY <1>1
<1>3. h[1].do # "dissolve"
  BY DEF Storing
<1>4. Sound(h)
  BY <1>2, <1>3 DEF Sound
<1>5. QED BY <1>4 DEF Handlers

\* Only stored, only told, told to the members that are read first.
LEMMA Short ==
  /\ \A a \in Steps : a.do \in Storing /\ a.labels = {} => <<a>> \in Handlers
  /\ \A a, b \in Steps :
       a.do \in Storing /\ b.do = "emit" /\ a.labels \subseteq ToldBy(b) => <<a, b>> \in Handlers
  /\ \A a, b, c \in Steps :
       /\ a.do \in Storing /\ b.do \in Listing /\ c.do = "emit" /\ "listed" \in c.audience
       /\ a.labels \subseteq {"members"} \cup ToldBy(c)
       => <<a, b, c>> \in Handlers
<1>1. ASSUME NEW a \in Steps, a.do \in Storing, a.labels = {}
      PROVE  <<a>> \in Handlers
  <2> DEFINE h == <<a>>
  <2>1. h \in Seq(Steps) /\ Len(h) = 1 /\ h[1] = a
    OBVIOUS
  <2> HIDE DEF h
  <2>2. \A k \in 2..Len(h) : h[k].do \notin Storing \cup {"dissolve"}
    BY <2>1
  <2>3. h \in Handlers
    BY <1>1, <2>1, <2>2, OneStore
  <2>4. QED BY <2>3 DEF h
<1>2. ASSUME NEW a \in Steps, NEW b \in Steps,
             a.do \in Storing /\ b.do = "emit" /\ a.labels \subseteq ToldBy(b)
      PROVE  <<a, b>> \in Handlers
  <2> DEFINE h == <<a, b>>
  <2>1. h \in Seq(Steps) /\ Len(h) = 2 /\ h[1] = a /\ h[2] = b
    OBVIOUS
  <2> HIDE DEF h
  <2>2. \A k \in 2..Len(h) : h[k].do \notin Storing \cup {"dissolve"}
    BY <1>2, <2>1 DEF Storing
  <2>3. \A label \in h[1].labels : Told(h, 1, label)
    <3>1. 2 \in (1 + 1)..Len(h)
      BY <2>1
    <3>2. QED BY <1>2, <2>1, <3>1, Tellings
  <2>4. h \in Handlers
    BY <1>2, <2>1, <2>2, <2>3, OneStore
  <2>5. QED BY <2>4 DEF h
<1>3. ASSUME NEW a \in Steps, NEW b \in Steps, NEW c \in Steps,
             a.do \in Storing /\ b.do \in Listing /\ c.do = "emit" /\ "listed" \in c.audience,
             a.labels \subseteq {"members"} \cup ToldBy(c)
      PROVE  <<a, b, c>> \in Handlers
  <2> DEFINE h == <<a, b, c>>
  <2>1. h \in Seq(Steps) /\ Len(h) = 3 /\ h[1] = a /\ h[2] = b /\ h[3] = c
    OBVIOUS
  <2> HIDE DEF h
  <2>2. \A k \in 2..Len(h) : h[k].do \notin Storing \cup {"dissolve"}
    BY <1>3, <2>1 DEF Storing, Listing
  <2>3. Told(h, 1, "members")
    <3>1. 2 \in (1 + 1)..(Len(h) - 1) /\ h[2].do \in Listing /\ ToTheListed(h[2 + 1])
      BY <1>3, <2>1 DEF ToTheListed
    <3>2. QED BY <2>1, <3>1, Tellings
  <2>4. \A label \in ToldBy(c) : Told(h, 1, label)
    <3>1. 3 \in (1 + 1)..Len(h)
      BY <2>1
    <3>2. QED BY <1>3, <2>1, <3>1, Tellings
  <2>5. h \in Handlers
    BY <1>3, <2>1, <2>2, <2>3, <2>4, OneStore
  <2>6. QED BY <2>5 DEF h
<1>4. QED BY <1>1, <1>2, <1>3

\* A change, an event to a room or a user, and a message to the members.
LEMMA EventThenMembers ==
  ASSUME NEW a \in Steps, NEW b \in Steps, NEW c \in Steps, NEW d \in Steps,
         a.do \in Storing /\ b.do = "emit",
         c.do \in Listing /\ d.do = "emit" /\ "listed" \in d.audience,
         a.labels \subseteq {"members"} \cup ToldBy(b)
  PROVE  <<a, b, c, d>> \in Handlers
<1> DEFINE h == <<a, b, c, d>>
<1>1. /\ h \in Seq(Steps) /\ Len(h) = 4
      /\ h[1] = a /\ h[2] = b /\ h[3] = c /\ h[4] = d
  OBVIOUS
<1> HIDE DEF h
<1>2. \A k \in 2..Len(h) : h[k].do \notin Storing \cup {"dissolve"}
  BY <1>1 DEF Storing, Listing
<1>3. Told(h, 1, "members")
  <2>1. 3 \in (1 + 1)..(Len(h) - 1) /\ h[3].do \in Listing /\ ToTheListed(h[3 + 1])
    BY <1>1 DEF ToTheListed
  <2>2. QED BY <1>1, <2>1, Tellings
<1>4. \A label \in ToldBy(b) : Told(h, 1, label)
  <2>1. 2 \in (1 + 1)..Len(h)
    BY <1>1
  <2>2. QED BY <1>1, <2>1, Tellings
<1>5. h \in Handlers
  BY <1>1, <1>2, <1>3, <1>4, OneStore
<1>6. QED BY <1>5 DEF h

\* A message to the members, and another one.
LEMMA MembersTwice ==
  ASSUME NEW a \in Steps, NEW b \in Steps, NEW c \in Steps, NEW d \in Steps, NEW e \in Steps,
         a.do \in Storing /\ b.do \in Listing /\ c.do = "emit" /\ "listed" \in c.audience,
         d.do \in Listing /\ e.do = "emit" /\ "listed" \in e.audience,
         a.labels \subseteq {"members"}
  PROVE  <<a, b, c, d, e>> \in Handlers
<1> DEFINE h == <<a, b, c, d, e>>
<1>1. /\ h \in Seq(Steps) /\ Len(h) = 5
      /\ h[1] = a /\ h[2] = b /\ h[3] = c /\ h[4] = d /\ h[5] = e
  OBVIOUS
<1> HIDE DEF h
<1>2. \A k \in 2..Len(h) : h[k].do \notin Storing \cup {"dissolve"}
  BY <1>1 DEF Storing, Listing
<1>3. Told(h, 1, "members")
  <2>1. 2 \in (1 + 1)..(Len(h) - 1) /\ h[2].do \in Listing /\ ToTheListed(h[2 + 1])
    BY <1>1 DEF ToTheListed
  <2>2. QED BY <1>1, <2>1, Tellings
<1>4. h \in Handlers
  BY <1>1, <1>2, <1>3, OneStore
<1>5. QED BY <1>4 DEF h

\* The last event but one is to the members, and the latest message follows.
LEMMA EventThenLatest ==
  ASSUME NEW a \in Steps, NEW b \in Steps, NEW c \in Steps, NEW d \in Steps, NEW e \in Steps,
         a.do \in Storing /\ b.do = "emit",
         c.do \in Listing /\ d.do = "emit" /\ "listed" \in d.audience,
         e.do = "latest",
         a.labels \subseteq {"members", "notice"} \cup ToldBy(b) \cup ToldBy(d)
  PROVE  <<a, b, c, d, e>> \in Handlers
<1> DEFINE h == <<a, b, c, d, e>>
<1>1. /\ h \in Seq(Steps) /\ Len(h) = 5
      /\ h[1] = a /\ h[2] = b /\ h[3] = c /\ h[4] = d /\ h[5] = e
  OBVIOUS
<1> HIDE DEF h
<1>2. \A k \in 2..Len(h) : h[k].do \notin Storing \cup {"dissolve"}
  BY <1>1 DEF Storing, Listing
<1>3. Told(h, 1, "members")
  <2>1. 3 \in (1 + 1)..(Len(h) - 1) /\ h[3].do \in Listing /\ ToTheListed(h[3 + 1])
    BY <1>1 DEF ToTheListed
  <2>2. QED BY <1>1, <2>1, Tellings
<1>4. Told(h, 1, "notice")
  <2>1. 3 \in (1 + 1)..Len(h) /\ 5 \in (1 + 1)..Len(h) /\ 3 < 5
    BY <1>1
  <2>2. h[3].do \in Listing /\ h[5].do = "latest"
    BY <1>1
  <2>3. QED BY <1>1, <2>1, <2>2, Tellings
<1>5. \A label \in ToldBy(b) : Told(h, 1, label)
  <2>1. 2 \in (1 + 1)..Len(h)
    BY <1>1
  <2>2. QED BY <1>1, <2>1, Tellings
<1>6. \A label \in ToldBy(d) : Told(h, 1, label)
  <2>1. 4 \in (1 + 1)..Len(h)
    BY <1>1
  <2>2. QED BY <1>1, <2>1, Tellings
<1>7. h \in Handlers
  BY <1>1, <1>2, <1>3, <1>4, <1>5, <1>6, OneStore
<1>8. QED BY <1>7 DEF h

\* As before, with a conversation for the one who is new.
LEMMA WelcomeThenLatest ==
  ASSUME NEW a \in Steps, NEW b \in Steps, NEW c \in Steps, NEW d \in Steps, NEW e \in Steps, NEW f \in Steps,
         a.do \in Storing /\ b.do = "emit",
         c.do \in Listing /\ d.do = "emit" /\ "listed" \in d.audience,
         e.do = "welcome" /\ f.do = "latest",
         a.labels \subseteq {"members", "notice"} \cup ToldBy(b) \cup ToldBy(d)
  PROVE  <<a, b, c, d, e, f>> \in Handlers
<1> DEFINE h == <<a, b, c, d, e, f>>
<1>1. /\ h \in Seq(Steps) /\ Len(h) = 6
      /\ h[1] = a /\ h[2] = b /\ h[3] = c /\ h[4] = d /\ h[5] = e /\ h[6] = f
  OBVIOUS
<1> HIDE DEF h
<1>2. \A k \in 2..Len(h) : h[k].do \notin Storing \cup {"dissolve"}
  BY <1>1 DEF Storing, Listing
<1>3. Told(h, 1, "members")
  <2>1. 3 \in (1 + 1)..(Len(h) - 1) /\ h[3].do \in Listing /\ ToTheListed(h[3 + 1])
    BY <1>1 DEF ToTheListed
  <2>2. QED BY <1>1, <2>1, Tellings
<1>4. Told(h, 1, "notice")
  <2>1. 3 \in (1 + 1)..Len(h) /\ 6 \in (1 + 1)..Len(h) /\ 3 < 6
    BY <1>1
  <2>2. h[3].do \in Listing /\ h[6].do = "latest"
    BY <1>1
  <2>3. QED BY <1>1, <2>1, <2>2, Tellings
<1>5. \A label \in ToldBy(b) : Told(h, 1, label)
  <2>1. 2 \in (1 + 1)..Len(h)
    BY <1>1
  <2>2. QED BY <1>1, <2>1, Tellings
<1>6. \A label \in ToldBy(d) : Told(h, 1, label)
  <2>1. 4 \in (1 + 1)..Len(h)
    BY <1>1
  <2>2. QED BY <1>1, <2>1, Tellings
<1>7. h \in Handlers
  BY <1>1, <1>2, <1>3, <1>4, <1>5, <1>6, OneStore
<1>8. QED BY <1>7 DEF h

\* A conversation for the one who is new, and one more message to the members.
LEMMA WelcomeThenMembers ==
  ASSUME NEW a \in Steps, NEW b \in Steps, NEW c \in Steps, NEW d \in Steps,
         NEW e \in Steps, NEW f \in Steps, NEW g \in Steps,
         a.do \in Storing /\ b.do = "emit",
         c.do \in Listing /\ d.do = "emit" /\ "listed" \in d.audience,
         e.do = "welcome" /\ f.do \in Listing /\ g.do = "emit",
         a.labels \subseteq {"members"} \cup ToldBy(b)
  PROVE  <<a, b, c, d, e, f, g>> \in Handlers
<1> DEFINE h == <<a, b, c, d, e, f, g>>
<1>1. /\ h \in Seq(Steps) /\ Len(h) = 7
      /\ h[1] = a /\ h[2] = b /\ h[3] = c /\ h[4] = d /\ h[5] = e /\ h[6] = f /\ h[7] = g
  OBVIOUS
<1> HIDE DEF h
<1>2. \A k \in 2..Len(h) : h[k].do \notin Storing \cup {"dissolve"}
  BY <1>1 DEF Storing, Listing
<1>3. Told(h, 1, "members")
  <2>1. 3 \in (1 + 1)..(Len(h) - 1) /\ h[3].do \in Listing /\ ToTheListed(h[3 + 1])
    BY <1>1 DEF ToTheListed
  <2>2. QED BY <1>1, <2>1, Tellings
<1>4. \A label \in ToldBy(b) : Told(h, 1, label)
  <2>1. 2 \in (1 + 1)..Len(h)
    BY <1>1
  <2>2. QED BY <1>1, <2>1, Tellings
<1>5. h \in Handlers
  BY <1>1, <1>2, <1>3, <1>4, OneStore
<1>6. QED BY <1>5 DEF h

\* The first step stores nothing that has to be told, the second one does; and
\* the members are read before they are deleted.
LEMMA Other ==
  /\ \A a, b, c \in Steps :
       /\ a.do \in Storing /\ a.labels = {}
       /\ b.do \in Storing /\ c.do = "emit" /\ b.labels \subseteq ToldBy(c)
       => <<a, b, c>> \in Handlers
  /\ \A a, b, c, d \in Steps :
       /\ a.do \in Storing /\ a.labels = {}
       /\ b.do \in Storing /\ c.do \in Listing /\ d.do = "emit" /\ "listed" \in d.audience
       /\ b.labels \subseteq {"members"}
       => <<a, b, c, d>> \in Handlers
  /\ \A a, b, c \in Steps :
       /\ a.do \in Listing /\ b.do = "dissolve" /\ c.do = "emit" /\ "listed" \in c.audience
       => <<a, b, c>> \in Handlers
<1>1. ASSUME NEW a \in Steps, NEW b \in Steps, NEW c \in Steps,
             a.do \in Storing /\ a.labels = {},
             b.do \in Storing /\ c.do = "emit" /\ b.labels \subseteq ToldBy(c)
      PROVE  <<a, b, c>> \in Handlers
  <2> DEFINE h == <<a, b, c>>
  <2>1. h \in Seq(Steps) /\ Len(h) = 3 /\ h[1] = a /\ h[2] = b /\ h[3] = c
    OBVIOUS
  <2> HIDE DEF h
  <2>2. \A label \in ToldBy(c) : Told(h, 2, label)
    <3>1. 3 \in (2 + 1)..Len(h)
      BY <2>1
    <3>2. QED BY <1>1, <2>1, <3>1, Tellings
  <2>3. \A k \in 1..Len(h) : k = 1 \/ k = 2 \/ k = 3
    BY <2>1
  <2>4. a.do # "dissolve" /\ b.do # "dissolve" /\ c.do \notin Storing \cup {"dissolve"}
    BY <1>1 DEF Storing
  <2>5. Sound(h)
    BY <1>1, <2>1, <2>2, <2>3, <2>4 DEF Sound
  <2>6. QED BY <2>1, <2>5 DEF h, Handlers
<1>2. ASSUME NEW a \in Steps, NEW b \in Steps, NEW c \in Steps, NEW d \in Steps,
             a.do \in Storing /\ a.labels = {},
             b.do \in Storing /\ c.do \in Listing /\ d.do = "emit" /\ "listed" \in d.audience,
             b.labels \subseteq {"members"}
      PROVE  <<a, b, c, d>> \in Handlers
  <2> DEFINE h == <<a, b, c, d>>
  <2>1. h \in Seq(Steps) /\ Len(h) = 4 /\ h[1] = a /\ h[2] = b /\ h[3] = c /\ h[4] = d
    OBVIOUS
  <2> HIDE DEF h
  <2>2. Told(h, 2, "members")
    <3>1. 3 \in (2 + 1)..(Len(h) - 1) /\ h[3].do \in Listing /\ ToTheListed(h[3 + 1])
      BY <1>2, <2>1 DEF ToTheListed
    <3>2. QED BY <2>1, <3>1, Tellings
  <2>3. \A k \in 1..Len(h) : k = 1 \/ k = 2 \/ k = 3 \/ k = 4
    BY <2>1
  <2>4. /\ a.do # "dissolve" /\ b.do # "dissolve"
        /\ c.do \notin Storing \cup {"dissolve"} /\ d.do \notin Storing \cup {"dissolve"}
    BY <1>2 DEF Storing, Listing
  <2>5. Sound(h)
    BY <1>2, <2>1, <2>2, <2>3, <2>4 DEF Sound
  <2>6. QED BY <2>1, <2>5 DEF h, Handlers
<1>3. ASSUME NEW a \in Steps, NEW b \in Steps, NEW c \in Steps,
             a.do \in Listing /\ b.do = "dissolve" /\ c.do = "emit" /\ "listed" \in c.audience
      PROVE  <<a, b, c>> \in Handlers
  <2> DEFINE h == <<a, b, c>>
  <2>1. h \in Seq(Steps) /\ Len(h) = 3 /\ h[1] = a /\ h[2] = b /\ h[3] = c
    OBVIOUS
  <2> HIDE DEF h
  <2>2. \A k \in 1..Len(h) : k = 1 \/ k = 2 \/ k = 3
    BY <2>1
  <2>3. /\ a.do \notin Storing \cup {"dissolve"} /\ b.do \notin Storing
        /\ c.do \notin Storing \cup {"dissolve"}
    BY <1>3 DEF Storing, Listing
  <2>4. 2 < Len(h) /\ ToTheListed(h[2 + 1])
    BY <1>3, <2>1 DEF ToTheListed
  <2>5. Sound(h)
    BY <2>1, <2>2, <2>3, <2>4 DEF Sound
  <2>6. QED BY <2>1, <2>5 DEF h, Handlers
<1>4. QED BY <1>1, <1>2, <1>3

\* The steps by name, and what the properties tell apart of them.
StoreStep(labels) == [do |-> "store", labels |-> labels]
AdmitStep(users, labels) == [do |-> "admit", users |-> users, labels |-> labels]
ExpelStep(v, labels) == [do |-> "expel", user |-> v, labels |-> labels]
EmitStep(audience, users) == [do |-> "emit", audience |-> audience, users |-> users]
WelcomeStep(v) == [do |-> "welcome", user |-> v]
PlainStep(what) == [do |-> what]

\* Each step is a step, and what it stores or whom it tells.
LEMMA StepForms ==
  /\ \A labels \in SUBSET Labels : /\ StoreStep(labels) \in Steps
                                   /\ StoreStep(labels).do \in Storing
                                   /\ StoreStep(labels).labels = labels
  /\ \A users \in SUBSET Users, labels \in SUBSET Labels :
       /\ AdmitStep(users, labels) \in Steps
       /\ AdmitStep(users, labels).do \in Storing
       /\ AdmitStep(users, labels).labels = labels
  /\ \A v \in Users, labels \in SUBSET Labels : /\ ExpelStep(v, labels) \in Steps
                                                /\ ExpelStep(v, labels).do \in Storing
                                                /\ ExpelStep(v, labels).labels = labels
  /\ \A audience \in SUBSET {"room", "listed"}, users \in SUBSET Users :
       /\ EmitStep(audience, users) \in Steps
       /\ EmitStep(audience, users).do = "emit"
       /\ EmitStep(audience, users).audience = audience
       /\ users \subseteq ToldBy(EmitStep(audience, users))
       /\ "room" \in audience => "room" \in ToldBy(EmitStep(audience, users))
  /\ \A v \in Users : WelcomeStep(v) \in Steps /\ WelcomeStep(v).do = "welcome"
  /\ \A what \in Listing \cup {"latest", "dissolve"} :
       PlainStep(what) \in Steps /\ PlainStep(what).do = what
<1>1. \A labels \in SUBSET Labels : /\ StoreStep(labels) \in Steps
                                    /\ StoreStep(labels).do \in Storing
                                    /\ StoreStep(labels).labels = labels
  BY DEF Steps, Storing, StoreStep
<1>2. \A users \in SUBSET Users, labels \in SUBSET Labels :
        /\ AdmitStep(users, labels) \in Steps
        /\ AdmitStep(users, labels).do \in Storing
        /\ AdmitStep(users, labels).labels = labels
  BY DEF Steps, Storing, AdmitStep
<1>3. \A v \in Users, labels \in SUBSET Labels : /\ ExpelStep(v, labels) \in Steps
                                                 /\ ExpelStep(v, labels).do \in Storing
                                                 /\ ExpelStep(v, labels).labels = labels
  BY DEF Steps, Storing, ExpelStep
<1>4. \A audience \in SUBSET {"room", "listed"}, users \in SUBSET Users :
        /\ EmitStep(audience, users) \in Steps
        /\ EmitStep(audience, users).do = "emit"
        /\ EmitStep(audience, users).audience = audience
        /\ users \subseteq ToldBy(EmitStep(audience, users))
        /\ "room" \in audience => "room" \in ToldBy(EmitStep(audience, users))
  BY DEF Steps, ToldBy, EmitStep
<1>5. \A v \in Users : WelcomeStep(v) \in Steps /\ WelcomeStep(v).do = "welcome"
  BY DEF Steps, WelcomeStep
<1>6. \A what \in Listing \cup {"latest", "dissolve"} :
        PlainStep(what) \in Steps /\ PlainStep(what).do = what
  BY DEF Steps, PlainStep
<1>7. QED BY <1>1, <1>2, <1>3, <1>4, <1>5, <1>6

\* What the handlers are put together from.
LEMMA Pieces ==
  /\ \A labels : Store(labels) = <<StoreStep(labels)>>
  /\ \A users, labels : AdmitAll(users, labels) = <<AdmitStep(users, labels)>>
  /\ \A v, labels : /\ Admit(v, labels) = <<AdmitStep({v}, labels)>>
                    /\ Expel(v, labels) = <<ExpelStep(v, labels)>>
  /\ \A audience, users : Emit(audience, users) = <<EmitStep(audience, users)>>
  /\ \A v : /\ ToUser(v) = <<EmitStep({}, {v})>>
            /\ ToListedAnd(v) = <<EmitStep({"listed"}, {v})>>
            /\ Welcome(v) = <<WelcomeStep(v)>>
  /\ ToRoom = <<EmitStep({"room"}, {})>> /\ ToListed = <<EmitStep({"listed"}, {})>>
  /\ ReadList = <<PlainStep("list")>> /\ TryList = <<PlainStep("tryList")>>
  /\ ReadVisible = <<PlainStep("listVisible")>> /\ ToLatest = <<PlainStep("latest")>>
  /\ <<[do |-> "dissolve"]>> = <<PlainStep("dissolve")>>
BY DEF Store, AdmitAll, Admit, Expel, Emit, ToUser, ToListedAnd, Welcome, ToRoom, ToListed,
       ReadList, TryList, ReadVisible, ToLatest,
       StoreStep, AdmitStep, ExpelStep, EmitStep, WelcomeStep, PlainStep

\* Those that hide the conversation have steps of their own.
LEMMA HidingHandlers == \A u \in Users : Hide(u) \in Handlers /\ Unhide(u) \in Handlers
<1>1. ASSUME NEW u \in Users, NEW what \in {"hide", "unhide"}
      PROVE  <<[do |-> what, user |-> u, labels |-> {}]>> \in Handlers
  <2> DEFINE step == [do |-> what, user |-> u, labels |-> {}]
  <2>1. step \in Steps /\ step.do \in Storing /\ step.labels = {}
    BY DEF Steps, Storing
  <2> HIDE DEF step
  <2>2. <<step>> \in Handlers
    BY <2>1, Short
  <2>3. QED BY <2>2 DEF step
<1>2. QED BY <1>1 DEF Hide, Unhide

\* Handlers of one or two steps.
LEMMA ShortHandlers ==
  /\ Silent \in Handlers
  /\ \A v \in Users : Admit(v, {}) \in Handlers
  /\ RoomOnly \in Handlers
  /\ \A v \in Users : Own(v) \in Handlers
  /\ \A v \in Users : (Admit(v, {"room"}) \o ToRoom) \in Handlers
  /\ \A v \in Users : (Expel(v, {"room"}) \o ToRoom) \in Handlers
  /\ \A users \in SUBSET Users : CreateGroupAPI(users) \in Handlers
<1>1. Silent \in Handlers
  <2> DEFINE a == StoreStep({})
  <2>1. Silent = <<a>>
    BY Pieces DEF Silent
  <2>2. a \in Steps /\ a.do \in Storing /\ a.labels = {}
    BY StepForms DEF Labels
  <2> HIDE DEF a
  <2>3. <<a>> \in Handlers
    BY <2>2, Short
  <2>4. QED BY <2>1, <2>3
<1>2. ASSUME NEW v \in Users
      PROVE  Admit(v, {}) \in Handlers
  <2> DEFINE a == AdmitStep({v}, {})
  <2>1. Admit(v, {}) = <<a>>
    BY Pieces
  <2>2. a \in Steps /\ a.do \in Storing /\ a.labels = {}
    BY StepForms DEF Labels
  <2> HIDE DEF a
  <2>3. <<a>> \in Handlers
    BY <2>2, Short
  <2>4. QED BY <2>1, <2>3
<1>3. RoomOnly \in Handlers
  <2> DEFINE a == StoreStep({"room"})
             b == EmitStep({"room"}, {})
  <2>1. RoomOnly = <<a>> \o <<b>>
    BY Pieces DEF RoomOnly
  <2>2. a \in Steps /\ a.do \in Storing /\ a.labels = {"room"}
    BY StepForms DEF Labels
  <2>3. b \in Steps /\ b.do = "emit" /\ "room" \in ToldBy(b)
    BY DEF Steps, EmitStep, ToldBy
  <2> HIDE DEF a, b
  <2>4. <<a>> \o <<b>> = <<a, b>>
    BY Joins
  <2>5. <<a, b>> \in Handlers
    BY <2>2, <2>3, Short
  <2>6. QED BY <2>1, <2>4, <2>5
<1>4. ASSUME NEW v \in Users
      PROVE  Own(v) \in Handlers
  <2> DEFINE a == StoreStep({v})
             b == EmitStep({}, {v})
  <2>1. Own(v) = <<a>> \o <<b>>
    BY Pieces DEF Own
  <2>2. a \in Steps /\ a.do \in Storing /\ a.labels = {v}
    BY StepForms DEF Labels
  <2>3. b \in Steps /\ b.do = "emit" /\ {v} \subseteq ToldBy(b)
    BY DEF Steps, EmitStep, ToldBy
  <2> HIDE DEF a, b
  <2>4. <<a>> \o <<b>> = <<a, b>>
    BY Joins
  <2>5. <<a, b>> \in Handlers
    BY <2>2, <2>3, Short
  <2>6. QED BY <2>1, <2>4, <2>5
<1>5. ASSUME NEW v \in Users
      PROVE  (Admit(v, {"room"}) \o ToRoom) \in Handlers
  <2> DEFINE a == AdmitStep({v}, {"room"})
             b == EmitStep({"room"}, {})
  <2>1. (Admit(v, {"room"}) \o ToRoom) = <<a>> \o <<b>>
    BY Pieces
  <2>2. a \in Steps /\ a.do \in Storing /\ a.labels = {"room"}
    BY StepForms DEF Labels
  <2>3. b \in Steps /\ b.do = "emit" /\ "room" \in ToldBy(b)
    BY DEF Steps, EmitStep, ToldBy
  <2> HIDE DEF a, b
  <2>4. <<a>> \o <<b>> = <<a, b>>
    BY Joins
  <2>5. <<a, b>> \in Handlers
    BY <2>2, <2>3, Short
  <2>6. QED BY <2>1, <2>4, <2>5
<1>6. ASSUME NEW v \in Users
      PROVE  (Expel(v, {"room"}) \o ToRoom) \in Handlers
  <2> DEFINE a == ExpelStep(v, {"room"})
             b == EmitStep({"room"}, {})
  <2>1. (Expel(v, {"room"}) \o ToRoom) = <<a>> \o <<b>>
    BY Pieces
  <2>2. a \in Steps /\ a.do \in Storing /\ a.labels = {"room"}
    BY StepForms DEF Labels
  <2>3. b \in Steps /\ b.do = "emit" /\ "room" \in ToldBy(b)
    BY DEF Steps, EmitStep, ToldBy
  <2> HIDE DEF a, b
  <2>4. <<a>> \o <<b>> = <<a, b>>
    BY Joins
  <2>5. <<a, b>> \in Handlers
    BY <2>2, <2>3, Short
  <2>6. QED BY <2>1, <2>4, <2>5
<1>7. ASSUME NEW users \in SUBSET Users
      PROVE  CreateGroupAPI(users) \in Handlers
  <2> DEFINE a == AdmitStep(users, users)
             b == EmitStep({}, users)
  <2>1. CreateGroupAPI(users) = <<a>> \o <<b>>
    BY Pieces DEF CreateGroupAPI, NotifyNewGroup
  <2>2. a \in Steps /\ a.do \in Storing /\ a.labels = users
    BY StepForms DEF Labels
  <2>3. b \in Steps /\ b.do = "emit" /\ users \subseteq ToldBy(b)
    BY DEF Steps, EmitStep, ToldBy
  <2> HIDE DEF a, b
  <2>4. <<a>> \o <<b>> = <<a, b>>
    BY Joins
  <2>5. <<a, b>> \in Handlers
    BY <2>2, <2>3, Short
  <2>6. QED BY <2>1, <2>4, <2>5
<1>8. QED BY <1>1, <1>2, <1>3, <1>4, <1>5, <1>6, <1>7

\* The members are read after the change and told of it.
LEMMA HandlersOfThree ==
  /\ StoreThenList \in Handlers
  /\ MembersThenRoom \in Handlers
  /\ SendConversationMessageAPI \in Handlers
  /\ \A v \in Users : ProcessReminderAgentRequest(v) \in Handlers
  /\ HandleDissolveGroup \in Handlers
  /\ \A u \in Users, v \in Users : SendMessageRequestAPI(u, v) \in Handlers
  /\ \A u \in Users, v \in Users : SendPrivateMessageAPI(u, v) \in Handlers
<1>1. StoreThenList \in Handlers
  <2> DEFINE a == StoreStep({"members"})
             b == PlainStep("list")
             c == EmitStep({"listed"}, {})
  <2>1. StoreThenList = <<a>> \o <<b>> \o <<c>>
    BY Pieces DEF StoreThenList
  <2>2. a \in Steps /\ a.do \in Storing /\ a.labels = {"members"}
    BY StepForms DEF Labels
  <2>3. b \in Steps /\ b.do = "list"
    BY StepForms DEF Listing
  <2>4. c \in Steps /\ c.do = "emit" /\ "listed" \in c.audience
    BY DEF Steps, EmitStep, ToldBy
  <2> HIDE DEF a, b, c
  <2>5. /\ <<a>> \o <<b>> = <<a, b>>
        /\ <<a, b>> \o <<c>> = <<a, b, c>>
    BY Joins
  <2>6. <<a, b, c>> \in Handlers
    BY <2>2, <2>3, <2>4, Short DEF Listing
  <2>7. QED BY <2>1, <2>5, <2>6
<1>2. MembersThenRoom \in Handlers
  <2> DEFINE a == StoreStep({"members", "room"})
             b == PlainStep("list")
             c == EmitStep({"listed", "room"}, {})
  <2>1. MembersThenRoom = <<a>> \o <<b>> \o <<c>>
    BY Pieces DEF MembersThenRoom
  <2>2. a \in Steps /\ a.do \in Storing /\ a.labels = {"members", "room"}
    BY StepForms DEF Labels
  <2>3. b \in Steps /\ b.do = "list"
    BY StepForms DEF Listing
  <2>4. c \in Steps /\ c.do = "emit" /\ "listed" \in c.audience /\ "room" \in ToldBy(c)
    BY DEF Steps, EmitStep, ToldBy
  <2> HIDE DEF a, b, c
  <2>5. /\ <<a>> \o <<b>> = <<a, b>>
        /\ <<a, b>> \o <<c>> = <<a, b, c>>
    BY Joins
  <2>6. <<a, b, c>> \in Handlers
    BY <2>2, <2>3, <2>4, Short DEF Listing
  <2>7. QED BY <2>1, <2>5, <2>6
<1>3. SendConversationMessageAPI \in Handlers
  <2> DEFINE a == StoreStep({"members"})
             b == PlainStep("listVisible")
             c == EmitStep({"listed"}, {})
  <2>1. SendConversationMessageAPI = <<a>> \o <<b>> \o <<c>>
    BY Pieces DEF SendConversationMessageAPI
  <2>2. a \in Steps /\ a.do \in Storing /\ a.labels = {"members"}
    BY StepForms DEF Labels
  <2>3. b \in Steps /\ b.do = "listVisible"
    BY StepForms DEF Listing
  <2>4. c \in Steps /\ c.do = "emit" /\ "listed" \in c.audience
    BY DEF Steps, EmitStep, ToldBy
  <2> HIDE DEF a, b, c
  <2>5. /\ <<a>> \o <<b>> = <<a, b>>
        /\ <<a, b>> \o <<c>> = <<a, b, c>>
    BY Joins
  <2>6. <<a, b, c>> \in Handlers
    BY <2>2, <2>3, <2>4, Short DEF Listing
  <2>7. QED BY <2>1, <2>5, <2>6
<1>4. ASSUME NEW v \in Users
      PROVE  ProcessReminderAgentRequest(v) \in Handlers
  <2> DEFINE a == StoreStep({"members", "room", v})
             b == PlainStep("list")
             c == EmitStep({"listed", "room"}, {v})
  <2>1. ProcessReminderAgentRequest(v) = <<a>> \o <<b>> \o <<c>>
    BY Pieces DEF ProcessReminderAgentRequest
  <2>2. a \in Steps /\ a.do \in Storing /\ a.labels = {"members", "room", v}
    BY StepForms DEF Labels
  <2>3. b \in Steps /\ b.do = "list"
    BY StepForms DEF Listing
  <2>4. c \in Steps /\ c.do = "emit" /\ "listed" \in c.audience
        /\ "room" \in ToldBy(c) /\ {v} \subseteq ToldBy(c)
    BY DEF Steps, EmitStep, ToldBy
  <2> HIDE DEF a, b, c
  <2>5. /\ <<a>> \o <<b>> = <<a, b>>
        /\ <<a, b>> \o <<c>> = <<a, b, c>>
    BY Joins
  <2>6. <<a, b, c>> \in Handlers
    BY <2>2, <2>3, <2>4, Short DEF Listing
  <2>7. QED BY <2>1, <2>5, <2>6
<1>5. HandleDissolveGroup \in Handlers
  <2> DEFINE a == PlainStep("list")
             b == PlainStep("dissolve")
             c == EmitStep({"listed"}, {})
  <2>1. HandleDissolveGroup = <<a>> \o <<b>> \o <<c>>
    BY Pieces DEF HandleDissolveGroup
  <2>2. a \in Steps /\ a.do = "list"
    BY StepForms DEF Listing
  <2>3. b \in Steps /\ b.do = "dissolve"
    BY StepForms DEF Listing
  <2>4. c \in Steps /\ c.do = "emit" /\ "listed" \in c.audience
    BY DEF Steps, EmitStep, ToldBy
  <2> HIDE DEF a, b, c
  <2>5. /\ <<a>> \o <<b>> = <<a, b>>
        /\ <<a, b>> \o <<c>> = <<a, b, c>>
    BY Joins
  <2>6. <<a, b, c>> \in Handlers
    BY <2>2, <2>3, <2>4, Other DEF Listing
  <2>7. QED BY <2>1, <2>5, <2>6
<1>6. ASSUME NEW u \in Users, NEW v \in Users
      PROVE  SendMessageRequestAPI(u, v) \in Handlers
  <2> DEFINE a == AdmitStep({u}, {})
             b == StoreStep({v})
             c == EmitStep({}, {v})
  <2>1. SendMessageRequestAPI(u, v) = <<a>> \o <<b>> \o <<c>>
    BY Pieces DEF SendMessageRequestAPI
  <2>2. a \in Steps /\ a.do \in Storing /\ a.labels = {}
    BY StepForms DEF Labels
  <2>3. b \in Steps /\ b.do \in Storing /\ b.labels = {v}
    BY StepForms DEF Labels
  <2>4. c \in Steps /\ c.do = "emit" /\ {v} \subseteq ToldBy(c)
    BY DEF Steps, EmitStep, ToldBy
  <2> HIDE DEF a, b, c
  <2>5. /\ <<a>> \o <<b>> = <<a, b>>
        /\ <<a, b>> \o <<c>> = <<a, b, c>>
    BY Joins
  <2>6. <<a, b, c>> \in Handlers
    BY <2>2, <2>3, <2>4, Other
  <2>7. QED BY <2>1, <2>5, <2>6
<1>7. ASSUME NEW u \in Users, NEW v \in Users
      PROVE  SendPrivateMessageAPI(u, v) \in Handlers
  <2> DEFINE a == AdmitStep({u, v}, {})
             b == StoreStep({"members"})
             c == PlainStep("listVisible")
             d == EmitStep({"listed"}, {})
  <2>1. SendPrivateMessageAPI(u, v) = <<a>> \o (<<b>> \o <<c>> \o <<d>>)
    BY Pieces DEF SendPrivateMessageAPI, SendConversationMessageAPI
  <2>2. a \in Steps /\ a.do \in Storing /\ a.labels = {}
    BY StepForms DEF Labels
  <2>3. b \in Steps /\ b.do \in Storing /\ b.labels = {"members"}
    BY StepForms DEF Labels
  <2>4. c \in Steps /\ c.do = "listVisible"
    BY StepForms DEF Listing
  <2>5. d \in Steps /\ d.do = "emit" /\ "listed" \in d.audience
    BY DEF Steps, EmitStep, ToldBy
  <2> HIDE DEF a, b, c, d
  <2>6. /\ <<b>> \o <<c>> = <<b, c>>
        /\ <<b, c>> \o <<d>> = <<b, c, d>>
        /\ <<a>> \o <<b, c, d>> = <<a, b, c, d>>
    BY Joins
  <2>7. <<a, b, c, d>> \in Handlers
    BY <2>2, <2>3, <2>4, <2>5, Other DEF Listing
  <2>8. QED BY <2>1, <2>6, <2>7
<1>8. QED BY <1>1, <1>2, <1>3, <1>4, <1>5, <1>6, <1>7

\* More than one event follows the change.
LEMMA LongHandlers ==
  /\ HandleUpdateGroupInfo \in Handlers
  /\ \A v \in Users : HandleRejectMember(v) \in Handlers
  /\ UpdateGroupAPI \in Handlers
  /\ \A v \in Users : HandleRemoveMember(v) \in Handlers
  /\ \A v \in Users : HandleApproveMember(v) \in Handlers
  /\ \A v \in Users : HandleAddMembers(v) \in Handlers
<1>1. HandleUpdateGroupInfo \in Handlers
  <2> DEFINE a == StoreStep({"room", "members"})
             b == EmitStep({"room"}, {})
             c == PlainStep("tryList")
             d == EmitStep({"listed"}, {})
  <2>1. HandleUpdateGroupInfo = <<a>> \o <<b>> \o (<<c>> \o <<d>>)
    BY Pieces DEF HandleUpdateGroupInfo, NotifySystemMessages
  <2>2. a \in Steps /\ a.do \in Storing /\ a.labels = {"room", "members"}
    BY StepForms DEF Labels
  <2>3. b \in Steps /\ b.do = "emit" /\ "room" \in ToldBy(b)
    BY DEF Steps, EmitStep, ToldBy
  <2>4. c \in Steps /\ c.do = "tryList"
    BY StepForms DEF Listing
  <2>5. d \in Steps /\ d.do = "emit" /\ "listed" \in d.audience
    BY DEF Steps, EmitStep, ToldBy
  <2> HIDE DEF a, b, c, d
  <2>6. /\ <<a>> \o <<b>> = <<a, b>>
        /\ <<c>> \o <<d>> = <<c, d>>
        /\ <<a, b>> \o <<c, d>> = <<a, b, c, d>>
    BY Joins
  <2>7. <<a, b, c, d>> \in Handlers
    BY <2>2, <2>3, <2>4, <2>5, EventThenMembers DEF Listing
  <2>8. QED BY <2>1, <2>6, <2>7
<1>2. ASSUME NEW v \in Users
      PROVE  HandleRejectMember(v) \in Handlers
  <2> DEFINE a == StoreStep({"members", v})
             b == EmitStep({}, {v})
             c == PlainStep("tryList")
             d == EmitStep({"listed"}, {})
  <2>1. HandleRejectMember(v) = <<a>> \o <<b>> \o (<<c>> \o <<d>>)
    BY Pieces DEF HandleRejectMember, NotifySystemMessages
  <2>2. a \in Steps /\ a.do \in Storing /\ a.labels = {"members", v}
    BY StepForms DEF Labels
  <2>3. b \in Steps /\ b.do = "emit" /\ {v} \subseteq ToldBy(b)
    BY DEF Steps, EmitStep, ToldBy
  <2>4. c \in Steps /\ c.do = "tryList"
    BY StepForms DEF Listing
  <2>5. d \in Steps /\ d.do = "emit" /\ "listed" \in d.audience
    BY DEF Steps, EmitStep, ToldBy
  <2> HIDE DEF a, b, c, d
  <2>6. /\ <<a>> \o <<b>> = <<a, b>>
        /\ <<c>> \o <<d>> = <<c, d>>
        /\ <<a, b>> \o <<c, d>> = <<a, b, c, d>>
    BY Joins
  <2>7. <<a, b, c, d>> \in Handlers
    BY <2>2, <2>3, <2>4, <2>5, EventThenMembers DEF Listing
  <2>8. QED BY <2>1, <2>6, <2>7
<1>3. UpdateGroupAPI \in Handlers
  <2> DEFINE a == StoreStep({"members"})
             b == PlainStep("list")
             c == EmitStep({"listed"}, {})
             d == PlainStep("tryList")
             e == EmitStep({"listed"}, {})
  <2>1. UpdateGroupAPI = <<a>> \o <<b>> \o <<c>> \o (<<d>> \o <<e>>)
    BY Pieces DEF UpdateGroupAPI, StoreThenList, NotifySystemMessages
  <2>2. a \in Steps /\ a.do \in Storing /\ a.labels = {"members"}
    BY StepForms DEF Labels
  <2>3. b \in Steps /\ b.do = "list"
    BY StepForms DEF Listing
  <2>4. c \in Steps /\ c.do = "emit" /\ "listed" \in c.audience
    BY DEF Steps, EmitStep, ToldBy
  <2>5. d \in Steps /\ d.do = "tryList"
    BY StepForms DEF Listing
  <2>6. e \in Steps /\ e.do = "emit" /\ "listed" \in e.audience
    BY DEF Steps, EmitStep, ToldBy
  <2> HIDE DEF a, b, c, d, e
  <2>7. /\ <<a>> \o <<b>> = <<a, b>>
        /\ <<a, b>> \o <<c>> = <<a, b, c>>
        /\ <<d>> \o <<e>> = <<d, e>>
        /\ <<a, b, c>> \o <<d, e>> = <<a, b, c, d, e>>
    BY Joins
  <2>8. <<a, b, c, d, e>> \in Handlers
    BY <2>2, <2>3, <2>4, <2>5, <2>6, MembersTwice DEF Listing
  <2>9. QED BY <2>1, <2>7, <2>8
<1>4. ASSUME NEW v \in Users
      PROVE  HandleRemoveMember(v) \in Handlers
  <2> DEFINE a == ExpelStep(v, {"members", "room", "notice", v})
             b == EmitStep({"room"}, {})
             c == PlainStep("tryList")
             d == EmitStep({"listed"}, {v})
             e == PlainStep("latest")
  <2>1. HandleRemoveMember(v) = <<a>> \o (<<b>> \o <<c>> \o <<d>> \o <<e>>)
    BY Pieces DEF HandleRemoveMember, NotifyMemberRemoved
  <2>2. a \in Steps /\ a.do \in Storing /\ a.labels = {"members", "room", "notice", v}
    BY StepForms DEF Labels
  <2>3. b \in Steps /\ b.do = "emit" /\ "room" \in ToldBy(b)
    BY DEF Steps, EmitStep, ToldBy
  <2>4. c \in Steps /\ c.do = "tryList"
    BY StepForms DEF Listing
  <2>5. d \in Steps /\ d.do = "emit" /\ "listed" \in d.audience /\ {v} \subseteq ToldBy(d)
    BY DEF Steps, EmitStep, ToldBy
  <2>6. e \in Steps /\ e.do = "latest"
    BY StepForms DEF Listing
  <2> HIDE DEF a, b, c, d, e
  <2>7. /\ <<b>> \o <<c>> = <<b, c>>
        /\ <<b, c>> \o <<d>> = <<b, c, d>>
        /\ <<b, c, d>> \o <<e>> = <<b, c, d, e>>
        /\ <<a>> \o <<b, c, d, e>> = <<a, b, c, d, e>>
    BY Joins
  <2>8. <<a, b, c, d, e>> \in Handlers
    BY <2>2, <2>3, <2>4, <2>5, <2>6, EventThenLatest DEF Listing
  <2>9. QED BY <2>1, <2>7, <2>8
<1>5. ASSUME NEW v \in Users
      PROVE  HandleApproveMember(v) \in Handlers
  <2> DEFINE a == AdmitStep({v}, {"members", "room", "notice", v})
             b == EmitStep({"room"}, {})
             c == PlainStep("tryList")
             d == EmitStep({"listed"}, {v})
             e == WelcomeStep(v)
             f == PlainStep("latest")
  <2>1. HandleApproveMember(v) = <<a>> \o (<<b>> \o <<c>> \o <<d>> \o <<e>> \o <<f>>)
    BY Pieces DEF HandleApproveMember, NotifyMemberApproved
  <2>2. a \in Steps /\ a.do \in Storing /\ a.labels = {"members", "room", "notice", v}
    BY StepForms DEF Labels
  <2>3. b \in Steps /\ b.do = "emit" /\ "room" \in ToldBy(b)
    BY DEF Steps, EmitStep, ToldBy
  <2>4. c \in Steps /\ c.do = "tryList"
    BY StepForms DEF Listing
  <2>5. d \in Steps /\ d.do = "emit" /\ "listed" \in d.audience /\ {v} \subseteq ToldBy(d)
    BY DEF Steps, EmitStep, ToldBy
  <2>6. e \in Steps /\ e.do = "welcome"
    BY StepForms
  <2>7. f \in Steps /\ f.do = "latest"
    BY StepForms DEF Listing
  <2> HIDE DEF a, b, c, d, e, f
  <2>8. /\ <<b>> \o <<c>> = <<b, c>>
        /\ <<b, c>> \o <<d>> = <<b, c, d>>
        /\ <<b, c, d>> \o <<e>> = <<b, c, d, e>>
        /\ <<b, c, d, e>> \o <<f>> = <<b, c, d, e, f>>
        /\ <<a>> \o <<b, c, d, e, f>> = <<a, b, c, d, e, f>>
    BY Joins
  <2>9. <<a, b, c, d, e, f>> \in Handlers
    BY <2>2, <2>3, <2>4, <2>5, <2>6, <2>7, WelcomeThenLatest DEF Listing
  <2>10. QED BY <2>1, <2>8, <2>9
<1>6. ASSUME NEW v \in Users
      PROVE  HandleAddMembers(v) \in Handlers
  <2> DEFINE a == AdmitStep({v}, {"members", "room"})
             b == EmitStep({"room"}, {})
             c == PlainStep("tryList")
             d == EmitStep({"listed"}, {})
             e == WelcomeStep(v)
             f == PlainStep("tryList")
             g == EmitStep({"listed"}, {})
  <2>1. HandleAddMembers(v) = <<a>> \o (<<b>> \o <<c>> \o <<d>> \o <<e>> \o (<<f>> \o <<g>>))
    BY Pieces DEF HandleAddMembers, NotifyMembersAdded, NotifySystemMessages
  <2>2. a \in Steps /\ a.do \in Storing /\ a.labels = {"members", "room"}
    BY StepForms DEF Labels
  <2>3. b \in Steps /\ b.do = "emit" /\ "room" \in ToldBy(b)
    BY DEF Steps, EmitStep, ToldBy
  <2>4. c \in Steps /\ c.do = "tryList"
    BY StepForms DEF Listing
  <2>5. d \in Steps /\ d.do = "emit" /\ "listed" \in d.audience
    BY DEF Steps, EmitStep, ToldBy
  <2>6. e \in Steps /\ e.do = "welcome"
    BY StepForms
  <2>7. f \in Steps /\ f.do = "tryList"
    BY StepForms DEF Listing
  <2>8. g \in Steps /\ g.do = "emit" /\ "listed" \in g.audience
    BY DEF Steps, EmitStep, ToldBy
  <2> HIDE DEF a, b, c, d, e, f, g
  <2>9. /\ <<b>> \o <<c>> = <<b, c>>
        /\ <<b, c>> \o <<d>> = <<b, c, d>>
        /\ <<b, c, d>> \o <<e>> = <<b, c, d, e>>
        /\ <<f>> \o <<g>> = <<f, g>>
        /\ <<b, c, d, e>> \o <<f, g>> = <<b, c, d, e, f, g>>
        /\ <<a>> \o <<b, c, d, e, f, g>> = <<a, b, c, d, e, f, g>>
    BY Joins
  <2>10. <<a, b, c, d, e, f, g>> \in Handlers
    BY <2>2, <2>3, <2>4, <2>5, <2>6, <2>7, <2>8, WelcomeThenMembers DEF Listing
  <2>11. QED BY <2>1, <2>9, <2>10
<1>7. QED BY <1>1, <1>2, <1>3, <1>4, <1>5, <1>6

\* The same handlers under other names.
LEMMA SameHandlers ==
  /\ HandleSetAdmin = HandleUpdateGroupInfo /\ HandleTransferOwner = HandleUpdateGroupInfo
  /\ SetAdminAPI = HandleUpdateGroupInfo /\ TransferOwnerAPI = HandleUpdateGroupInfo
  /\ MarkAsSeenAPI = StoreThenList /\ MarkAsDeliveredAPI = StoreThenList
  /\ SetNicknameAPI = RoomOnly /\ RemoveNicknameAPI = RoomOnly
  /\ SetWallpaperAPI = RoomOnly /\ RemoveWallpaperAPI = RoomOnly
  /\ SendProfileCardAPI = SendConversationMessageAPI
  /\ EditMessageAPIv2 = SendConversationMessageAPI
  /\ \A v : /\ LeaveGroupAPI(v) = HandleRemoveMember(v)
            /\ SendFriendRequestAPI(v) = Own(v) /\ UpdateFriendRequestStatusAPI(v) = Own(v)
            /\ CancelFriendRequestAPI(v) = Own(v) /\ UnfriendAPI(v) = Own(v)
            /\ BlockUserAPI(v) = Own(v) /\ UnblockUserAPI(v) = Own(v)
<1>1. /\ HandleSetAdmin = HandleUpdateGroupInfo /\ HandleTransferOwner = HandleUpdateGroupInfo
      /\ SetAdminAPI = HandleUpdateGroupInfo /\ TransferOwnerAPI = HandleUpdateGroupInfo
  BY Zenon DEF HandleSetAdmin, HandleTransferOwner, SetAdminAPI, TransferOwnerAPI, HandleUpdateGroupInfo
<1>2. MarkAsSeenAPI = StoreThenList /\ MarkAsDeliveredAPI = StoreThenList
  BY Zenon DEF MarkAsSeenAPI, MarkAsDeliveredAPI, NotifyMessageSeen, NotifyMessageDelivered, StoreThenList
<1>3. /\ SetNicknameAPI = RoomOnly /\ RemoveNicknameAPI = RoomOnly
      /\ SetWallpaperAPI = RoomOnly /\ RemoveWallpaperAPI = RoomOnly
  BY Zenon DEF SetNicknameAPI, RemoveNicknameAPI, SetWallpaperAPI, RemoveWallpaperAPI,
               NotifyMemberNicknameChanged, NotifyMemberWallpaperChanged, RoomOnly
<1>4. /\ SendProfileCardAPI = SendConversationMessageAPI
      /\ EditMessageAPIv2 = SendConversationMessageAPI
  BY Zenon DEF SendProfileCardAPI, EditMessageAPIv2, SendConversationMessageAPI
<1>5. \A v : LeaveGroupAPI(v) = HandleRemoveMember(v)
  BY Zenon DEF LeaveGroupAPI, HandleRemoveMember, NotifyMemberLeft, NotifyMemberRemoved
<1>6. \A v : /\ SendFriendRequestAPI(v) = Own(v) /\ UpdateFriendRequestStatusAPI(v) = Own(v)
             /\ CancelFriendRequestAPI(v) = Own(v) /\ UnfriendAPI(v) = Own(v)
             /\ BlockUserAPI(v) = Own(v) /\ UnblockUserAPI(v) = Own(v)
  BY Zenon DEF SendFriendRequestAPI, UpdateFriendRequestStatusAPI, CancelFriendRequestAPI,
               UnfriendAPI, BlockUserAPI, UnblockUserAPI, NotifyFriend, NotifyBlock, Own
<1>7. QED BY <1>1, <1>2, <1>3, <1>4, <1>5, <1>6

\* Those that tell another conversation are lists of steps at least.
LEMMA ElsewhereHandlers == Elsewhere \subseteq Seq(Steps)
<1>1. \A labels \in SUBSET Labels : Store(labels) \in Seq(Steps)
  BY DEF Store, Steps
<1>2. ReadList \in Seq(Steps) /\ ToListed \in Seq(Steps)
  BY DEF ReadList, ToListed, Emit, Steps, Listing
<1>3. {"members", "room"} \in SUBSET Labels /\ {"room"} \in SUBSET Labels
  BY DEF Labels
<1>4. DeleteGroupReminderAPIElsewhere \in Seq(Steps)
  BY <1>1, <1>2, <1>3, ConcatProperties DEF DeleteGroupReminderAPIElsewhere
<1>5. QED BY <1>1, <1>3, <1>4 DEF Elsewhere, HandleDeleteReminderElsewhere, HandleDeleteNoteElsewhere,
                                  DeleteGroupNoteAPIElsewhere

\* Every handler tells all it stores, but for those that tell another conversation.
LEMMA AllHandlers ==
  /\ OverSocket \subseteq Handlers \cup Elsewhere /\ OverHttp \subseteq Handlers \cup Elsewhere
  /\ \A v \in Users :
       /\ OverSocketOwn(v) \subseteq Handlers /\ OverSocketAbout(v) \subseteq Handlers
       /\ OverSocketOutside(v) \subseteq Handlers
       /\ OverHttpOwn(v) \subseteq Handlers /\ OverHttpAbout(v) \subseteq Handlers
       /\ OverHttpAnyone(v) \subseteq Handlers /\ OverHttpOutside(v) \subseteq Handlers
       /\ OverHttpTo(v) \subseteq Handlers
  /\ \A users \in SUBSET Users : CreateGroupAPI(users) \in Handlers /\ CreateGroupAPIv2(users) \in Handlers
<1>1. OverSocket \subseteq Handlers \cup Elsewhere
  BY ShortHandlers, HandlersOfThree, LongHandlers, SameHandlers
     DEF OverSocket, Elsewhere, HandleMessageSeen, HandleMessageDelivered, HandleMarkAllSeen,
   HandleSendMessage, HandleEditMessage, HandleRevokeMessage,
   HandleDeleteMessageForEveryone, HandleForwardMessages, HandleQuoteMessage,
   HandleVoiceMessage, HandleAddReaction, HandleRemoveReaction,
   HandleUpdateGroupSettings,
   HandlePinMessage, HandleUnpinMessage,
   HandleCreatePoll, HandleVotePollAgain, HandleVotePoll, HandleAddPollOption,
   HandleClosePoll, HandlePinPoll, HandleUnpinPoll, HandleDeletePoll,
   HandleCreateReminder, HandleUpdateReminder, HandleDeleteReminder, HandlePinReminder,
   HandleUnpinReminder, HandleCreateNote, HandleUpdateNote, HandleDeleteNote,
   HandleRegenerateGroupInviteLink, HandleRevokeGroupInviteLink, HandleUnblockGroupMember
<1>2. OverHttp \subseteq Handlers \cup Elsewhere
  BY ShortHandlers, HandlersOfThree, LongHandlers, SameHandlers
     DEF OverHttp, Elsewhere, SendMessageAPI, RevokeMessageAPI, DeleteMessageForMeAPI, DeleteMessageForEveryoneAPI,
   ForwardMessagesAPI, EditMessageAPI, PinMessageAPI, UnpinMessageAPI, QuoteMessageAPI,
   AddReactionAPI, RemoveReactionAPI, RemoveAllReactionsAPI, DeleteMessagesBulkAPI,
   UpdateGroupSettingsAPI, DissolveGroupAPI, UnblockGroupMemberAPI,
   RegenerateGroupInviteLinkAPI, RevokeGroupInviteLinkAPI,
   CreatePollAPI, VotePollAPI, VotePollAgainAPI,
   ClosePollAPI, PinPollAPI, UnpinPollAPI, AddPollOptionAPI, DeletePollAPI,
   CreateGroupReminderAPI, UpdateGroupReminderAPI, DeleteGroupReminderAPI,
   PinGroupReminderAPI, UnpinGroupReminderAPI, CreateGroupNoteAPI, UpdateGroupNoteAPI,
   DeleteGroupNoteAPI, DeleteConversationForMeAPI, SaveDraftAPI, DeleteDraftAPI,
   UpdateGroupSettingsAPIv2
<1>3. ASSUME NEW v \in Users
      PROVE  /\ OverSocketOwn(v) \subseteq Handlers /\ OverSocketAbout(v) \subseteq Handlers
             /\ OverSocketOutside(v) \subseteq Handlers
             /\ OverHttpOwn(v) \subseteq Handlers /\ OverHttpAbout(v) \subseteq Handlers
             /\ OverHttpAnyone(v) \subseteq Handlers /\ OverHttpOutside(v) \subseteq Handlers
             /\ OverHttpTo(v) \subseteq Handlers
  <2>1. OverSocketOwn(v) \subseteq Handlers
    BY ShortHandlers, HandlersOfThree
       DEF OverSocketOwn, HandleDeleteMessage, HandlePinConversation, HandleUnpinConversation,
           HandleArchiveConversation, HandleUnarchiveConversation, HandleMuteConversation,
           HandleUnmuteConversation
  <2>2. /\ HandleBlockGroupMember(v) \in Handlers /\ BlockGroupMemberAPI(v) \in Handlers
        /\ HandleJoinGroupByInvite(v) \in Handlers /\ JoinGroupByInviteAPI(v) \in Handlers
    BY ShortHandlers DEF HandleBlockGroupMember, BlockGroupMemberAPI, HandleJoinGroupByInvite,
                         JoinGroupByInviteAPI
  <2>3. OverSocketAbout(v) \subseteq Handlers
    BY <2>2, LongHandlers DEF OverSocketAbout
  <2>4. OverSocketOutside(v) \subseteq Handlers
    BY <2>2, ShortHandlers DEF OverSocketOutside, HandleRequestByInvite
  <2>5. OverHttpOwn(v) \subseteq Handlers
    BY ShortHandlers, LongHandlers, SameHandlers, HidingHandlers
       DEF OverHttpOwn, SaveMessagesToMyDocumentAPI, MuteConversationAPI, UnmuteConversationAPI,
           PinConversationAPI, UnpinConversationAPI, ArchiveConversationAPI, UnarchiveConversationAPI,
           LeaveGroupAPIv2, SaveMessagesToMyDocumentAPIv2, HideConversationAPI, UnhideConversationAPI
  <2>6. OverHttpAbout(v) \subseteq Handlers
    BY <2>2, LongHandlers
       DEF OverHttpAbout, RemoveMemberAPI, RemoveMemberAPIv2, ApproveMemberAPI, RejectMemberAPI,
           AddMembersAPI, AddMembersAPIv2
  <2>7. OverHttpAnyone(v) \subseteq Handlers
    BY HandlersOfThree DEF OverHttpAnyone
  <2>8. OverHttpOutside(v) \subseteq Handlers
    BY <2>2, ShortHandlers DEF OverHttpOutside, RequestByInviteAPI, AcceptMessageRequestAPI
  <2>9. OverHttpTo(v) \subseteq Handlers
    BY ShortHandlers, SameHandlers DEF OverHttpTo
  <2>10. QED BY <2>1, <2>3, <2>4, <2>5, <2>6, <2>7, <2>8, <2>9
<1>4. \A users \in SUBSET Users : CreateGroupAPI(users) \in Handlers /\ CreateGroupAPIv2(users) \in Handlers
  BY ShortHandlers DEF CreateGroupAPIv2
<1>5. QED BY <1>1, <1>2, <1>3, <1>4

-----------------------------------------------------------------------------
(* The theorem *)

\* In the initial state nothing is in flight.
LEMMA InitInv == Init => Inv
<1> SUFFICES ASSUME Init PROVE Inv
  OBVIOUS
<1>1. tasks \in [Slots -> Task]
  BY IdleIsFine DEF Init
<1>2. TypeOK
  BY <1>1 DEF Init, TypeOK
<1>3. FollowsWhatItMay
  BY DEF Init, FollowsWhatItMay
<1>4. \A r \in Slots : Fine(r)
  BY IdleIsFine DEF Init
<1>5. QED BY <1>2, <1>3, <1>4 DEF Inv

\* Every step keeps the invariant.
LEMMA NextInv == Inv /\ [Next]_vars => Inv'
<1> SUFFICES ASSUME Inv, [Next]_vars PROVE Inv'
  OBVIOUS
<1>1. ASSUME NEW r \in Slots, NEW h \in Handlers \cup Elsewhere, Begin(r, h)
      PROVE  Inv'
  BY <1>1, BeginKeepsInv, ElsewhereHandlers DEF Handlers
<1>2. ASSUME NEW r \in Slots, NEW u \in Users, SocketRequest(r, u)
      PROVE  Inv'
  <2>1. PICK h : h \in Handlers \cup Elsewhere /\ Begin(r, h)
    BY <1>2, AllHandlers DEF SocketRequest
  <2>2. QED BY <1>1, <2>1
<1>3. ASSUME NEW r \in Slots, NEW u \in Users, HttpRequest(r, u)
      PROVE  Inv'
  <2>1. PICK h : h \in Handlers \cup Elsewhere /\ Begin(r, h)
    BY <1>3, AllHandlers DEF HttpRequest
  <2>2. QED BY <1>1, <2>1
<1>4. ASSUME NEW r \in Slots, CreateGroup(r)
      PROVE  Inv'
  <2>1. PICK users \in SUBSET Users : Begin(r, CreateGroupAPI(users)) \/ Begin(r, CreateGroupAPIv2(users))
    BY <1>4 DEF CreateGroup
  <2>2. QED BY <1>1, <2>1, AllHandlers
<1>5. ASSUME NEW r \in Slots, Advance(r)
      PROVE  Inv'
  BY <1>5, StoreKeepsInv, DissolveKeepsInv, ReadMembersKeepsInv, EmitKeepsInv, EmitLatestKeepsInv,
     WelcomeKeepsInv, LeavesKeepsInv DEF Advance
<1>6. ASSUME NEW s \in Sockets,
             \/ Connect(s) \/ Disconnect(s) \/ HandleJoinGroup(s)
             \/ EnterRoom(s) \/ HandleLeaveGroup(s) \/ LoadConversation(s)
      PROVE  Inv'
  BY <1>6, SocketKeepsInv, LoadKeepsInv
<1>7. CASE UNCHANGED vars
  BY <1>7 DEF vars, sockets, conversation, Inv, TypeOK, FollowsWhatItMay, Fine, Owes, Busy, Audience, Covered
<1>8. QED BY <1>2, <1>3, <1>4, <1>5, <1>6, <1>7 DEF Next

\* When a request has no step left, nothing is told any more and no list is used:
\* what the invariant says of its changes is that they were heard.
LEMMA InvImpliesHears == Inv => EveryoneHears
<1> SUFFICES ASSUME Inv, NEW r \in Slots, Busy(r), tasks[r].here, tasks[r].todo = <<>>,
                    NEW label \in tasks[r].did, NEW s, s \in Audience(r, label)
             PROVE  <<r, label>> \in heard[s]
  BY DEF EveryoneHears, Ended, AllHave
<1>1. Covered(r, label, s)
  BY DEF Inv, Fine, Owes
<1>2. ~Told(tasks[r].todo, 0, label)
  <2>1. tasks[r].todo \in Seq(Steps)
    BY DEF Inv, TypeOK, Task
  <2>2. QED BY <2>1, FirstTold
<1>3. ~InUse(tasks[r].todo, label)
  BY DEF InUse
<1>4. QED BY <1>1, <1>2, <1>3 DEF Covered

\* When a request ends well, every client it concerns has heard of its changes:
\* the members who are read after the change and told (emitLatestMessageToUsers and
\* the emits of the socket handlers and the controllers), the room, the users who are
\* told by name, and the clients that loaded the conversation in the meantime, for
\* any number of users, sockets and requests in flight; of the requests that say
\* themselves whom to tell, for those that name the conversation.
THEOREM EveryoneIsTold == Spec => []EveryoneHears
<1>1. Init => Inv
  BY InitInv
<1>2. Inv /\ [Next]_vars => Inv'
  BY NextInv
<1>3. Inv => EveryoneHears
  BY InvImpliesHears
<1>4. QED BY <1>1, <1>2, <1>3, PTL DEF Spec
=============================================================================
