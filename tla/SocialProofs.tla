---------------------------- MODULE SocialProofs ----------------------------
(***************************************************************************)
(* A deleted friend request stays deleted, for any number of users and of  *)
(* requests that answer it or delete it at the same time.  As long as      *)
(* requests are handled one at a time, a block keeps users apart, leaves   *)
(* no request between them, and friends have one conversation: SocialInv   *)
(* says for each point of each use case what it can still rely on.         *)
(***************************************************************************)
EXTENDS Social, SequenceTheorems, FiniteSetTheorems, TLAPS

\* What the table of friend requests is known to hold without knowing what
\* the requests in flight carry: a function on the ids, and rows with a status.
RequestRow(x) ==
  x = [status |-> x.status] \/ x = [from |-> x.from, to |-> x.to, status |-> x.status]
RequestTable ==
  /\ requests = [q \in RequestIds |-> requests[q]]
  /\ \A q \in RequestIds : RequestRow(requests[q])

DeletedStays == \A q \in RequestIds : requests[q].status = "deleted" => requests'[q].status = "deleted"

-----------------------------------------------------------------------------
\* Initially there are no requests.
LEMMA InitTable == Init => RequestTable
BY DEF Init, RequestTable, RequestRow, NoRequest

\* A new request takes an id that was never used.
LEMMA InsertStep ==
  ASSUME RequestTable, NEW r \in Slots, InsertRequest(r)
  PROVE  RequestTable' /\ DeletedStays
<1> PICK q \in RequestIds :
      /\ requests[q] = NoRequest
      /\ requests' = [requests EXCEPT ![q] =
           [from |-> Call(r).from, to |-> Call(r).to, status |-> "PENDING"]]
  BY DEF InsertRequest
<1>1. /\ requests'[q] = [from |-> Call(r).from, to |-> Call(r).to, status |-> "PENDING"]
      /\ \A p \in RequestIds : p # q => requests'[p] = requests[p]
      /\ requests' = [p \in RequestIds |-> requests'[p]]
  BY DEF RequestTable
<1>2. requests[q].status # "deleted"
  BY DEF NoRequest
<1>3. RequestRow(requests'[q])
  BY <1>1 DEF RequestRow
<1> QED BY <1>1, <1>2, <1>3 DEF RequestTable, RequestRow, DeletedStays

\* An answer is written on the condition that the request is there.
LEMMA RespondStep ==
  ASSUME RequestTable, NEW r \in Slots, Respond(r)
  PROVE  RequestTable' /\ DeletedStays
<1> DEFINE q == Call(r).request
<1>1. CASE UNCHANGED requests
  BY <1>1 DEF RequestTable, RequestRow, DeletedStays
<1>2. CASE /\ IsStored(q)
           /\ requests' = [requests EXCEPT ![q].status = Call(r).status]
  <2>1. requests[q].status # "deleted" /\ requests[q] # NoRequest
    BY <1>2 DEF IsStored, NoRequest
  <2>2. /\ requests' = [p \in RequestIds |-> requests'[p]]
        /\ \A p \in RequestIds : p # q => requests'[p] = requests[p]
        /\ q \in RequestIds => requests'[q] = [requests[q] EXCEPT !.status = Call(r).status]
    BY <1>2 DEF RequestTable
  <2>3. ASSUME q \in RequestIds
        PROVE  RequestRow(requests'[q])
    <3> HIDE DEF q
    <3>1. CASE requests[q] = [status |-> requests[q].status]
      <4>1. requests'[q] = [status |-> Call(r).status]
        BY <2>2, <2>3, <3>1
      <4> QED BY <4>1 DEF RequestRow
    <3>2. CASE requests[q] = [from |-> requests[q].from, to |-> requests[q].to,
                              status |-> requests[q].status]
      <4>1. requests'[q] = [from |-> requests[q].from, to |-> requests[q].to,
                            status |-> Call(r).status]
        BY <2>2, <2>3, <3>2
      <4> QED BY <4>1 DEF RequestRow
    <3> QED BY <2>3, <3>1, <3>2 DEF RequestTable, RequestRow
  <2> QED BY <2>1, <2>2, <2>3 DEF RequestTable, RequestRow, DeletedStays
<1> QED BY <1>1, <1>2 DEF Respond

\* Deleting a request twice leaves it deleted.
LEMMA DeleteStep ==
  ASSUME RequestTable, NEW r \in Slots, DeleteRequests(r)
  PROVE  RequestTable' /\ DeletedStays
<1> PICK gone \in SUBSET Call(r).ids :
      requests' = [q \in RequestIds |->
        IF q \in gone THEN [requests[q] EXCEPT !.status = "deleted"] ELSE requests[q]]
  BY DEF DeleteRequests
<1>1. ASSUME NEW q \in RequestIds
      PROVE  /\ RequestRow([requests[q] EXCEPT !.status = "deleted"])
             /\ [requests[q] EXCEPT !.status = "deleted"].status = "deleted"
  <2>1. CASE requests[q] = [status |-> requests[q].status]
    BY <2>1 DEF RequestRow
  <2>2. CASE requests[q] = [from |-> requests[q].from, to |-> requests[q].to,
                            status |-> requests[q].status]
    BY <2>2 DEF RequestRow
  <2> QED BY <2>1, <2>2 DEF RequestTable, RequestRow
<1> QED BY <1>1 DEF RequestTable, DeletedStays

-----------------------------------------------------------------------------
\* Every step keeps the table and its deleted requests.
LEMMA NextStep == RequestTable /\ [Next]_vars => RequestTable' /\ DeletedStays
<1> SUFFICES ASSUME RequestTable, [Next]_vars
             PROVE  RequestTable' /\ DeletedStays
  OBVIOUS
<1>1. CASE UNCHANGED requests
  BY <1>1 DEF RequestTable, RequestRow, DeletedStays
<1>2. ASSUME NEW r \in Slots, UseCase(r)
      PROVE  UNCHANGED requests
  BY <1>2 DEF UseCase, SendFriendRequest, Unfriend, BlockUser, UnblockUser, OpenConversation,
       AcceptFriendRequest, AnswerFriendRequest, Start, tables
<1>3. ASSUME NEW r \in Slots, DatabaseCall(r)
      PROVE  RequestTable' /\ DeletedStays
  <2>1. CASE InsertRequest(r)
    BY <2>1, InsertStep
  <2>2. CASE Respond(r)
    BY <2>2, RespondStep
  <2>3. CASE DeleteRequests(r)
    BY <2>3, DeleteStep
  <2>4. CASE SetFriendship(r) \/ InsertFriendship(r) \/ CreateConversation(r) \/ InsertBlock(r)
    BY <1>1, <2>4 DEF SetFriendship, InsertFriendship, CreateConversation, InsertBlock
  <2>5. CASE ListPending(r) \/ FindConversation(r) \/ CallFails(r)
    BY <1>1, <2>5 DEF ListPending, FindConversation, CallFails, tables
  <2> QED BY <1>3, <2>1, <2>2, <2>3, <2>4, <2>5 DEF DatabaseCall
<1> QED BY <1>1, <1>2, <1>3 DEF Next, vars

\* A deleted friend request stays deleted, whichever answer to it was under way
\* (the conditional update of the friend request repository).
THEOREM DeletedStaysDeleted == Spec => DeletedIsFinal
<1>1. RequestTable /\ [Next]_vars => RequestTable'
  BY NextStep
<1>2. RequestTable /\ [Next]_vars =>
        [\A q \in RequestIds :
           requests[q].status = "deleted" => requests'[q].status = "deleted"]_vars
  BY NextStep DEF DeletedStays
<1> QED BY InitTable, <1>1, <1>2, PTL DEF Spec, DeletedIsFinal

-----------------------------------------------------------------------------
(* What the tables and the requests in flight hold *)

Status == {"PENDING", "deleted"} \cup Answer
RequestItem == {x \in [from : Users, to : Users, status : Status] : x.from # x.to}

TablesOK ==
  /\ friendship \in [Pairs -> [status : {"none", "ACTIVE", "DELETED"}, hasId : BOOLEAN]]
  /\ blocks \subseteq {w \in Users \X Users : w[1] # w[2]}
  /\ requests \in [RequestIds -> RequestItem \cup {NoRequest}]
  /\ conversations \in [Pairs -> Nat]
  /\ failed \in BOOLEAN
  /\ overlapped \in BOOLEAN

SlotsOK ==
  /\ DOMAIN slots = Slots
  /\ \A r \in Slots : slots[r] = [todo |-> slots[r].todo]

\* The calls, by what they do.
Set(p, status) == [kind |-> "setFriendship", pair |-> p, status |-> status]
Insert(p) == [kind |-> "insertFriendship", pair |-> p]
Ask(a, b) == [kind |-> "insertRequest", from |-> a, to |-> b]
Answering(q, status) == [kind |-> "respond", request |-> q, status |-> status]
ListAll(p) == [kind |-> "listPending", pair |-> p, all |-> TRUE]
ListSome(p) == [kind |-> "listPending", pair |-> p, all |-> FALSE]
Drop(ids) == [kind |-> "deleteRequests", ids |-> ids]
Find(p) == [kind |-> "findConversation", pair |-> p]
Create(p) == [kind |-> "createConversation", pair |-> p]
Blocking(w) == [kind |-> "insertBlock", block |-> w]

\* With one request at a time nothing changes between its checks and its calls.
Calm == ~overlapped
Sound == Calm /\ ~failed

Unblocked(p) == \A a, b \in Users : {a, b} = p => <<a, b>> \notin blocks
Apart(p) == friendship[p].status # "ACTIVE"
Used == {q \in RequestIds : requests[q] # NoRequest}

\* The pending requests that a block is sure to find: those of a sender whose
\* requests fit on the page it lists.
HasFew(a) == Cardinality(SentBy(a)) <= ListLimit
Reachable(p) == {q \in PendingOf(p) : HasFew(requests[q].from)}

\* What is left of a request, and what it can rely on.
Sending(t) == \E a, b \in Users : a # b /\ t = <<Ask(a, b)>> /\ (Calm => Unblocked({a, b}))
Responding(t) == \E q \in RequestIds, s \in Answer : t = <<Answering(q, s)>>
Restoring(t) ==
  \E p \in Pairs, q \in RequestIds :
    \/ t = <<Set(p, "ACTIVE"), Find(p), Answering(q, "ACCEPTED")>> /\ (Calm => Unblocked(p))
    \/ t = <<Find(p), Answering(q, "ACCEPTED")>>
    \/ t = <<Create(p), Answering(q, "ACCEPTED")>> /\ (Sound => conversations[p] = 0)
Befriending(t) ==
  \E p \in Pairs :
    /\ Calm => Unblocked(p)
    /\ \/ \E q \in RequestIds : t = <<Answering(q, "ACCEPTED"), Insert(p), Find(p)>>
       \/ t = <<Insert(p), Find(p)>>
Opening(t) ==
  \E p \in Pairs :
    \/ t = <<Find(p)>>
    \/ t = <<Create(p)>> /\ (Sound => conversations[p] = 0)
Unfriending(t) ==
  \/ \E p \in Pairs : t = <<Set(p, "DELETED"), ListAll(p)>> \/ t = <<ListAll(p)>>
  \/ \E ids \in SUBSET Used : t = <<Drop(ids)>>
BlockingOf(t, w, p) ==
  \/ t = <<Set(p, "DELETED"), ListSome(p), Blocking(w)>>
  \/ /\ Calm => Apart(p)
     /\ \/ t = <<ListSome(p), Blocking(w)>>
        \/ \E ids \in SUBSET Used : t = <<Drop(ids), Blocking(w)>> /\ (Sound => Reachable(p) \subseteq ids)
        \/ t = <<Blocking(w)>> /\ (Sound => Reachable(p) = {})
BlockingUser(t) == \E a, b \in Users : a # b /\ BlockingOf(t, <<a, b>>, {a, b})

Doing(t) ==
  \/ t = <<>>
  \/ Sending(t) \/ Responding(t) \/ Restoring(t) \/ Befriending(t)
  \/ Opening(t) \/ Unfriending(t) \/ BlockingUser(t)

Busy(r) == slots[r].todo # <<>>

\* The calls in which a conversation is on its way.
At(t, p) ==
  /\ t # <<>>
  /\ Head(t).kind \in {"findConversation", "createConversation"}
  /\ Head(t).pair = p

OneAtATime == \A r, s \in Slots : Busy(r) /\ Busy(s) => r = s
ApartOK == \A w \in blocks : Apart({w[1], w[2]})
PendingOK == \A w \in blocks : Reachable({w[1], w[2]}) = {}
ConversationOK(t) ==
  \A p \in Pairs : conversations[p] <= 1 /\ (Apart(p) \/ conversations[p] > 0 \/ At(t, p))

SocialInv ==
  /\ TablesOK
  /\ SlotsOK
  /\ \A r \in Slots : Doing(slots[r].todo)
  /\ Calm => OneAtATime /\ ApartOK
  /\ Sound => PendingOK
  /\ Sound => \A p \in Pairs :
       /\ conversations[p] <= 1
       /\ Apart(p) \/ conversations[p] > 0 \/ \E r \in Slots : At(slots[r].todo, p)

\* A request that makes a call, by the call and by what it leaves to do.
TurnOf(h, rest, p, q) ==
  \/ h = Set(p, "ACTIVE") /\ rest = <<Find(p), Answering(q, "ACCEPTED")>> /\ (Calm => Unblocked(p))
  \/ h = Answering(q, "ACCEPTED") /\ rest = <<Insert(p), Find(p)>> /\ (Calm => Unblocked(p))
  \/ h = Find(p) /\ rest = <<Answering(q, "ACCEPTED")>>
  \/ h = Create(p) /\ rest = <<Answering(q, "ACCEPTED")>> /\ (Sound => conversations[p] = 0)
TurnOn(h, rest, p) ==
  \/ h = Insert(p) /\ rest = <<Find(p)>> /\ (Calm => Unblocked(p))
  \/ h = Find(p) /\ rest = <<>>
  \/ h = Create(p) /\ rest = <<>> /\ (Sound => conversations[p] = 0)
  \/ h = Set(p, "DELETED") /\ rest = <<ListAll(p)>>
  \/ h = ListAll(p) /\ rest = <<>>
TurnToBlock(h, rest, w, p) ==
  \/ h = Set(p, "DELETED") /\ rest = <<ListSome(p), Blocking(w)>>
  \/ h = ListSome(p) /\ rest = <<Blocking(w)>> /\ (Calm => Apart(p))
  \/ \E ids \in SUBSET Used :
       h = Drop(ids) /\ rest = <<Blocking(w)>> /\ (Calm => Apart(p)) /\ (Sound => Reachable(p) \subseteq ids)
  \/ h = Blocking(w) /\ rest = <<>> /\ (Calm => Apart(p)) /\ (Sound => Reachable(p) = {})
Turn(h, rest) ==
  \/ \E a, b \in Users : a # b /\ h = Ask(a, b) /\ rest = <<>> /\ (Calm => Unblocked({a, b}))
  \/ \E q \in RequestIds, s \in Answer : h = Answering(q, s) /\ rest = <<>>
  \/ \E ids \in SUBSET Used : h = Drop(ids) /\ rest = <<>>
  \/ \E p \in Pairs, q \in RequestIds : TurnOf(h, rest, p, q)
  \/ \E p \in Pairs : TurnOn(h, rest, p)
  \/ \E a, b \in Users : a # b /\ TurnToBlock(h, rest, <<a, b>>, {a, b})

-----------------------------------------------------------------------------
(* Sequences, pairs and what other requests do *)

LEMMA Parts ==
  ASSUME NEW x, NEW y, NEW z
  PROVE  /\ <<x>> # <<>> /\ Head(<<x>>) = x /\ Tail(<<x>>) = <<>>
         /\ <<x, y>> # <<>> /\ Head(<<x, y>>) = x /\ Tail(<<x, y>>) = <<y>>
         /\ <<x, y, z>> # <<>> /\ Head(<<x, y, z>>) = x /\ Tail(<<x, y, z>>) = <<y, z>>
<1> DEFINE S == {x, y, z}
<1>1. \A s, t \in Seq(S) : Len(s) = Len(t) /\ (\A i \in 1..Len(s) : s[i] = t[i]) => s = t
  BY SeqEqual
<1>2. \A s \in Seq(S) : Len(s) # 0 =>
        /\ s # <<>> /\ Head(s) = s[1]
        /\ Tail(s) \in Seq(S) /\ Len(Tail(s)) = Len(s) - 1
        /\ \A i \in 1..Len(s) - 1 : Tail(s)[i] = s[i + 1]
  OBVIOUS
<1>3. /\ <<x>> \in Seq(S) /\ Len(<<x>>) = 1 /\ <<x>>[1] = x
      /\ <<y>> \in Seq(S) /\ Len(<<y>>) = 1 /\ <<y>>[1] = y
      /\ <<>> \in Seq(S) /\ Len(<<>>) = 0
  OBVIOUS
<1>4. /\ <<x, y>> \in Seq(S) /\ Len(<<x, y>>) = 2 /\ <<x, y>>[1] = x /\ <<x, y>>[2] = y
      /\ <<y, z>> \in Seq(S) /\ Len(<<y, z>>) = 2 /\ <<y, z>>[1] = y /\ <<y, z>>[2] = z
  OBVIOUS
<1>5. /\ <<x, y, z>> \in Seq(S) /\ Len(<<x, y, z>>) = 3
      /\ <<x, y, z>>[1] = x /\ <<x, y, z>>[2] = y /\ <<x, y, z>>[3] = z
  OBVIOUS
<1> HIDE DEF S
<1>6. Tail(<<x>>) = <<>>
  <2>1. PICK u : u = Tail(<<x>>)
    OBVIOUS
  <2>2. u \in Seq(S) /\ Len(u) = 0
    BY <1>2, <1>3, <2>1
  <2> QED BY <1>1, <1>3, <2>1, <2>2
<1>7. Tail(<<x, y>>) = <<y>>
  <2>1. PICK u : u = Tail(<<x, y>>)
    OBVIOUS
  <2>2. u \in Seq(S) /\ Len(u) = 1 /\ u[1] = y
    BY <1>2, <1>4, <2>1
  <2>3. \A i \in 1..1 : u[i] = <<y>>[i]
    BY <1>3, <2>2
  <2> QED BY <1>1, <1>3, <2>1, <2>2, <2>3
<1>8. Tail(<<x, y, z>>) = <<y, z>>
  <2>1. PICK u : u = Tail(<<x, y, z>>)
    OBVIOUS
  <2>2. u \in Seq(S) /\ Len(u) = 2 /\ u[1] = y /\ u[2] = z
    BY <1>2, <1>5, <2>1
  <2>3. \A i \in 1..2 : u[i] = <<y, z>>[i]
    BY <1>4, <2>2
  <2> QED BY <1>1, <1>4, <2>1, <2>2, <2>3
<1> QED BY <1>2, <1>3, <1>4, <1>5, <1>6, <1>7, <1>8

LEMMA Cons ==
  /\ \A x : <<x>> # <<>> /\ Head(<<x>>) = x /\ Tail(<<x>>) = <<>>
  /\ \A x, y : <<x, y>> # <<>> /\ Head(<<x, y>>) = x /\ Tail(<<x, y>>) = <<y>>
  /\ \A x, y, z : <<x, y, z>> # <<>> /\ Head(<<x, y, z>>) = x /\ Tail(<<x, y, z>>) = <<y, z>>
<1>1. ASSUME NEW x PROVE <<x>> # <<>> /\ Head(<<x>>) = x /\ Tail(<<x>>) = <<>>
  <2>1. PICK y : y = x
    OBVIOUS
  <2> QED BY Parts
<1>2. ASSUME NEW x, NEW y PROVE <<x, y>> # <<>> /\ Head(<<x, y>>) = x /\ Tail(<<x, y>>) = <<y>>
  BY Parts
<1>3. ASSUME NEW x, NEW y, NEW z
      PROVE  <<x, y, z>> # <<>> /\ Head(<<x, y, z>>) = x /\ Tail(<<x, y, z>>) = <<y, z>>
  BY Parts
<1> QED BY <1>1, <1>2, <1>3

LEMMA Joins ==
  ASSUME NEW x, NEW y
  PROVE  /\ <<x>> \o <<>> = <<x>> /\ <<>> \o <<x>> = <<x>> /\ <<>> \o <<>> = <<>>
         /\ <<x>> \o <<y>> = <<x, y>>
<1> DEFINE S == {x, y}
<1>1. \A s, t \in Seq(S) : Len(s) = Len(t) /\ (\A i \in 1..Len(s) : s[i] = t[i]) => s = t
  BY SeqEqual
<1>2. \A s, t \in Seq(S) :
         /\ s \o t \in Seq(S)
         /\ Len(s \o t) = Len(s) + Len(t)
         /\ \A i \in 1..Len(s) : (s \o t)[i] = s[i]
         /\ \A i \in 1..Len(t) : (s \o t)[Len(s) + i] = t[i]
  OBVIOUS
<1>3. /\ <<x>> \in Seq(S) /\ Len(<<x>>) = 1 /\ <<x>>[1] = x
      /\ <<y>> \in Seq(S) /\ Len(<<y>>) = 1 /\ <<y>>[1] = y
      /\ <<x, y>> \in Seq(S) /\ Len(<<x, y>>) = 2 /\ <<x, y>>[1] = x /\ <<x, y>>[2] = y
  OBVIOUS
<1>4. \A s \in Seq(S) : <<>> \o s = s /\ s \o <<>> = s
  OBVIOUS
<1>5. <<>> \in Seq(S)
  OBVIOUS
<1> HIDE DEF S
<1>6. <<x>> \o <<y>> = <<x, y>>
  <2>1. PICK u : u = <<x>> \o <<y>>
    OBVIOUS
  <2>2. u \in Seq(S) /\ Len(u) = 2 /\ u[1] = x /\ u[2] = y
    BY <1>2, <1>3, <2>1
  <2>3. \A i \in 1..2 : u[i] = <<x, y>>[i]
    BY <1>3, <2>2
  <2> QED BY <1>1, <1>3, <2>1, <2>2, <2>3
<1> QED BY <1>3, <1>4, <1>5, <1>6

LEMMA TurnOfEach ==
  ASSUME NEW t, Doing(t), t # <<>>
  PROVE  Turn(Head(t), Tail(t))
<1>1. CASE Sending(t)
  BY <1>1, Cons DEF Sending, Turn
<1>2. CASE Responding(t)
  BY <1>2, Cons DEF Responding, Turn
<1>3. CASE Restoring(t)
  <2>1. PICK p \in Pairs, q \in RequestIds :
          \/ t = <<Set(p, "ACTIVE"), Find(p), Answering(q, "ACCEPTED")>> /\ (Calm => Unblocked(p))
          \/ t = <<Find(p), Answering(q, "ACCEPTED")>>
          \/ t = <<Create(p), Answering(q, "ACCEPTED")>> /\ (Sound => conversations[p] = 0)
    BY <1>3 DEF Restoring
  <2>2. TurnOf(Head(t), Tail(t), p, q)
    <3>1. CASE t = <<Set(p, "ACTIVE"), Find(p), Answering(q, "ACCEPTED")>> /\ (Calm => Unblocked(p))
      <4>1. Head(t) = Set(p, "ACTIVE") /\ Tail(t) = <<Find(p), Answering(q, "ACCEPTED")>>
        BY <3>1, Cons
      <4> QED BY <3>1, <4>1 DEF TurnOf
    <3>2. CASE t = <<Find(p), Answering(q, "ACCEPTED")>>
      BY <3>2, Cons DEF TurnOf
    <3>3. CASE t = <<Create(p), Answering(q, "ACCEPTED")>> /\ (Sound => conversations[p] = 0)
      <4>1. Head(t) = Create(p) /\ Tail(t) = <<Answering(q, "ACCEPTED")>>
        BY <3>3, Cons
      <4> QED BY <3>3, <4>1 DEF TurnOf
    <3> QED BY <2>1, <3>1, <3>2, <3>3
  <2> QED BY <2>2 DEF Turn
<1>4. CASE Befriending(t)
  <2>1. PICK p \in Pairs :
          /\ Calm => Unblocked(p)
          /\ \/ \E q \in RequestIds : t = <<Answering(q, "ACCEPTED"), Insert(p), Find(p)>>
             \/ t = <<Insert(p), Find(p)>>
    BY <1>4 DEF Befriending
  <2>2. TurnOn(Head(t), Tail(t), p) \/ \E q \in RequestIds : TurnOf(Head(t), Tail(t), p, q)
    <3>1. CASE \E q \in RequestIds : t = <<Answering(q, "ACCEPTED"), Insert(p), Find(p)>>
      <4>1. PICK q \in RequestIds : t = <<Answering(q, "ACCEPTED"), Insert(p), Find(p)>>
        BY <3>1
      <4>2. Head(t) = Answering(q, "ACCEPTED") /\ Tail(t) = <<Insert(p), Find(p)>>
        BY <4>1, Cons
      <4> QED BY <2>1, <4>2 DEF TurnOf
    <3>2. CASE t = <<Insert(p), Find(p)>>
      BY <2>1, <3>2, Cons DEF TurnOn
    <3> QED BY <2>1, <3>1, <3>2
  <2> QED BY <2>2 DEF Turn
<1>5. CASE Opening(t)
  <2>1. \E p \in Pairs : TurnOn(Head(t), Tail(t), p)
    BY <1>5, Cons DEF Opening, TurnOn
  <2> QED BY <2>1 DEF Turn
<1>6. CASE Unfriending(t)
  <2>1. \/ \E p \in Pairs : TurnOn(Head(t), Tail(t), p)
        \/ \E ids \in SUBSET Used : Head(t) = Drop(ids) /\ Tail(t) = <<>>
    BY <1>6, Cons DEF Unfriending, TurnOn
  <2> QED BY <2>1 DEF Turn
<1>7. CASE BlockingUser(t)
  <2>1. PICK a, b \in Users : a # b /\ BlockingOf(t, <<a, b>>, {a, b})
    BY <1>7 DEF BlockingUser
  <2>2. TurnToBlock(Head(t), Tail(t), <<a, b>>, {a, b})
    <3>1. PICK w : w = <<a, b>>
      OBVIOUS
    <3>2. PICK p : p = {a, b}
      OBVIOUS
    <3>3. BlockingOf(t, w, p)
      BY <2>1, <3>1, <3>2
    <3>4. CASE t = <<Set(p, "DELETED"), ListSome(p), Blocking(w)>>
      <4>1. Head(t) = Set(p, "DELETED") /\ Tail(t) = <<ListSome(p), Blocking(w)>>
        BY <3>4, Cons
      <4> QED BY <3>1, <3>2, <4>1 DEF TurnToBlock
    <3>5. CASE t = <<ListSome(p), Blocking(w)>> /\ (Calm => Apart(p))
      <4>1. Head(t) = ListSome(p) /\ Tail(t) = <<Blocking(w)>>
        BY <3>5, Cons
      <4> QED BY <3>1, <3>2, <3>5, <4>1 DEF TurnToBlock
    <3>6. CASE /\ Calm => Apart(p)
               /\ \E ids \in SUBSET Used : t = <<Drop(ids), Blocking(w)>> /\ (Sound => Reachable(p) \subseteq ids)
      <4>1. PICK ids \in SUBSET Used : t = <<Drop(ids), Blocking(w)>> /\ (Sound => Reachable(p) \subseteq ids)
        BY <3>6
      <4>2. Head(t) = Drop(ids) /\ Tail(t) = <<Blocking(w)>>
        BY <4>1, Cons
      <4> QED BY <3>1, <3>2, <3>6, <4>1, <4>2 DEF TurnToBlock
    <3>7. CASE (Calm => Apart(p)) /\ t = <<Blocking(w)>> /\ (Sound => Reachable(p) = {})
      <4>1. Head(t) = Blocking(w) /\ Tail(t) = <<>>
        BY <3>7, Cons
      <4> QED BY <3>1, <3>2, <3>7, <4>1 DEF TurnToBlock
    <3> QED BY <3>3, <3>4, <3>5, <3>6, <3>7 DEF BlockingOf
  <2> QED BY <2>1, <2>2 DEF Turn
<1> QED BY <1>1, <1>2, <1>3, <1>4, <1>5, <1>6, <1>7 DEF Doing

\* A pair names its two users.
LEMMA PairNames ==
  /\ \A a, b \in Users : a # b => {a, b} \in Pairs
  /\ \A a, b, c, d : {a, b} = {c, d} => (a = c /\ b = d) \/ (a = d /\ b = c)
<1>1. ASSUME NEW a \in Users, NEW b \in Users, a # b
      PROVE  {a, b} \in Pairs
  <2>1. \A c : {a, b} # {c}
    BY <1>1
  <2> QED BY <2>1 DEF Pairs
<1>2. ASSUME NEW a, NEW b, NEW c, NEW d, {a, b} = {c, d}
      PROVE  (a = c /\ b = d) \/ (a = d /\ b = c)
  <2>1. a \in {c, d} /\ b \in {c, d} /\ c \in {a, b} /\ d \in {a, b}
    BY <1>2
  <2> QED BY <2>1
<1> QED BY <1>1, <1>2

LEMMA NoBlockBetween ==
  ASSUME NEW a \in Users, NEW b \in Users, ~BlockedBetween(a, b)
  PROVE  Unblocked({a, b})
<1>1. <<a, b>> \notin blocks /\ <<b, a>> \notin blocks
  BY DEF BlockedBetween
<1> QED BY <1>1, PairNames DEF Unblocked

\* Once requests have overlapped, what is left of one relies on very little.
LEMMA Weaker ==
  ASSUME NEW t, Doing(t), overlapped' = TRUE, Used \subseteq Used'
  PROVE  Doing(t)'
<1>1. ~Calm' /\ ~Sound'
  BY DEF Calm, Sound
<1>2. Sending(t) => Sending(t)'
  BY <1>1 DEF Sending
<1>3. Responding(t) => Responding(t)'
  BY DEF Responding
<1>4. Restoring(t) => Restoring(t)'
  BY <1>1 DEF Restoring
<1>5. Befriending(t) => Befriending(t)'
  BY <1>1 DEF Befriending
<1>6. Opening(t) => Opening(t)'
  BY <1>1 DEF Opening
<1>7. Unfriending(t) => Unfriending(t)'
  BY DEF Unfriending
<1>8. BlockingUser(t) => BlockingUser(t)'
  <2> SUFFICES ASSUME NEW a \in Users, NEW b \in Users, BlockingOf(t, <<a, b>>, {a, b})
               PROVE  BlockingOf(t, <<a, b>>, {a, b})'
    BY DEF BlockingUser
  <2>1. \A ids \in SUBSET Used : ids \in SUBSET Used'
    OBVIOUS
  <2> QED BY <1>1, <2>1 DEF BlockingOf
<1> QED BY <1>2, <1>3, <1>4, <1>5, <1>6, <1>7, <1>8 DEF Doing

LEMMA KindOfCall ==
  /\ \A p, s : Set(p, s).kind = "setFriendship" /\ Set(p, s).pair = p /\ Set(p, s).status = s
  /\ \A p : Insert(p).kind = "insertFriendship" /\ Insert(p).pair = p
  /\ \A a, b : Ask(a, b).kind = "insertRequest" /\ Ask(a, b).from = a /\ Ask(a, b).to = b
  /\ \A q, s : Answering(q, s).kind = "respond" /\ Answering(q, s).request = q /\ Answering(q, s).status = s
  /\ \A p : ListAll(p).kind = "listPending" /\ ListAll(p).pair = p /\ ListAll(p).all
  /\ \A p : ListSome(p).kind = "listPending" /\ ListSome(p).pair = p /\ ~ListSome(p).all
  /\ \A ids : Drop(ids).kind = "deleteRequests" /\ Drop(ids).ids = ids
  /\ \A p : Find(p).kind = "findConversation" /\ Find(p).pair = p
  /\ \A p : Create(p).kind = "createConversation" /\ Create(p).pair = p
  /\ \A w : Blocking(w).kind = "insertBlock" /\ Blocking(w).block = w
BY DEF Set, Insert, Ask, Answering, ListAll, ListSome, Drop, Find, Create, Blocking

\* The kind of a call tells where the request that makes it is.
AtAsk(h, rest) ==
  \E a, b \in Users : a # b /\ h = Ask(a, b) /\ rest = <<>> /\ (Calm => Unblocked({a, b}))
AtSet(h, rest) ==
  \/ \E p \in Pairs, q \in RequestIds :
       h = Set(p, "ACTIVE") /\ rest = <<Find(p), Answering(q, "ACCEPTED")>> /\ (Calm => Unblocked(p))
  \/ \E p \in Pairs : h = Set(p, "DELETED") /\ rest = <<ListAll(p)>>
  \/ \E a, b \in Users :
       a # b /\ h = Set({a, b}, "DELETED") /\ rest = <<ListSome({a, b}), Blocking(<<a, b>>)>>
AtInsert(h, rest) ==
  \E p \in Pairs : h = Insert(p) /\ rest = <<Find(p)>> /\ (Calm => Unblocked(p))
AtRespond(h, rest) ==
  \E q \in RequestIds, s \in Answer : h = Answering(q, s) /\
    \/ rest = <<>>
    \/ \E p \in Pairs : rest = <<Insert(p), Find(p)>> /\ (Calm => Unblocked(p))
AtList(h, rest) ==
  \/ \E p \in Pairs : h = ListAll(p) /\ rest = <<>>
  \/ \E a, b \in Users :
       a # b /\ h = ListSome({a, b}) /\ rest = <<Blocking(<<a, b>>)>> /\ (Calm => Apart({a, b}))
AtDrop(h, rest) ==
  \E ids \in SUBSET Used : h = Drop(ids) /\
    \/ rest = <<>>
    \/ \E a, b \in Users :
         /\ a # b /\ rest = <<Blocking(<<a, b>>)>>
         /\ Calm => Apart({a, b})
         /\ Sound => Reachable({a, b}) \subseteq ids
AtFind(h, rest) ==
  \E p \in Pairs : h = Find(p) /\
    (rest = <<>> \/ \E q \in RequestIds : rest = <<Answering(q, "ACCEPTED")>>)
AtCreate(h, rest) ==
  \E p \in Pairs : h = Create(p) /\ (Sound => conversations[p] = 0) /\
    (rest = <<>> \/ \E q \in RequestIds : rest = <<Answering(q, "ACCEPTED")>>)
AtBlock(h, rest) ==
  \E a, b \in Users :
    /\ a # b /\ h = Blocking(<<a, b>>) /\ rest = <<>>
    /\ Calm => Apart({a, b})
    /\ Sound => Reachable({a, b}) = {}

LEMMA TurnByKind ==
  ASSUME NEW h, NEW rest, Turn(h, rest)
  PROVE  /\ h.kind = "insertRequest" => AtAsk(h, rest)
         /\ h.kind = "setFriendship" => AtSet(h, rest)
         /\ h.kind = "insertFriendship" => AtInsert(h, rest)
         /\ h.kind = "respond" => AtRespond(h, rest)
         /\ h.kind = "listPending" => AtList(h, rest)
         /\ h.kind = "deleteRequests" => AtDrop(h, rest)
         /\ h.kind = "findConversation" => AtFind(h, rest)
         /\ h.kind = "createConversation" => AtCreate(h, rest)
         /\ h.kind = "insertBlock" => AtBlock(h, rest)
<1> USE DEF AtAsk, AtSet, AtInsert, AtRespond, AtList, AtDrop, AtFind, AtCreate, AtBlock
<1>1. CASE \E a, b \in Users : a # b /\ h = Ask(a, b) /\ rest = <<>> /\ (Calm => Unblocked({a, b}))
  <2>1. h.kind = "insertRequest"
    BY <1>1, KindOfCall
  <2> QED BY <1>1, <2>1
<1>2. CASE \E q \in RequestIds, s \in Answer : h = Answering(q, s) /\ rest = <<>>
  <2>1. h.kind = "respond"
    BY <1>2, KindOfCall
  <2> QED BY <1>2, <2>1
<1>3. CASE \E ids \in SUBSET Used : h = Drop(ids) /\ rest = <<>>
  <2>1. h.kind = "deleteRequests"
    BY <1>3, KindOfCall
  <2> QED BY <1>3, <2>1
<1>4. ASSUME NEW p \in Pairs, NEW q \in RequestIds, TurnOf(h, rest, p, q)
      PROVE  \/ h.kind = "setFriendship" /\ h = Set(p, "ACTIVE") /\ rest = <<Find(p), Answering(q, "ACCEPTED")>> /\ (Calm => Unblocked(p))
             \/ h.kind = "respond" /\ h = Answering(q, "ACCEPTED") /\ rest = <<Insert(p), Find(p)>> /\ (Calm => Unblocked(p))
             \/ h.kind = "findConversation" /\ h = Find(p) /\ rest = <<Answering(q, "ACCEPTED")>>
             \/ h.kind = "createConversation" /\ h = Create(p) /\ rest = <<Answering(q, "ACCEPTED")>> /\ (Sound => conversations[p] = 0)
  BY <1>4, KindOfCall DEF TurnOf
<1>5. ASSUME NEW p \in Pairs, TurnOn(h, rest, p)
      PROVE  \/ h.kind = "insertFriendship" /\ h = Insert(p) /\ rest = <<Find(p)>> /\ (Calm => Unblocked(p))
             \/ h.kind = "findConversation" /\ h = Find(p) /\ rest = <<>>
             \/ h.kind = "createConversation" /\ h = Create(p) /\ rest = <<>> /\ (Sound => conversations[p] = 0)
             \/ h.kind = "setFriendship" /\ h = Set(p, "DELETED") /\ rest = <<ListAll(p)>>
             \/ h.kind = "listPending" /\ h = ListAll(p) /\ rest = <<>>
  BY <1>5, KindOfCall DEF TurnOn
<1>6. ASSUME NEW w, NEW p, TurnToBlock(h, rest, w, p)
      PROVE  \/ h.kind = "setFriendship" /\ h = Set(p, "DELETED") /\ rest = <<ListSome(p), Blocking(w)>>
             \/ h.kind = "listPending" /\ h = ListSome(p) /\ rest = <<Blocking(w)>> /\ (Calm => Apart(p))
             \/ h.kind = "deleteRequests" /\ \E ids \in SUBSET Used :
                  h = Drop(ids) /\ rest = <<Blocking(w)>> /\ (Calm => Apart(p)) /\ (Sound => Reachable(p) \subseteq ids)
             \/ h.kind = "insertBlock" /\ h = Blocking(w) /\ rest = <<>> /\ (Calm => Apart(p)) /\ (Sound => Reachable(p) = {})
  BY <1>6, KindOfCall DEF TurnToBlock
<1>7. "ACCEPTED" \in Answer
  BY DEF Answer
<1>8. CASE \E p \in Pairs, q \in RequestIds : TurnOf(h, rest, p, q)
  <2> PICK p \in Pairs, q \in RequestIds : TurnOf(h, rest, p, q)
    BY <1>8
  <2> QED BY <1>4, <1>7
<1>9. CASE \E p \in Pairs : TurnOn(h, rest, p)
  <2> PICK p \in Pairs : TurnOn(h, rest, p)
    BY <1>9
  <2> QED BY <1>5
<1>10. CASE \E a, b \in Users : a # b /\ TurnToBlock(h, rest, <<a, b>>, {a, b})
  <2>1. PICK a, b \in Users : a # b /\ TurnToBlock(h, rest, <<a, b>>, {a, b})
    BY <1>10
  <2>2. PICK w : w = <<a, b>>
    OBVIOUS
  <2>3. PICK p : p = {a, b}
    OBVIOUS
  <2>4. TurnToBlock(h, rest, w, p)
    BY <2>1, <2>2, <2>3
  <2> QED BY <1>6, <2>1, <2>2, <2>3, <2>4
<1> QED BY <1>1, <1>2, <1>3, <1>8, <1>9, <1>10 DEF Turn

-----------------------------------------------------------------------------
(* A step of one request *)

LEMMA BusyMeans ==
  ASSUME SlotsOK, NEW r \in Slots
  PROVE  Busy(r) <=> slots[r] # Idle
BY DEF SlotsOK, Busy, Idle

\* A request that makes a call: where it is, and what it is alone to do.
LEMMA View ==
  ASSUME SocialInv, NEW r \in Slots, slots[r] # Idle
  PROVE  \E h, rest :
           /\ h = Call(r) /\ rest = Tail(slots[r].todo) /\ h.kind = Kind(r)
           /\ Turn(h, rest)
           /\ Sound => ConversationOK(slots[r].todo)
           /\ \A p : At(slots[r].todo, p) => h.kind \in {"findConversation", "createConversation"} /\ h.pair = p
<1>1. PICK t : t = slots[r].todo
  OBVIOUS
<1>2. t # <<>> /\ Doing(t)
  BY <1>1, BusyMeans DEF SocialInv, Busy
<1>3. Turn(Head(t), Tail(t))
  BY <1>2, TurnOfEach
<1>4. Kind(r) = Head(t).kind /\ Call(r) = Head(t)
  BY <1>1 DEF Kind, Call
<1>5. ASSUME Sound
      PROVE  ConversationOK(t)
  <2>1. \A s \in Slots : s # r => slots[s].todo = <<>>
    BY <1>1, <1>2, <1>5 DEF SocialInv, Sound, OneAtATime, Busy
  <2>2. \A s \in Slots : \A p : At(slots[s].todo, p) => At(t, p)
    BY <1>1, <2>1 DEF At
  <2> QED BY <1>5, <2>2 DEF SocialInv, ConversationOK
<1>6. \A p : At(t, p) => Head(t).kind \in {"findConversation", "createConversation"} /\ Head(t).pair = p
  BY DEF At
<1>7. PICK h : h = Head(t)
  OBVIOUS
<1>8. PICK rest : rest = Tail(t)
  OBVIOUS
<1> QED BY <1>1, <1>3, <1>4, <1>5, <1>6, <1>7, <1>8

\* What the step of one request has to show for all of them.
LEMMA Done ==
  ASSUME SocialInv, NEW r \in Slots, slots[r] # Idle, NEW t,
         slots' = [slots EXCEPT ![r] = [todo |-> t]], overlapped' = overlapped,
         Used \subseteq Used', TablesOK', Doing(t)',
         (Calm => ApartOK)', (Sound => PendingOK)', (Sound => ConversationOK(t))'
  PROVE  SocialInv'
<1>1. /\ slots'[r] = [todo |-> t]
      /\ \A s \in Slots : s # r => slots'[s] = slots[s]
      /\ SlotsOK'
  BY DEF SocialInv, SlotsOK
<1>2. slots'[r].todo = t
  BY <1>1
<1>3. Busy(r)
  BY BusyMeans DEF SocialInv
<1>4. ASSUME Calm
      PROVE  \A s \in Slots : s # r => slots[s].todo = <<>>
  BY <1>3, <1>4 DEF SocialInv, OneAtATime, Busy
<1>5. ASSUME NEW s \in Slots
      PROVE  Doing(slots[s].todo)'
  <2>1. CASE s = r
    BY <1>2, <2>1
  <2>2. CASE s # r
    <3>1. PICK u : u = slots[s].todo
      OBVIOUS
    <3>2. slots'[s].todo = u /\ Doing(u)
      BY <1>1, <2>2, <3>1 DEF SocialInv
    <3>3. CASE Calm
      <4>1. u = <<>>
        BY <1>4, <2>2, <3>1, <3>3
      <4> QED BY <3>2, <4>1 DEF Doing
    <3>4. CASE ~Calm
      <4>1. overlapped' = TRUE
        BY <3>4 DEF Calm, SocialInv, TablesOK
      <4>2. Doing(u)'
        BY <3>2, <4>1, Weaker
      <4> QED BY <3>2, <4>2
    <3> QED BY <3>3, <3>4
  <2> QED BY <2>1, <2>2
<1>6. (Calm => OneAtATime)'
  <2> SUFFICES ASSUME Calm PROVE OneAtATime'
    BY DEF Calm
  <2> QED BY <1>1, <1>4 DEF OneAtATime, Busy
<1>7. (Sound => \A p \in Pairs :
         /\ conversations[p] <= 1
         /\ Apart(p) \/ conversations[p] > 0 \/ \E s \in Slots : At(slots[s].todo, p))'
  BY <1>2 DEF ConversationOK
<1>8. \A s \in Slots : Doing(slots[s].todo)'
  BY <1>5
<1> QED BY <1>1, <1>6, <1>7, <1>8 DEF SocialInv

\* The rows of requests that a step leaves alone.
LEMMA SameRequests ==
  ASSUME requests' = requests
  PROVE  Used' = Used /\ \A p : Reachable(p)' = Reachable(p)
BY DEF Used, Reachable, HasFew, SentBy, PendingOf, IsPending, PairOf

\* A user who has sent few requests now had not sent more before.
LEMMA MoreSent ==
  ASSUME NEW a, SentBy(a) \subseteq SentBy(a)', HasFew(a)'
  PROVE  HasFew(a)
<1>1. PICK S : S = SentBy(a)
  OBVIOUS
<1>2. PICK T : T = SentBy(a)'
  OBVIOUS
<1>3. S \subseteq T /\ T \subseteq RequestIds /\ Cardinality(T) <= ListLimit
  BY <1>1, <1>2 DEF SentBy, HasFew
<1>4. IsFiniteSet(T)
  BY <1>3, FS_Subset, SocialAssumption
<1>5. IsFiniteSet(S) /\ Cardinality(S) <= Cardinality(T)
  BY <1>3, <1>4, FS_Subset
<1>6. Cardinality(S) \in Nat /\ Cardinality(T) \in Nat /\ ListLimit \in Nat
  BY <1>4, <1>5, FS_CardinalityType, SocialAssumption
<1> QED BY <1>1, <1>3, <1>5, <1>6 DEF HasFew

\* A block finds what it is sure to find.
LEMMA Listed ==
  ASSUME NEW p, NEW ids, MayList(p, ids)
  PROVE  Reachable(p) \subseteq ids
<1>1. PICK page \in [p -> SUBSET RequestIds] :
        /\ \A a \in p : page[a] \in Pages(a, ListLimit)
        /\ ids = {q \in PendingOf(p) : q \in page[requests[q].from]}
  BY DEF MayList
<1>2. SUFFICES ASSUME NEW q \in Reachable(p)
               PROVE  q \in page[requests[q].from]
  BY <1>1 DEF Reachable
<1>3. PICK a : a = requests[q].from
  OBVIOUS
<1>4. a \in p /\ HasFew(a) /\ q \in SentBy(a) /\ IsStored(q)
  BY <1>3 DEF Reachable, PendingOf, PairOf, IsPending, SentBy, IsStored, NoRequest
<1>5. PICK sent : sent = {x \in SentBy(a) : IsStored(x)}
  OBVIOUS
<1>6. /\ page[a] \subseteq sent
      /\ Cardinality(page[a]) = ListLimit \/ page[a] = sent
  BY <1>1, <1>4, <1>5 DEF Pages
<1>7. IsFiniteSet(SentBy(a))
  <2>1. SentBy(a) \subseteq RequestIds
    BY DEF SentBy
  <2> QED BY <2>1, FS_Subset, SocialAssumption
<1>8. IsFiniteSet(sent) /\ Cardinality(sent) <= Cardinality(SentBy(a))
  BY <1>5, <1>7, FS_Subset
<1>9. /\ Cardinality(page[a]) <= Cardinality(sent)
      /\ Cardinality(page[a]) = Cardinality(sent) => page[a] = sent
      /\ IsFiniteSet(page[a])
  BY <1>6, <1>8, FS_Subset
<1>10. Cardinality(SentBy(a)) <= ListLimit
  BY <1>4 DEF HasFew
<1>11. /\ ListLimit \in Nat /\ Cardinality(SentBy(a)) \in Nat
       /\ Cardinality(sent) \in Nat /\ Cardinality(page[a]) \in Nat
  BY <1>7, <1>8, <1>9, FS_CardinalityType, SocialAssumption
<1>12. page[a] = sent
  BY <1>6, <1>8, <1>9, <1>10, <1>11
<1> QED BY <1>3, <1>4, <1>5, <1>12

\* The status of a pair is written.
LEMMA StatusWritten ==
  ASSUME SocialInv, NEW p \in Pairs, NEW s \in {"ACTIVE", "DELETED"},
         friendship' = [friendship EXCEPT ![p].status = s],
         blocks' = blocks, requests' = requests, conversations' = conversations,
         failed' = failed, overlapped' = overlapped,
         s = "ACTIVE" => (Calm => Unblocked(p))
  PROVE  /\ TablesOK' /\ Used' = Used
         /\ friendship'[p].status = s
         /\ \A o \in Pairs : o # p => friendship'[o] = friendship[o]
         /\ (Calm => ApartOK)'
         /\ (Sound => PendingOK)'
<1>1. /\ friendship'[p] = [friendship[p] EXCEPT !.status = s]
      /\ \A o \in Pairs : o # p => friendship'[o] = friendship[o]
      /\ DOMAIN friendship' = Pairs
  BY DEF SocialInv, TablesOK
<1>2. friendship[p] \in [status : {"none", "ACTIVE", "DELETED"}, hasId : BOOLEAN]
  BY DEF SocialInv, TablesOK
<1>3. friendship'[p] \in [status : {"none", "ACTIVE", "DELETED"}, hasId : BOOLEAN] /\ friendship'[p].status = s
  BY <1>1, <1>2
<1>4. friendship' \in [Pairs -> [status : {"none", "ACTIVE", "DELETED"}, hasId : BOOLEAN]]
  BY <1>1, <1>3 DEF SocialInv, TablesOK
<1>5. TablesOK'
  BY <1>4 DEF SocialInv, TablesOK
<1>6. ASSUME Calm, NEW w \in blocks
      PROVE  friendship'[{w[1], w[2]}].status # "ACTIVE"
  <2>1. w \in Users \X Users /\ w[1] # w[2] /\ w = <<w[1], w[2]>>
    BY DEF SocialInv, TablesOK
  <2>2. {w[1], w[2]} \in Pairs
    BY <2>1, PairNames
  <2>3. friendship[{w[1], w[2]}].status # "ACTIVE"
    BY <1>6 DEF SocialInv, ApartOK, Apart
  <2>4. CASE {w[1], w[2]} # p
    BY <1>1, <2>2, <2>3, <2>4
  <2>5. CASE {w[1], w[2]} = p /\ s = "ACTIVE"
    BY <1>6, <2>1, <2>5 DEF Unblocked
  <2> QED BY <1>3, <2>4, <2>5
<1>7. (Calm => ApartOK)'
  BY <1>6 DEF Calm, ApartOK, Apart
<1>8. (Sound => PendingOK)' /\ Used' = Used
  BY SameRequests DEF SocialInv, Sound, Calm, PendingOK
<1> QED BY <1>1, <1>3, <1>5, <1>7, <1>8

LEMMA SetStep ==
  ASSUME SocialInv, NEW r \in Slots, SetFriendship(r)
  PROVE  SocialInv'
<1>1. slots[r] # Idle /\ Kind(r) = "setFriendship"
  BY DEF SetFriendship, Kind
<1>2. PICK h, rest :
        /\ h = Call(r) /\ rest = Tail(slots[r].todo) /\ h.kind = Kind(r)
        /\ Turn(h, rest)
        /\ Sound => ConversationOK(slots[r].todo)
        /\ \A p : At(slots[r].todo, p) => h.kind \in {"findConversation", "createConversation"} /\ h.pair = p
  BY <1>1, View
<1>3. /\ friendship' = [friendship EXCEPT ![h.pair].status = h.status]
      /\ slots' = [slots EXCEPT ![r] = [todo |-> rest]]
      /\ UNCHANGED <<blocks, requests, conversations, failed, overlapped>>
  BY <1>2 DEF SetFriendship, Return, Continue
<1>4. ASSUME Sound
      PROVE  \A o \in Pairs : conversations[o] <= 1 /\ (Apart(o) \/ conversations[o] > 0)
  BY <1>1, <1>2, <1>4 DEF ConversationOK
<1>5. ASSUME NEW p \in Pairs, NEW q \in RequestIds, h = Set(p, "ACTIVE"),
             rest = <<Find(p), Answering(q, "ACCEPTED")>>, Calm => Unblocked(p)
      PROVE  SocialInv'
  <2>1. friendship' = [friendship EXCEPT ![p].status = "ACTIVE"]
    BY <1>3, <1>5 DEF Set
  <2>2. /\ TablesOK' /\ Used' = Used
        /\ \A o \in Pairs : o # p => friendship'[o] = friendship[o]
        /\ (Calm => ApartOK)'
        /\ (Sound => PendingOK)'
    BY <1>3, <1>5, <2>1, StatusWritten
  <2>3. Restoring(rest)'
    BY <1>5 DEF Restoring
  <2>4. Doing(rest)'
    BY <2>3 DEF Doing
  <2>5. At(rest, p)
    <3>1. rest # <<>> /\ Head(rest) = Find(p)
      BY <1>5, Cons
    <3> QED BY <3>1 DEF At, Find
  <2>6. (Sound => ConversationOK(rest))'
    BY <1>3, <1>4, <2>2, <2>5 DEF Sound, Calm, ConversationOK, Apart
  <2> QED BY <1>1, <1>3, <2>2, <2>4, <2>6, Done
<1>6. ASSUME NEW p \in Pairs, h = Set(p, "DELETED"),
             \/ rest = <<ListAll(p)>>
             \/ \E a, b \in Users : a # b /\ p = {a, b} /\ rest = <<ListSome(p), Blocking(<<a, b>>)>>
      PROVE  SocialInv'
  <2>1. friendship' = [friendship EXCEPT ![p].status = "DELETED"]
    BY <1>3, <1>6 DEF Set
  <2>2. /\ TablesOK' /\ Used' = Used
        /\ friendship'[p].status = "DELETED"
        /\ \A o \in Pairs : o # p => friendship'[o] = friendship[o]
        /\ (Calm => ApartOK)'
        /\ (Sound => PendingOK)'
    BY <1>3, <1>6, <2>1, StatusWritten
  <2>3. Doing(rest)'
    <3>1. CASE rest = <<ListAll(p)>>
      <4>1. Unfriending(rest)'
        BY <3>1 DEF Unfriending
      <4> QED BY <4>1 DEF Doing
    <3>2. CASE \E a, b \in Users : a # b /\ p = {a, b} /\ rest = <<ListSome(p), Blocking(<<a, b>>)>>
      <4>1. PICK a, b \in Users : a # b /\ p = {a, b} /\ rest = <<ListSome(p), Blocking(<<a, b>>)>>
        BY <3>2
      <4>2. PICK w : w = <<a, b>>
        OBVIOUS
      <4>3. BlockingOf(rest, w, p)'
        BY <2>2, <4>1, <4>2 DEF BlockingOf, Apart
      <4>4. BlockingUser(rest)'
        BY <4>1, <4>2, <4>3 DEF BlockingUser
      <4> QED BY <4>4 DEF Doing
    <3> QED BY <1>6, <3>1, <3>2
  <2>4. (Sound => ConversationOK(rest))'
    BY <1>3, <1>4, <2>2 DEF Sound, Calm, ConversationOK, Apart
  <2> QED BY <1>1, <1>3, <2>2, <2>3, <2>4, Done
<1>7. AtSet(h, rest)
  BY <1>1, <1>2, TurnByKind
<1>8. ASSUME NEW a \in Users, NEW b \in Users, a # b, h = Set({a, b}, "DELETED"),
             rest = <<ListSome({a, b}), Blocking(<<a, b>>)>>
      PROVE  SocialInv'
  <2>1. PICK p : p = {a, b}
    OBVIOUS
  <2>2. p \in Pairs
    BY <1>8, <2>1, PairNames
  <2> QED BY <1>6, <1>8, <2>1, <2>2
<1> QED BY <1>5, <1>6, <1>7, <1>8 DEF AtSet

\* A call that throws ends its request and leaves the tables alone.
LEMMA Thrown ==
  ASSUME SocialInv, NEW r \in Slots, slots[r] # Idle, Throw(r), UNCHANGED tables
  PROVE  SocialInv'
<1>1. /\ slots' = [slots EXCEPT ![r] = [todo |-> <<>>]]
      /\ failed' = TRUE /\ overlapped' = overlapped
      /\ UNCHANGED <<friendship, blocks, requests, conversations>>
  BY DEF Throw, Continue, tables
<1>2. TablesOK' /\ Used' = Used
  BY <1>1 DEF SocialInv, TablesOK, Used
<1>3. Doing(<<>>)'
  BY DEF Doing
<1>4. (Calm => ApartOK)'
  BY <1>1 DEF SocialInv, Calm, ApartOK, Apart
<1>5. ~Sound'
  BY <1>1 DEF Sound
<1>6. PICK t : t = <<>>
  OBVIOUS
<1>7. Doing(t)'
  BY <1>3, <1>6
<1>8. slots' = [slots EXCEPT ![r] = [todo |-> t]]
  BY <1>1, <1>6
<1> QED BY <1>1, <1>2, <1>4, <1>5, <1>7, <1>8, Done

\* At a call that neither looks a conversation up nor creates one, none is on its way.
Arrived == \A o \in Pairs : conversations[o] <= 1 /\ (Apart(o) \/ conversations[o] > 0)

\* Where a request is that makes a call of a kind.
LEMMA Where ==
  ASSUME SocialInv, NEW r \in Slots, Kind(r) # "idle"
  PROVE  /\ slots[r] # Idle
         /\ \E h, rest :
              /\ h = Call(r) /\ rest = Tail(slots[r].todo) /\ h.kind = Kind(r)
              /\ Turn(h, rest)
              /\ Sound => \A p \in Pairs :
                   /\ conversations[p] <= 1
                   /\ \/ Apart(p) \/ conversations[p] > 0
                      \/ h.kind \in {"findConversation", "createConversation"} /\ h.pair = p
<1>1. slots[r] # Idle
  BY DEF Kind
<1>2. PICK h, rest :
        /\ h = Call(r) /\ rest = Tail(slots[r].todo) /\ h.kind = Kind(r)
        /\ Turn(h, rest)
        /\ Sound => ConversationOK(slots[r].todo)
        /\ \A p : At(slots[r].todo, p) => h.kind \in {"findConversation", "createConversation"} /\ h.pair = p
  BY <1>1, View
<1>3. Sound => \A p \in Pairs :
        /\ conversations[p] <= 1
        /\ \/ Apart(p) \/ conversations[p] > 0
           \/ h.kind \in {"findConversation", "createConversation"} /\ h.pair = p
  BY <1>2 DEF ConversationOK
<1> QED BY <1>1, <1>2, <1>3

LEMMA InsertFriendshipStep ==
  ASSUME SocialInv, NEW r \in Slots, InsertFriendship(r)
  PROVE  SocialInv'
<1>1. Kind(r) = "insertFriendship"
  BY DEF InsertFriendship
<1>2. slots[r] # Idle
  BY <1>1, Where
<1>3. PICK h, rest :
        /\ h = Call(r) /\ rest = Tail(slots[r].todo) /\ h.kind = Kind(r)
        /\ Turn(h, rest)
        /\ Sound => \A p \in Pairs :
             /\ conversations[p] <= 1
             /\ \/ Apart(p) \/ conversations[p] > 0
                \/ h.kind \in {"findConversation", "createConversation"} /\ h.pair = p
  BY <1>1, Where
<1>4. AtInsert(h, rest)
  BY <1>1, <1>3, TurnByKind
<1>5. PICK p \in Pairs : h = Insert(p) /\ rest = <<Find(p)>> /\ (Calm => Unblocked(p))
  BY <1>4 DEF AtInsert
<1>6. CASE UNCHANGED friendship /\ Throw(r)
  BY <1>2, <1>6, Thrown DEF InsertFriendship, tables
<1>7. CASE friendship' = [friendship EXCEPT ![Call(r).pair] = [status |-> "ACTIVE", hasId |-> TRUE]] /\ Return(r)
  <2>1. /\ friendship' = [friendship EXCEPT ![p] = [status |-> "ACTIVE", hasId |-> TRUE]]
        /\ slots' = [slots EXCEPT ![r] = [todo |-> rest]]
        /\ UNCHANGED <<blocks, requests, conversations, failed, overlapped>>
    <3>1. Call(r).pair = p
      BY <1>3, <1>5, KindOfCall
    <3> QED BY <1>3, <1>7, <3>1 DEF InsertFriendship, Return, Continue
  <2>2. /\ friendship' \in [Pairs -> [status : {"none", "ACTIVE", "DELETED"}, hasId : BOOLEAN]]
        /\ \A o \in Pairs : o # p => friendship'[o] = friendship[o]
    BY <2>1 DEF SocialInv, TablesOK
  <2>3. TablesOK' /\ Used' = Used
    BY <2>1, <2>2 DEF SocialInv, TablesOK, Used
  <2>4. ASSUME Calm, NEW w \in blocks
        PROVE  friendship'[{w[1], w[2]}].status # "ACTIVE"
    <3>1. w \in Users \X Users /\ w[1] # w[2] /\ w = <<w[1], w[2]>>
      BY DEF SocialInv, TablesOK
    <3>2. {w[1], w[2]} \in Pairs
      BY <3>1, PairNames
    <3>3. friendship[{w[1], w[2]}].status # "ACTIVE"
      BY <2>4 DEF SocialInv, ApartOK, Apart
    <3>4. {w[1], w[2]} # p
      BY <1>5, <2>4, <3>1 DEF Unblocked
    <3> QED BY <2>2, <3>2, <3>3, <3>4
  <2>5. (Calm => ApartOK)'
    BY <2>1, <2>4 DEF Calm, ApartOK, Apart
  <2>6. (Sound => PendingOK)'
    BY <2>1, SameRequests DEF SocialInv, Sound, Calm, PendingOK
  <2>7. Doing(rest)'
    <3>1. Opening(rest)'
      BY <1>5 DEF Opening
    <3> QED BY <3>1 DEF Doing
  <2>8. At(rest, p)
    BY <1>5, Cons, KindOfCall DEF At
  <2>9. (Sound => ConversationOK(rest))'
    BY <1>1, <1>3, <2>1, <2>2, <2>8 DEF Sound, Calm, ConversationOK, Apart
  <2> QED BY <1>2, <2>1, <2>3, <2>5, <2>6, <2>7, <2>9, Done
<1> QED BY <1>6, <1>7 DEF InsertFriendship

LEMMA FindStep ==
  ASSUME SocialInv, NEW r \in Slots, FindConversation(r)
  PROVE  SocialInv'
<1>1. Kind(r) = "findConversation"
  BY DEF FindConversation
<1>2. slots[r] # Idle
  BY <1>1, Where
<1>3. PICK h, rest :
        /\ h = Call(r) /\ rest = Tail(slots[r].todo) /\ h.kind = Kind(r)
        /\ Turn(h, rest)
        /\ Sound => \A p \in Pairs :
             /\ conversations[p] <= 1
             /\ \/ Apart(p) \/ conversations[p] > 0
                \/ h.kind \in {"findConversation", "createConversation"} /\ h.pair = p
  BY <1>1, Where
<1>4. AtFind(h, rest)
  BY <1>1, <1>3, TurnByKind
<1>5. PICK p \in Pairs : h = Find(p) /\ (rest = <<>> \/ \E q \in RequestIds : rest = <<Answering(q, "ACCEPTED")>>)
  BY <1>4 DEF AtFind
<1>6. h.pair = p
  BY <1>5, KindOfCall
<1>7. UNCHANGED <<friendship, blocks, requests, conversations, failed, overlapped>>
  BY DEF FindConversation, tables
<1>8. /\ TablesOK' /\ Used' = Used
      /\ (Calm => ApartOK)'
      /\ (Sound => PendingOK)'
  BY <1>7, SameRequests DEF SocialInv, TablesOK, Calm, Sound, ApartOK, Apart, PendingOK
<1>9. conversations[p] \in Nat
  BY DEF SocialInv, TablesOK
<1>10. CASE conversations[p] > 0
  <2>1. slots' = [slots EXCEPT ![r] = [todo |-> rest]]
    <3>1. slots' = [slots EXCEPT ![r] = [todo |-> <<>> \o rest]]
      BY <1>3, <1>6, <1>10 DEF FindConversation, Continue
    <3>2. <<>> \o rest = rest
      BY <1>5, Joins
    <3> QED BY <3>1, <3>2
  <2>2. Doing(rest)'
    <3>1. CASE rest = <<>>
      BY <3>1 DEF Doing
    <3>2. CASE \E q \in RequestIds : rest = <<Answering(q, "ACCEPTED")>>
      <4>1. Responding(rest)'
        BY <3>2 DEF Responding, Answer
      <4> QED BY <4>1 DEF Doing
    <3> QED BY <1>5, <3>1, <3>2
  <2>3. (Sound => ConversationOK(rest))'
    BY <1>3, <1>6, <1>7, <1>10 DEF Sound, Calm, ConversationOK, Apart
  <2> QED BY <1>2, <1>7, <1>8, <2>1, <2>2, <2>3, Done
<1>11. CASE ~(conversations[p] > 0)
  <2>1. conversations[p] = 0
    BY <1>9, <1>11
  <2>2. PICK t : t = <<Create(p)>> \o rest
    OBVIOUS
  <2>3. slots' = [slots EXCEPT ![r] = [todo |-> t]]
    <3>1. slots' = [slots EXCEPT ![r] = [todo |-> <<[kind |-> "createConversation", pair |-> p]>> \o rest]]
      BY <1>3, <1>6, <1>11 DEF FindConversation, Continue
    <3> QED BY <2>2, <3>1 DEF Create
  <2>4. t = <<Create(p)>> \/ \E q \in RequestIds : t = <<Create(p), Answering(q, "ACCEPTED")>>
    BY <1>5, <2>2, Joins
  <2>5. Doing(t)'
    <3>1. CASE t = <<Create(p)>>
      <4>1. Opening(t)'
        BY <1>7, <2>1, <3>1 DEF Opening
      <4> QED BY <4>1 DEF Doing
    <3>2. CASE \E q \in RequestIds : t = <<Create(p), Answering(q, "ACCEPTED")>>
      <4>1. Restoring(t)'
        BY <1>7, <2>1, <3>2 DEF Restoring
      <4> QED BY <4>1 DEF Doing
    <3> QED BY <2>4, <3>1, <3>2
  <2>6. At(t, p)
    BY <2>4, Cons, KindOfCall DEF At
  <2>7. (Sound => ConversationOK(t))'
    BY <1>3, <1>6, <1>7, <2>6 DEF Sound, Calm, ConversationOK, Apart
  <2> QED BY <1>2, <1>7, <1>8, <2>3, <2>5, <2>7, Done
<1> QED BY <1>10, <1>11

LEMMA CreateStep ==
  ASSUME SocialInv, NEW r \in Slots, CreateConversation(r)
  PROVE  SocialInv'
<1>1. Kind(r) = "createConversation"
  BY DEF CreateConversation
<1>2. slots[r] # Idle
  BY <1>1, Where
<1>3. PICK h, rest :
        /\ h = Call(r) /\ rest = Tail(slots[r].todo) /\ h.kind = Kind(r)
        /\ Turn(h, rest)
        /\ Sound => \A p \in Pairs :
             /\ conversations[p] <= 1
             /\ \/ Apart(p) \/ conversations[p] > 0
                \/ h.kind \in {"findConversation", "createConversation"} /\ h.pair = p
  BY <1>1, Where
<1>4. AtCreate(h, rest)
  BY <1>1, <1>3, TurnByKind
<1>5. PICK p \in Pairs :
        /\ h = Create(p) /\ (Sound => conversations[p] = 0)
        /\ rest = <<>> \/ \E q \in RequestIds : rest = <<Answering(q, "ACCEPTED")>>
  BY <1>4 DEF AtCreate
<1>6. h.pair = p
  BY <1>5, KindOfCall
<1>7. /\ conversations' = [conversations EXCEPT ![p] = conversations[p] + 1]
      /\ slots' = [slots EXCEPT ![r] = [todo |-> rest]]
      /\ UNCHANGED <<friendship, blocks, requests, failed, overlapped>>
  BY <1>3, <1>6 DEF CreateConversation, Return, Continue
<1>8. /\ conversations' \in [Pairs -> Nat]
      /\ conversations'[p] = conversations[p] + 1 /\ conversations[p] \in Nat
      /\ \A o \in Pairs : o # p => conversations'[o] = conversations[o]
  BY <1>7 DEF SocialInv, TablesOK
<1>9. /\ TablesOK' /\ Used' = Used
      /\ (Calm => ApartOK)'
      /\ (Sound => PendingOK)'
  BY <1>7, <1>8, SameRequests DEF SocialInv, TablesOK, Calm, Sound, ApartOK, Apart, PendingOK
<1>10. Doing(rest)'
  <2>1. CASE rest = <<>>
    BY <2>1 DEF Doing
  <2>2. CASE \E q \in RequestIds : rest = <<Answering(q, "ACCEPTED")>>
    <3>1. Responding(rest)'
      BY <2>2 DEF Responding, Answer
    <3> QED BY <3>1 DEF Doing
  <2> QED BY <1>5, <2>1, <2>2
<1>11. (Sound => ConversationOK(rest))'
  <2> SUFFICES ASSUME Sound, NEW o \in Pairs
               PROVE  conversations'[o] <= 1 /\ (friendship'[o].status # "ACTIVE" \/ conversations'[o] > 0)
    BY <1>7 DEF Sound, Calm, ConversationOK, Apart
  <2>1. CASE o = p
    BY <1>5, <1>8, <2>1
  <2>2. CASE o # p
    BY <1>3, <1>6, <1>7, <1>8, <2>2 DEF Apart
  <2> QED BY <2>1, <2>2
<1> QED BY <1>2, <1>7, <1>9, <1>10, <1>11, Done

\* The rows of requests, when one of them is written and none becomes pending
\* for a pair with a block.
LEMMA RequestWritten ==
  ASSUME SocialInv, NEW q \in RequestIds, NEW x \in RequestItem,
         requests' = [requests EXCEPT ![q] = x],
         requests[q] = NoRequest \/ x.from = requests[q].from,
         UNCHANGED <<friendship, blocks, conversations, failed, overlapped>>,
         x.status = "PENDING" => (Calm => Unblocked({x.from, x.to}))
  PROVE  /\ TablesOK' /\ Used \subseteq Used'
         /\ (Calm => ApartOK)'
         /\ (Sound => PendingOK)'
<1>1. /\ requests' \in [RequestIds -> RequestItem \cup {NoRequest}]
      /\ requests'[q] = x
      /\ \A o \in RequestIds : o # q => requests'[o] = requests[o]
  BY DEF SocialInv, TablesOK
<1>2. x # NoRequest
  <2>1. x = [from |-> x.from, to |-> x.to, status |-> x.status]
    BY DEF RequestItem
  <2>2. x.status \in Status
    BY DEF RequestItem
  <2>3. "none" \notin Status /\ NoRequest.status = "none"
    BY DEF Status, Answer, NoRequest
  <2> QED BY <2>2, <2>3
<1>3. Used \subseteq Used'
  BY <1>1, <1>2 DEF Used
<1>4. TablesOK'
  BY <1>1 DEF SocialInv, TablesOK
<1>5. (Calm => ApartOK)'
  BY DEF SocialInv, Calm, ApartOK, Apart
<1>6. ASSUME Sound, NEW w \in blocks
      PROVE  Reachable({w[1], w[2]})' = {}
  <2>1. w \in Users \X Users /\ w[1] # w[2] /\ w = <<w[1], w[2]>>
    BY DEF SocialInv, TablesOK
  <2>2. Reachable({w[1], w[2]}) = {}
    BY <1>6 DEF SocialInv, PendingOK
  <2>3. PICK p : p = {w[1], w[2]}
    OBVIOUS
  <2>4. \A a : SentBy(a) \subseteq SentBy(a)'
    BY <1>1, <1>2 DEF SentBy
  <2>5. ASSUME NEW o \in Reachable(p)' PROVE FALSE
    <3>1. o \in RequestIds /\ requests'[o].status = "PENDING" /\ {requests'[o].from, requests'[o].to} = p
      BY DEF Reachable, PendingOf, IsPending, PairOf
    <3>2. CASE o # q
      <4>1. requests'[o] = requests[o] /\ o \in PendingOf(p)
        BY <1>1, <3>1, <3>2 DEF PendingOf, IsPending, PairOf
      <4>2. PICK a : a = requests[o].from
        OBVIOUS
      <4>3. HasFew(a)'
        <5>1. HasFew(requests[o].from)'
          BY DEF Reachable
        <5> QED BY <4>1, <4>2, <5>1 DEF HasFew, SentBy
      <4>4. HasFew(a)
        BY <2>4, <4>3, MoreSent
      <4> QED BY <2>2, <2>3, <4>1, <4>2, <4>4 DEF Reachable
    <3>3. CASE o = q
      <4>1. x.status = "PENDING" /\ {x.from, x.to} = p
        BY <1>1, <3>1, <3>3
      <4> QED BY <1>6, <2>1, <2>3, <4>1 DEF Sound, Unblocked
    <3> QED BY <3>2, <3>3
  <2>6. Reachable(p)' = {}
    BY <2>5
  <2> QED BY <2>3, <2>6
<1>7. (Sound => PendingOK)'
  BY <1>6 DEF Sound, Calm, PendingOK
<1> QED BY <1>3, <1>4, <1>5, <1>7

LEMMA InsertRequestStep ==
  ASSUME SocialInv, NEW r \in Slots, InsertRequest(r)
  PROVE  SocialInv'
<1>1. Kind(r) = "insertRequest"
  BY DEF InsertRequest
<1>2. slots[r] # Idle
  BY <1>1, Where
<1>3. PICK h, rest :
        /\ h = Call(r) /\ rest = Tail(slots[r].todo) /\ h.kind = Kind(r)
        /\ Turn(h, rest)
        /\ Sound => \A p \in Pairs :
             /\ conversations[p] <= 1
             /\ \/ Apart(p) \/ conversations[p] > 0
                \/ h.kind \in {"findConversation", "createConversation"} /\ h.pair = p
  BY <1>1, Where
<1>4. AtAsk(h, rest)
  BY <1>1, <1>3, TurnByKind
<1>5. PICK a, b \in Users : a # b /\ h = Ask(a, b) /\ rest = <<>> /\ (Calm => Unblocked({a, b}))
  BY <1>4 DEF AtAsk
<1>6. h.from = a /\ h.to = b
  BY <1>5, KindOfCall
<1>7. PICK q \in RequestIds :
        /\ requests[q] = NoRequest
        /\ requests' = [requests EXCEPT ![q] = [from |-> a, to |-> b, status |-> "PENDING"]]
  BY <1>3, <1>6 DEF InsertRequest
<1>8. /\ slots' = [slots EXCEPT ![r] = [todo |-> rest]]
      /\ UNCHANGED <<friendship, blocks, conversations, failed, overlapped>>
  BY <1>3 DEF InsertRequest, Return, Continue
<1>9. PICK x : x = [from |-> a, to |-> b, status |-> "PENDING"]
  OBVIOUS
<1>10. x \in RequestItem /\ x.from = a /\ x.to = b
  BY <1>5, <1>9 DEF RequestItem, Status
<1>11. requests' = [requests EXCEPT ![q] = x]
  BY <1>7, <1>9
<1>12. Calm => Unblocked({x.from, x.to})
  BY <1>5, <1>10
<1>13. /\ TablesOK' /\ Used \subseteq Used'
       /\ (Calm => ApartOK)'
       /\ (Sound => PendingOK)'
  BY <1>7, <1>8, <1>10, <1>11, <1>12, RequestWritten
<1>14. Doing(rest)'
  BY <1>5 DEF Doing
<1>15. (Sound => ConversationOK(rest))'
  BY <1>1, <1>3, <1>8 DEF Sound, Calm, ConversationOK, Apart
<1> QED BY <1>2, <1>8, <1>13, <1>14, <1>15, Done

LEMMA AnswerStep ==
  ASSUME SocialInv, NEW r \in Slots, Respond(r)
  PROVE  SocialInv'
<1>1. Kind(r) = "respond"
  BY DEF Respond
<1>2. slots[r] # Idle
  BY <1>1, Where
<1>3. PICK h, rest :
        /\ h = Call(r) /\ rest = Tail(slots[r].todo) /\ h.kind = Kind(r)
        /\ Turn(h, rest)
        /\ Sound => \A p \in Pairs :
             /\ conversations[p] <= 1
             /\ \/ Apart(p) \/ conversations[p] > 0
                \/ h.kind \in {"findConversation", "createConversation"} /\ h.pair = p
  BY <1>1, Where
<1>4. AtRespond(h, rest)
  BY <1>1, <1>3, TurnByKind
<1>5. PICK q \in RequestIds, s \in Answer :
        /\ h = Answering(q, s)
        /\ rest = <<>> \/ \E p \in Pairs : rest = <<Insert(p), Find(p)>> /\ (Calm => Unblocked(p))
  BY <1>4 DEF AtRespond
<1>6. h.request = q /\ h.status = s
  BY <1>5, KindOfCall
<1>7. CASE UNCHANGED requests /\ Throw(r)
  BY <1>2, <1>7, Thrown DEF Respond, tables
<1>8. CASE /\ IsStored(q)
           /\ requests' = [requests EXCEPT ![q].status = s]
           /\ Return(r)
  <2>1. /\ slots' = [slots EXCEPT ![r] = [todo |-> rest]]
        /\ UNCHANGED <<friendship, blocks, conversations, failed, overlapped>>
    BY <1>3, <1>8 DEF Respond, Return, Continue
  <2>2. requests[q] \in RequestItem
    BY <1>8 DEF SocialInv, TablesOK, IsStored, NoRequest
  <2>3. PICK x : x = [requests[q] EXCEPT !.status = s]
    OBVIOUS
  <2>4. x \in RequestItem /\ x.status = s /\ x.from = requests[q].from
    BY <2>2, <2>3 DEF RequestItem, Status
  <2>5. requests' = [requests EXCEPT ![q] = x]
    BY <1>8, <2>3
  <2>6. x.status # "PENDING"
    BY <2>4 DEF Answer
  <2>7. /\ TablesOK' /\ Used \subseteq Used'
        /\ (Calm => ApartOK)'
        /\ (Sound => PendingOK)'
    BY <2>1, <2>4, <2>5, <2>6, RequestWritten
  <2>8. Doing(rest)'
    <3>1. CASE rest = <<>>
      BY <3>1 DEF Doing
    <3>2. CASE \E p \in Pairs : rest = <<Insert(p), Find(p)>> /\ (Calm => Unblocked(p))
      <4>1. Befriending(rest)'
        BY <2>1, <3>2 DEF Befriending, Calm, Unblocked
      <4> QED BY <4>1 DEF Doing
    <3> QED BY <1>5, <3>1, <3>2
  <2>9. (Sound => ConversationOK(rest))'
    BY <1>1, <1>3, <2>1 DEF Sound, Calm, ConversationOK, Apart
  <2> QED BY <1>2, <2>1, <2>7, <2>8, <2>9, Done
<1> QED BY <1>3, <1>6, <1>7, <1>8 DEF Respond

LEMMA ListStep ==
  ASSUME SocialInv, NEW r \in Slots, ListPending(r)
  PROVE  SocialInv'
<1>1. Kind(r) = "listPending"
  BY DEF ListPending
<1>2. slots[r] # Idle
  BY <1>1, Where
<1>3. PICK h, rest :
        /\ h = Call(r) /\ rest = Tail(slots[r].todo) /\ h.kind = Kind(r)
        /\ Turn(h, rest)
        /\ Sound => \A p \in Pairs :
             /\ conversations[p] <= 1
             /\ \/ Apart(p) \/ conversations[p] > 0
                \/ h.kind \in {"findConversation", "createConversation"} /\ h.pair = p
  BY <1>1, Where
<1>4. AtList(h, rest)
  BY <1>1, <1>3, TurnByKind
<1>5. UNCHANGED <<friendship, blocks, requests, conversations, failed, overlapped>>
  BY DEF ListPending, tables
<1>6. /\ TablesOK' /\ Used' = Used
      /\ (Calm => ApartOK)'
      /\ (Sound => PendingOK)'
  BY <1>5, SameRequests DEF SocialInv, TablesOK, Calm, Sound, ApartOK, Apart, PendingOK
<1>7. PICK ids \in SUBSET PendingOf(h.pair) :
        /\ IF h.all THEN ids = PendingOf(h.pair) ELSE MayList(h.pair, ids)
        /\ Continue(r, <<[kind |-> "deleteRequests", ids |-> ids]>> \o rest)
  BY <1>3 DEF ListPending
<1>8. ids \in SUBSET Used
  BY <1>7 DEF PendingOf, IsPending, Used, NoRequest
<1>9. PICK t : t = <<Drop(ids)>> \o rest
  OBVIOUS
<1>10. slots' = [slots EXCEPT ![r] = [todo |-> t]]
  BY <1>7, <1>9 DEF Continue, Drop
<1>11. Doing(t)'
  <2>1. CASE rest = <<>>
    <3>1. t = <<Drop(ids)>>
      BY <1>9, <2>1, Joins
    <3>2. Unfriending(t)'
      BY <1>6, <1>8, <3>1 DEF Unfriending
    <3> QED BY <3>2 DEF Doing
  <2>2. CASE \E a, b \in Users :
               a # b /\ h = ListSome({a, b}) /\ rest = <<Blocking(<<a, b>>)>> /\ (Calm => Apart({a, b}))
    <3>1. PICK a, b \in Users :
            a # b /\ h = ListSome({a, b}) /\ rest = <<Blocking(<<a, b>>)>> /\ (Calm => Apart({a, b}))
      BY <2>2
    <3>2. PICK w : w = <<a, b>>
      OBVIOUS
    <3>3. PICK p : p = {a, b}
      OBVIOUS
    <3>4. t = <<Drop(ids), Blocking(w)>>
      BY <1>9, <3>1, <3>2, Joins
    <3>5. Reachable(p) \subseteq ids
      <4>1. h.pair = p /\ ~h.all
        BY <3>1, <3>3, KindOfCall
      <4>2. MayList(p, ids)
        BY <1>7, <4>1
      <4> QED BY <4>2, Listed
    <3>6. Reachable(p)' = Reachable(p)
      BY <1>5, SameRequests
    <3>7. BlockingOf(t, w, p)'
      BY <1>5, <1>6, <1>8, <3>1, <3>3, <3>4, <3>5, <3>6 DEF BlockingOf, Calm, Apart
    <3>8. BlockingUser(t)'
      BY <3>1, <3>2, <3>3, <3>7 DEF BlockingUser
    <3> QED BY <3>8 DEF Doing
  <2> QED BY <1>4, <2>1, <2>2 DEF AtList
<1>12. (Sound => ConversationOK(t))'
  BY <1>1, <1>3, <1>5 DEF Sound, Calm, ConversationOK, Apart
<1> QED BY <1>2, <1>5, <1>6, <1>10, <1>11, <1>12, Done

LEMMA DropStep ==
  ASSUME SocialInv, NEW r \in Slots, DeleteRequests(r)
  PROVE  SocialInv'
<1>1. Kind(r) = "deleteRequests"
  BY DEF DeleteRequests
<1>2. slots[r] # Idle
  BY <1>1, Where
<1>3. PICK h, rest :
        /\ h = Call(r) /\ rest = Tail(slots[r].todo) /\ h.kind = Kind(r)
        /\ Turn(h, rest)
        /\ Sound => \A p \in Pairs :
             /\ conversations[p] <= 1
             /\ \/ Apart(p) \/ conversations[p] > 0
                \/ h.kind \in {"findConversation", "createConversation"} /\ h.pair = p
  BY <1>1, Where
<1>4. AtDrop(h, rest)
  BY <1>1, <1>3, TurnByKind
<1>5. PICK ids \in SUBSET Used :
        /\ h = Drop(ids)
        /\ \/ rest = <<>>
           \/ \E a, b \in Users :
                /\ a # b /\ rest = <<Blocking(<<a, b>>)>>
                /\ Calm => Apart({a, b})
                /\ Sound => Reachable({a, b}) \subseteq ids
  BY <1>4 DEF AtDrop
<1>6. Call(r).ids = ids
  BY <1>3, <1>5, KindOfCall
<1>7. PICK gone \in SUBSET ids :
        /\ requests' = [q \in RequestIds |->
             IF q \in gone THEN [requests[q] EXCEPT !.status = "deleted"] ELSE requests[q]]
        /\ failed' = (failed \/ gone # ids)
  BY <1>6 DEF DeleteRequests
<1>8. /\ slots' = [slots EXCEPT ![r] = [todo |-> rest]]
      /\ UNCHANGED <<friendship, blocks, conversations, overlapped>>
  BY <1>3 DEF DeleteRequests, Continue
<1>9. ASSUME NEW q \in RequestIds
      PROVE  /\ requests'[q] \in RequestItem \cup {NoRequest}
             /\ requests[q] # NoRequest => requests'[q] # NoRequest /\ requests'[q].from = requests[q].from
             /\ requests'[q].status = "PENDING" => q \notin gone /\ requests'[q] = requests[q]
  <2>1. CASE q \notin gone
    BY <1>7, <2>1 DEF SocialInv, TablesOK
  <2>2. CASE q \in gone
    <3>1. requests[q] \in RequestItem
      BY <2>2 DEF SocialInv, TablesOK, Used
    <3>2. PICK x : x = [requests[q] EXCEPT !.status = "deleted"]
      OBVIOUS
    <3>3. x \in RequestItem /\ x.status = "deleted" /\ x.from = requests[q].from
      BY <3>1, <3>2 DEF RequestItem, Status
    <3>4. requests'[q] = x
      BY <1>7, <2>2, <3>2
    <3> QED BY <3>3, <3>4 DEF NoRequest
  <2> QED BY <2>1, <2>2
<1>10. DOMAIN requests' = RequestIds /\ requests' = [q \in RequestIds |-> requests'[q]]
  BY <1>7
<1>11. requests' \in [RequestIds -> RequestItem \cup {NoRequest}]
  BY <1>9, <1>10
<1>12. failed' \in BOOLEAN /\ (failed => failed')
  BY <1>7 DEF SocialInv, TablesOK
<1>13. TablesOK' /\ Used \subseteq Used'
  BY <1>8, <1>9, <1>11, <1>12 DEF SocialInv, TablesOK, Used
<1>14. ASSUME NEW p
       PROVE  Reachable(p)' \subseteq Reachable(p) \ gone
  <2> SUFFICES ASSUME NEW q \in Reachable(p)'
               PROVE  q \in Reachable(p) /\ q \notin gone
    OBVIOUS
  <2>1. q \in PendingOf(p)' /\ HasFew(requests[q].from)'
    BY DEF Reachable
  <2>2. requests'[q] = requests[q] /\ q \notin gone /\ q \in PendingOf(p)
    BY <1>9, <2>1 DEF PendingOf, IsPending, PairOf
  <2>3. PICK a : a = requests[q].from
    OBVIOUS
  <2>4. HasFew(a)'
    BY <2>1, <2>2, <2>3 DEF HasFew, SentBy
  <2>5. SentBy(a) \subseteq SentBy(a)'
    BY <1>9 DEF SentBy
  <2>6. HasFew(a)
    BY <2>4, <2>5, MoreSent
  <2> QED BY <2>2, <2>3, <2>6 DEF Reachable
<1>15. (Calm => ApartOK)'
  BY <1>8 DEF SocialInv, Calm, ApartOK, Apart
<1>16. Sound' => Sound /\ gone = ids
  BY <1>7, <1>8, <1>12 DEF Sound, Calm
<1>17. (Sound => PendingOK)'
  <2> SUFFICES ASSUME Sound', NEW w \in blocks
               PROVE  Reachable({w[1], w[2]})' = {}
    BY <1>8 DEF PendingOK
  <2>1. Reachable({w[1], w[2]}) = {}
    BY <1>16 DEF SocialInv, PendingOK
  <2> QED BY <1>14, <2>1
<1>18. Doing(rest)'
  <2>1. CASE rest = <<>>
    BY <2>1 DEF Doing
  <2>2. CASE \E a, b \in Users :
               /\ a # b /\ rest = <<Blocking(<<a, b>>)>>
               /\ Calm => Apart({a, b})
               /\ Sound => Reachable({a, b}) \subseteq ids
    <3>1. PICK a, b \in Users :
            /\ a # b /\ rest = <<Blocking(<<a, b>>)>>
            /\ Calm => Apart({a, b})
            /\ Sound => Reachable({a, b}) \subseteq ids
      BY <2>2
    <3>2. PICK w : w = <<a, b>>
      OBVIOUS
    <3>3. PICK p : p = {a, b}
      OBVIOUS
    <3>4. Sound' => Reachable(p)' = {}
      BY <1>14, <1>16, <3>1, <3>3
    <3>5. BlockingOf(rest, w, p)'
      BY <1>8, <3>1, <3>2, <3>3, <3>4 DEF BlockingOf, Calm, Apart
    <3>6. BlockingUser(rest)'
      BY <3>1, <3>2, <3>3, <3>5 DEF BlockingUser
    <3> QED BY <3>6 DEF Doing
  <2> QED BY <1>5, <2>1, <2>2
<1>19. (Sound => ConversationOK(rest))'
  BY <1>1, <1>3, <1>8, <1>16 DEF ConversationOK, Apart
<1> QED BY <1>2, <1>8, <1>13, <1>15, <1>17, <1>18, <1>19, Done

LEMMA BlockStep ==
  ASSUME SocialInv, NEW r \in Slots, InsertBlock(r)
  PROVE  SocialInv'
<1>1. Kind(r) = "insertBlock"
  BY DEF InsertBlock
<1>2. slots[r] # Idle
  BY <1>1, Where
<1>3. PICK h, rest :
        /\ h = Call(r) /\ rest = Tail(slots[r].todo) /\ h.kind = Kind(r)
        /\ Turn(h, rest)
        /\ Sound => \A p \in Pairs :
             /\ conversations[p] <= 1
             /\ \/ Apart(p) \/ conversations[p] > 0
                \/ h.kind \in {"findConversation", "createConversation"} /\ h.pair = p
  BY <1>1, Where
<1>4. AtBlock(h, rest)
  BY <1>1, <1>3, TurnByKind
<1>5. PICK a, b \in Users :
        /\ a # b /\ h = Blocking(<<a, b>>) /\ rest = <<>>
        /\ Calm => Apart({a, b})
        /\ Sound => Reachable({a, b}) = {}
  BY <1>4 DEF AtBlock
<1>6. Call(r).block = <<a, b>>
  BY <1>3, <1>5, KindOfCall
<1>7. CASE UNCHANGED blocks /\ Throw(r)
  BY <1>2, <1>7, Thrown DEF InsertBlock, tables
<1>8. CASE blocks' = blocks \cup {Call(r).block} /\ Return(r)
  <2>1. /\ blocks' = blocks \cup {<<a, b>>}
        /\ slots' = [slots EXCEPT ![r] = [todo |-> rest]]
        /\ UNCHANGED <<friendship, requests, conversations, failed, overlapped>>
    BY <1>3, <1>6, <1>8 DEF InsertBlock, Return, Continue
  <2>2. TablesOK' /\ Used' = Used
    BY <1>5, <2>1, SameRequests DEF SocialInv, TablesOK
  <2>3. \A w \in blocks' : w \in blocks \/ (w[1] = a /\ w[2] = b)
    BY <2>1
  <2>4. (Calm => ApartOK)'
    BY <1>5, <2>1, <2>3 DEF SocialInv, Calm, ApartOK, Apart
  <2>5. (Sound => PendingOK)'
    <3> SUFFICES ASSUME Sound, NEW w \in blocks'
                 PROVE  Reachable({w[1], w[2]})' = {}
      BY <2>1 DEF Sound, Calm, PendingOK
    <3>1. PICK p : p = {w[1], w[2]}
      OBVIOUS
    <3>2. Reachable(p)' = Reachable(p)
      BY <2>1, SameRequests
    <3>3. Reachable(p) = {}
      BY <1>5, <2>3, <3>1 DEF SocialInv, PendingOK
    <3> QED BY <3>1, <3>2, <3>3
  <2>6. Doing(rest)'
    BY <1>5 DEF Doing
  <2>7. (Sound => ConversationOK(rest))'
    BY <1>1, <1>3, <2>1 DEF Sound, Calm, ConversationOK, Apart
  <2> QED BY <1>2, <2>1, <2>2, <2>4, <2>5, <2>6, <2>7, Done
<1> QED BY <1>7, <1>8 DEF InsertBlock

-----------------------------------------------------------------------------
(* A request that starts *)

\* When a request starts or ends at once while requests are still handled one
\* at a time, no other is in flight.
LEMMA Alone ==
  ASSUME SocialInv, NoteOverlap, Calm'
  PROVE  /\ Calm /\ \A s \in Slots : slots[s].todo = <<>>
         /\ Sound => Arrived
<1>1. Calm /\ \A s \in Slots : slots[s] = Idle
  BY DEF NoteOverlap, Calm
<1>2. \A s \in Slots : slots[s].todo = <<>>
  BY <1>1 DEF Idle
<1>3. \A s \in Slots : \A p : ~At(slots[s].todo, p)
  BY <1>2 DEF At
<1> QED BY <1>1, <1>2, <1>3 DEF SocialInv, Arrived

\* What is left of a request can rely on the same as long as nothing changes.
LEMMA SameDoing ==
  ASSUME NEW u, Doing(u),
         UNCHANGED <<friendship, blocks, requests, conversations, failed, overlapped>>
  PROVE  Doing(u)'
<1>1. (Calm' <=> Calm) /\ (Sound' <=> Sound) /\ Used' = Used
  BY SameRequests DEF Calm, Sound
<1>2. \A p : Reachable(p)' = Reachable(p)
  BY SameRequests
<1>3. Sending(u) => Sending(u)'
  BY <1>1 DEF Sending, Unblocked
<1>4. Responding(u) => Responding(u)'
  BY DEF Responding
<1>5. Restoring(u) => Restoring(u)'
  BY <1>1 DEF Restoring, Unblocked
<1>6. Befriending(u) => Befriending(u)'
  BY <1>1 DEF Befriending, Unblocked
<1>7. Opening(u) => Opening(u)'
  BY <1>1 DEF Opening
<1>8. Unfriending(u) => Unfriending(u)'
  BY <1>1 DEF Unfriending
<1>9. BlockingUser(u) => BlockingUser(u)'
  <2> SUFFICES ASSUME NEW a \in Users, NEW b \in Users, BlockingOf(u, <<a, b>>, {a, b})
               PROVE  BlockingOf(u, <<a, b>>, {a, b})'
    BY DEF BlockingUser
  <2>1. PICK w : w = <<a, b>>
    OBVIOUS
  <2>2. PICK p : p = {a, b}
    OBVIOUS
  <2>3. BlockingOf(u, w, p)
    BY <2>1, <2>2
  <2>4. BlockingOf(u, w, p)'
    BY <1>1, <1>2, <2>3 DEF BlockingOf, Apart
  <2> QED BY <2>1, <2>2, <2>4
<1> QED BY <1>3, <1>4, <1>5, <1>6, <1>7, <1>8, <1>9 DEF Doing

LEMMA Started ==
  ASSUME SocialInv, NEW r \in Slots, NEW t, Start(r, t), Doing(t)
  PROVE  SocialInv'
<1>1. /\ slots[r] = Idle /\ slots' = [slots EXCEPT ![r] = [todo |-> t]]
      /\ NoteOverlap
      /\ UNCHANGED <<friendship, blocks, requests, conversations, failed>>
  BY DEF Start, Continue, tables
<1>2. /\ slots'[r].todo = t
      /\ \A s \in Slots : s # r => slots'[s] = slots[s]
      /\ SlotsOK'
  BY <1>1 DEF SocialInv, SlotsOK
<1>3. TablesOK' /\ Used' = Used
  BY <1>1 DEF SocialInv, TablesOK, NoteOverlap, Used
<1>4. Calm' => Calm /\ \A s \in Slots : slots[s].todo = <<>>
  BY <1>1, Alone
<1>5. Sound' => Sound /\ Arrived
  BY <1>1, <1>4, Alone DEF Sound
<1>6. ASSUME NEW u, Doing(u), Calm' => Calm
      PROVE  Doing(u)'
  <2>1. CASE Calm'
    <3>1. overlapped' = overlapped
      BY <1>3, <1>6, <2>1 DEF Calm, TablesOK, SocialInv
    <3> QED BY <1>1, <1>6, <3>1, SameDoing
  <2>2. CASE ~Calm'
    <3>1. overlapped' = TRUE
      BY <1>3, <2>2 DEF Calm, TablesOK
    <3> QED BY <1>3, <1>6, <3>1, Weaker
  <2> QED BY <2>1, <2>2
<1>7. ASSUME NEW s \in Slots
      PROVE  Doing(slots[s].todo)'
  <2>1. CASE s = r
    <3>1. Doing(t)'
      BY <1>4, <1>6
    <3> QED BY <1>2, <2>1, <3>1
  <2>2. CASE s # r
    <3>1. PICK u : u = slots[s].todo
      OBVIOUS
    <3>2. Doing(u) /\ slots'[s].todo = u
      BY <1>2, <2>2, <3>1 DEF SocialInv
    <3>3. Doing(u)'
      BY <1>4, <1>6, <3>2
    <3> QED BY <3>2, <3>3
  <2> QED BY <2>1, <2>2
<1>8. (Calm => OneAtATime /\ ApartOK)'
  <2> SUFFICES ASSUME Calm' PROVE OneAtATime' /\ ApartOK'
    OBVIOUS
  <2>1. OneAtATime'
    BY <1>2, <1>4 DEF OneAtATime, Busy
  <2>2. ApartOK'
    BY <1>1, <1>4 DEF SocialInv, ApartOK, Apart
  <2> QED BY <2>1, <2>2
<1>9. (Sound => PendingOK)'
  BY <1>1, <1>5, SameRequests DEF SocialInv, PendingOK
<1>10. (Sound => \A p \in Pairs :
          /\ conversations[p] <= 1
          /\ Apart(p) \/ conversations[p] > 0 \/ \E s \in Slots : At(slots[s].todo, p))'
  BY <1>1, <1>5 DEF Arrived, Apart
<1>11. \A s \in Slots : Doing(slots[s].todo)'
  BY <1>7
<1> QED BY <1>2, <1>3, <1>8, <1>9, <1>10, <1>11 DEF SocialInv

\* An unblock is a single call.
LEMMA Unblocks ==
  ASSUME SocialInv, NEW r \in Slots, NEW a \in Users, NEW b \in Users, UnblockUser(r, a, b)
  PROVE  SocialInv'
<1>1. /\ blocks' = blocks \ {<<a, b>>}
      /\ NoteOverlap
      /\ UNCHANGED <<friendship, requests, conversations, slots, failed>>
  BY DEF UnblockUser
<1>2. TablesOK' /\ Used' = Used /\ SlotsOK'
  BY <1>1 DEF SocialInv, TablesOK, NoteOverlap, Used, SlotsOK
<1>3. Calm' => Calm /\ \A s \in Slots : slots[s].todo = <<>>
  BY <1>1, Alone
<1>4. Sound' => Sound /\ Arrived
  BY <1>1, <1>3, Alone DEF Sound
<1>5. ASSUME NEW s \in Slots
      PROVE  Doing(slots[s].todo)'
  <2>1. PICK u : u = slots[s].todo
    OBVIOUS
  <2>2. Doing(u) /\ slots'[s].todo = u
    BY <1>1, <2>1 DEF SocialInv
  <2>3. Doing(u)'
    <3>1. CASE Calm'
      BY <1>3, <2>1, <3>1 DEF Doing
    <3>2. CASE ~Calm'
      <4>1. overlapped' = TRUE
        BY <1>2, <3>2 DEF Calm, TablesOK
      <4> QED BY <1>2, <2>2, <4>1, Weaker
    <3> QED BY <3>1, <3>2
  <2> QED BY <2>2, <2>3
<1>6. (Calm => OneAtATime /\ ApartOK)'
  BY <1>1, <1>3 DEF SocialInv, OneAtATime, Busy, ApartOK, Apart
<1>7. (Sound => PendingOK)'
  BY <1>1, <1>4, SameRequests DEF SocialInv, PendingOK
<1>8. (Sound => \A p \in Pairs :
          /\ conversations[p] <= 1
          /\ Apart(p) \/ conversations[p] > 0 \/ \E s \in Slots : At(slots[s].todo, p))'
  BY <1>1, <1>4 DEF Arrived, Apart
<1>9. \A s \in Slots : Doing(slots[s].todo)'
  BY <1>5
<1> QED BY <1>2, <1>6, <1>7, <1>8, <1>9 DEF SocialInv

LEMMA AcceptStep ==
  ASSUME SocialInv, NEW r \in Slots, NEW q \in RequestIds, AcceptFriendRequest(r, q)
  PROVE  SocialInv'
<1>1. requests[q] \in RequestItem
  BY DEF AcceptFriendRequest, SocialInv, TablesOK, IsPending, NoRequest
<1>2. PICK p : p = PairOf(q)
  OBVIOUS
<1>3. p \in Pairs /\ Unblocked(p)
  <2>1. PICK a : a = requests[q].from
    OBVIOUS
  <2>2. PICK b : b = requests[q].to
    OBVIOUS
  <2>3. a \in Users /\ b \in Users /\ a # b /\ p = {a, b} /\ ~BlockedBetween(a, b)
    BY <1>1, <1>2, <2>1, <2>2 DEF RequestItem, PairOf, AcceptFriendRequest
  <2> QED BY <2>3, PairNames, NoBlockBetween
<1>4. CASE Start(r, RestoreCalls(q))
  <2>1. PICK t : t = RestoreCalls(q)
    OBVIOUS
  <2>2. t = <<Set(p, "ACTIVE"), Find(p), Answering(q, "ACCEPTED")>>
    BY <1>2, <2>1 DEF RestoreCalls, Set, Find, Answering
  <2>3. Restoring(t)
    BY <1>3, <2>2 DEF Restoring
  <2>4. Doing(t)
    BY <2>3 DEF Doing
  <2> QED BY <1>4, <2>1, <2>4, Started
<1>5. CASE Start(r, BefriendCalls(q))
  <2>1. PICK t : t = BefriendCalls(q)
    OBVIOUS
  <2>2. t = <<Answering(q, "ACCEPTED"), Insert(p), Find(p)>>
    BY <1>2, <2>1 DEF BefriendCalls, Insert, Find, Answering
  <2>3. Befriending(t)
    BY <1>3, <2>2 DEF Befriending
  <2>4. Doing(t)
    BY <2>3 DEF Doing
  <2> QED BY <1>5, <2>1, <2>4, Started
<1> QED BY <1>4, <1>5 DEF AcceptFriendRequest

\* Every use case starts with calls it can rely on.
LEMMA UseCaseStep ==
  ASSUME SocialInv, NEW r \in Slots, UseCase(r)
  PROVE  SocialInv'
<1>1. ASSUME NEW a \in Users, NEW b \in Users, SendFriendRequest(r, a, b)
      PROVE  SocialInv'
  <2>1. PICK t : t = <<Ask(a, b)>>
    OBVIOUS
  <2>2. Start(r, t) /\ a # b /\ ~BlockedBetween(a, b)
    BY <1>1, <2>1 DEF SendFriendRequest, Ask
  <2>3. Sending(t)
    BY <2>1, <2>2, NoBlockBetween DEF Sending
  <2>4. Doing(t)
    BY <2>3 DEF Doing
  <2> QED BY <2>2, <2>4, Started
<1>2. ASSUME NEW a \in Users, NEW b \in Users, Unfriend(r, a, b)
      PROVE  SocialInv'
  <2>1. PICK p : p = {a, b}
    OBVIOUS
  <2>2. PICK t : t = <<Set(p, "DELETED"), ListAll(p)>>
    OBVIOUS
  <2>3. Start(r, t) /\ a # b
    BY <1>2, <2>1, <2>2 DEF Unfriend, Set, ListAll
  <2>4. Unfriending(t)
    BY <2>1, <2>2, <2>3, PairNames DEF Unfriending
  <2>5. Doing(t)
    BY <2>4 DEF Doing
  <2> QED BY <2>3, <2>5, Started
<1>3. ASSUME NEW a \in Users, NEW b \in Users, BlockUser(r, a, b)
      PROVE  SocialInv'
  <2>1. PICK p : p = {a, b}
    OBVIOUS
  <2>2. PICK w : w = <<a, b>>
    OBVIOUS
  <2>3. PICK t : t = <<Set(p, "DELETED"), ListSome(p), Blocking(w)>>
    OBVIOUS
  <2>4. Start(r, t) /\ a # b
    BY <1>3, <2>1, <2>2, <2>3 DEF BlockUser, BlockCalls, Set, ListSome, Blocking
  <2>5. BlockingOf(t, w, p)
    BY <2>3 DEF BlockingOf
  <2>6. BlockingUser(t)
    BY <2>1, <2>2, <2>4, <2>5 DEF BlockingUser
  <2>7. Doing(t)
    BY <2>6 DEF Doing
  <2> QED BY <2>4, <2>7, Started
<1>4. ASSUME NEW a \in Users, NEW b \in Users, UnblockUser(r, a, b)
      PROVE  SocialInv'
  BY <1>4, Unblocks
<1>5. ASSUME NEW a \in Users, NEW b \in Users, OpenConversation(r, a, b)
      PROVE  SocialInv'
  <2>1. PICK p : p = {a, b}
    OBVIOUS
  <2>2. PICK t : t = <<Find(p)>>
    OBVIOUS
  <2>3. Start(r, t) /\ a # b
    BY <1>5, <2>1, <2>2 DEF OpenConversation, Find
  <2>4. Opening(t)
    BY <2>1, <2>2, <2>3, PairNames DEF Opening
  <2>5. Doing(t)
    BY <2>4 DEF Doing
  <2> QED BY <2>3, <2>5, Started
<1>6. ASSUME NEW q \in RequestIds, AcceptFriendRequest(r, q)
      PROVE  SocialInv'
  BY <1>6, AcceptStep
<1>7. ASSUME NEW q \in RequestIds, NEW status \in Answer \ {"ACCEPTED"}, AnswerFriendRequest(r, q, status)
      PROVE  SocialInv'
  <2>1. PICK t : t = <<Answering(q, status)>>
    OBVIOUS
  <2>2. Start(r, t)
    BY <1>7, <2>1 DEF AnswerFriendRequest, Answering
  <2>3. Responding(t)
    BY <2>1 DEF Responding
  <2>4. Doing(t)
    BY <2>3 DEF Doing
  <2> QED BY <2>2, <2>4, Started
<1> QED BY <1>1, <1>2, <1>3, <1>4, <1>5, <1>6, <1>7 DEF UseCase

LEMMA CallStep ==
  ASSUME SocialInv, NEW r \in Slots, DatabaseCall(r)
  PROVE  SocialInv'
<1>1. CASE CallFails(r)
  BY <1>1, Thrown DEF CallFails
<1> QED BY <1>1, SetStep, InsertFriendshipStep, InsertRequestStep, AnswerStep, ListStep,
           DropStep, FindStep, CreateStep, BlockStep DEF DatabaseCall

LEMMA SocialStep == SocialInv /\ [Next]_vars => SocialInv'
<1> SUFFICES ASSUME SocialInv, [Next]_vars PROVE SocialInv'
  OBVIOUS
<1>1. CASE UNCHANGED vars
  <2> USE <1>1 DEF vars
  <2>1. TablesOK' /\ SlotsOK'
    BY DEF SocialInv, TablesOK, SlotsOK
  <2>2. ASSUME NEW s \in Slots
        PROVE  Doing(slots[s].todo)'
    <3>1. PICK u : u = slots[s].todo
      OBVIOUS
    <3>2. Doing(u) /\ slots'[s].todo = u
      BY <3>1 DEF SocialInv
    <3>3. Doing(u)'
      BY <3>2, SameDoing
    <3> QED BY <3>2, <3>3
  <2>3. (Calm => OneAtATime /\ ApartOK)' /\ (Sound => PendingOK)'
    BY SameRequests DEF SocialInv, Calm, Sound, OneAtATime, Busy, ApartOK, Apart, PendingOK
  <2>4. (Sound => \A p \in Pairs :
          /\ conversations[p] <= 1
          /\ Apart(p) \/ conversations[p] > 0 \/ \E s \in Slots : At(slots[s].todo, p))'
    BY DEF SocialInv, Calm, Sound, Apart
  <2>5. \A s \in Slots : Doing(slots[s].todo)'
    BY <2>2
  <2> QED BY <2>1, <2>3, <2>4, <2>5 DEF SocialInv
<1>2. CASE Next
  BY <1>2, UseCaseStep, CallStep DEF Next
<1> QED BY <1>1, <1>2

LEMMA SocialInit == Init => SocialInv
<1> SUFFICES ASSUME Init PROVE SocialInv
  OBVIOUS
<1>1. TablesOK /\ SlotsOK
  BY DEF Init, TablesOK, SlotsOK, NoFriendship, Idle
<1>2. \A r \in Slots : slots[r].todo = <<>>
  BY DEF Init, Idle
<1>3. \A r \in Slots : Doing(slots[r].todo)
  BY <1>2 DEF Doing
<1>4. OneAtATime /\ ApartOK /\ PendingOK
  BY <1>2 DEF Init, OneAtATime, Busy, ApartOK, PendingOK
<1>5. \A p \in Pairs : conversations[p] <= 1 /\ Apart(p)
  BY DEF Init, Apart, NoFriendship
<1> QED BY <1>1, <1>3, <1>4, <1>5 DEF SocialInv

LEMMA SocialInvariant == Spec => []SocialInv
BY SocialInit, SocialStep, PTL DEF Spec

-----------------------------------------------------------------------------
\* With one request at a time, users with a block between them are never
\* friends, whichever calls fail (blockUser ends the friendship before it
\* stores the block, and acceptFriendRequest looks for a block).
THEOREM BlockSeparates == Spec => []BlockedAreNotFriends
<1>1. SocialInv => BlockedAreNotFriends
  <2> SUFFICES ASSUME SocialInv, Calm, NEW a \in Users, NEW b \in Users, <<a, b>> \in blocks
               PROVE  ~AreFriends(a, b)
    BY DEF BlockedAreNotFriends, Calm
  <2>1. PICK w : w = <<a, b>>
    OBVIOUS
  <2>2. w \in blocks /\ w[1] = a /\ w[2] = b
    BY <2>1
  <2>3. Apart({w[1], w[2]})
    BY <2>2 DEF SocialInv, ApartOK
  <2> QED BY <2>2, <2>3 DEF AreFriends, Apart
<1> QED BY <1>1, SocialInvariant, PTL

\* With one request at a time and no failure, no friend request is pending
\* between users with a block between them, so that an unblock brings none
\* back (blockUser deletes them before it stores the block): but for those of a
\* sender with more requests than fit on the page that blockUser lists.
THEOREM BlockLeavesNoRequest == Spec => []BlockedHaveNoRequest
<1>1. SocialInv => BlockedHaveNoRequest
  <2> SUFFICES ASSUME SocialInv, Sound, NEW w \in blocks, NEW q \in PendingOf({w[1], w[2]})
               PROVE  Cardinality(SentBy(requests[q].from)) > ListLimit
    BY DEF BlockedHaveNoRequest, Sound, Calm
  <2>1. PICK S : S = SentBy(requests[q].from)
    OBVIOUS
  <2>2. ~(Cardinality(S) <= ListLimit)
    BY <2>1 DEF SocialInv, PendingOK, Reachable, HasFew
  <2>3. S \subseteq RequestIds
    BY <2>1 DEF SentBy
  <2>4. IsFiniteSet(S)
    BY <2>3, FS_Subset, SocialAssumption
  <2>5. Cardinality(S) \in Nat /\ ListLimit \in Nat
    BY <2>4, FS_CardinalityType, SocialAssumption
  <2> QED BY <2>1, <2>2, <2>5
<1> QED BY <1>1, SocialInvariant, PTL

\* Between requests, when none overlapped and no call failed, friends have a
\* conversation and no two users have more than one (both ways to accept a
\* request end by looking for one, and createConversation runs if none was found).
THEOREM FriendsCanTalk == Spec => []FriendsHaveConversation
<1>1. SocialInv => FriendsHaveConversation
  <2> SUFFICES ASSUME SocialInv, Sound, \A r \in Slots : slots[r] = Idle, NEW p \in Pairs
               PROVE  (friendship[p].status = "ACTIVE" => conversations[p] > 0) /\ conversations[p] <= 1
    BY DEF FriendsHaveConversation, Quiet, Sound, Calm
  <2>1. \A r \in Slots : ~At(slots[r].todo, p)
    BY DEF At, Idle
  <2> QED BY <2>1 DEF SocialInv, Apart
<1> QED BY <1>1, SocialInvariant, PTL
=============================================================================
