------------------------------- MODULE Social -------------------------------
(***************************************************************************)
(* Friend requests, friendships and blocks, and the private conversation   *)
(* of a pair of users.  A use case reads what its checks need and then     *)
(* makes database calls one after the other, each behind an await; a slot  *)
(* is a request being handled, and the calls of two slots interleave.      *)
(* There are no transactions and no catch blocks: a call that throws ends  *)
(* the request and leaves the earlier calls in place.                      *)
(***************************************************************************)
EXTENDS Naturals, Sequences, FiniteSets

CONSTANTS
  Users,
  RequestIds,  \* ids of friend requests: a fresh uuid for each request
  Slots,       \* requests the server works on at the same time
  QueryLimit,  \* 2: the Limit of FriendRequestRepository.findByCond
  ListLimit,   \* 100: the limit of blockUser, for the requests of one sender
  Faults       \* whether a database call may throw

ASSUME SocialAssumption ==
  /\ IsFiniteSet(RequestIds)
  /\ {QueryLimit, ListLimit} \subseteq Nat \ {0}
  /\ Faults \in BOOLEAN

VARIABLES
  friendship,     \* per pair, the item of the friendships table
  blocks,         \* <<blocker, blocked>> items
  requests,       \* friend_requests by id
  conversations,  \* per pair, how many conversations carry its pairKey
  slots,          \* the requests in flight
  failed,         \* history: a call of some request has failed
  overlapped      \* history: two requests have been in flight at once

vars == <<friendship, blocks, requests, conversations, slots, failed, overlapped>>
tables == <<friendship, blocks, requests, conversations>>

-----------------------------------------------------------------------------
Pairs == {{a, b} : a, b \in Users} \ {{a} : a \in Users}

\* A friendship is ACTIVE or DELETED; hasId tells an inserted item from one
\* that an update has created.
NoFriendship == [status |-> "none", hasId |-> FALSE]

Answer == {"ACCEPTED", "REJECTED", "CANCELED"}
\* A request has a sender, a receiver and a status: PENDING, an answer, deleted.
NoRequest == [status |-> "none"]

AreFriends(a, b) == friendship[{a, b}].status = "ACTIVE"
BlockedBetween(a, b) == {<<a, b>>, <<b, a>>} \cap blocks # {}
IsStored(q) == requests[q].status \notin {"none", "deleted"}
IsPending(q) == requests[q].status = "PENDING"
PairOf(q) == {requests[q].from, requests[q].to}
PendingOf(p) == {q \in RequestIds : IsPending(q) /\ PairOf(q) = p}

\* All that a user has ever sent, whatever has become of it.
SentBy(a) == {q \in RequestIds : requests[q] # NoRequest /\ requests[q].from = a}

\* queryBySenderId: Limit cuts the index page before the filter is applied,
\* and the index has no sort key, so any items of the sender can be the page.
Pages(a, limit) ==
  LET sent == {q \in SentBy(a) : IsStored(q)}
  IN {page \in SUBSET sent :
        Cardinality(page) = limit \/ (page = sent /\ Cardinality(sent) < limit)}

\* findByCond({ fromUserId: a, toUserId: b, status: PENDING }) can return null.
MayMissPending(a, b) ==
  \E page \in Pages(a, QueryLimit) : ~\E q \in page : IsPending(q) /\ requests[q].to = b

\* What list({ fromUserId, toUserId, status: PENDING }) can find of a pair, in
\* both directions.
MayList(p, ids) ==
  \E page \in [p -> SUBSET RequestIds] :
    /\ \A a \in p : page[a] \in Pages(a, ListLimit)
    /\ ids = {q \in PendingOf(p) : q \in page[requests[q].from]}

-----------------------------------------------------------------------------
(* Database calls *)

Idle == [todo |-> <<>>]
Kind(r) == IF slots[r] = Idle THEN "idle" ELSE Head(slots[r].todo).kind
Call(r) == Head(slots[r].todo)

Continue(r, todo) == slots' = [slots EXCEPT ![r] = [todo |-> todo]]
Return(r) == Continue(r, Tail(slots[r].todo)) /\ UNCHANGED <<failed, overlapped>>
Throw(r) == Continue(r, <<>>) /\ failed' = TRUE /\ UNCHANGED overlapped

\* softDeleteFriendship and restoreFriendship: an update without a condition,
\* which creates the item when there is none.
SetFriendship(r) ==
  /\ Kind(r) = "setFriendship"
  /\ friendship' = [friendship EXCEPT ![Call(r).pair].status = Call(r).status]
  /\ Return(r)
  /\ UNCHANGED <<blocks, requests, conversations>>

\* friendshipRepository.insert: refused if the item has an id.
InsertFriendship(r) ==
  /\ Kind(r) = "insertFriendship"
  /\ IF friendship[Call(r).pair].hasId
       THEN UNCHANGED friendship /\ Throw(r)
       ELSE /\ friendship' = [friendship EXCEPT ![Call(r).pair] =
                                [status |-> "ACTIVE", hasId |-> TRUE]]
            /\ Return(r)
  /\ UNCHANGED <<blocks, requests, conversations>>

\* repository.insert(newRequest) under an id that was never used.
InsertRequest(r) ==
  /\ Kind(r) = "insertRequest"
  /\ \E q \in RequestIds :
       /\ requests[q] = NoRequest
       /\ requests' = [requests EXCEPT ![q] =
            [from |-> Call(r).from, to |-> Call(r).to, status |-> "PENDING"]]
  /\ Return(r)
  /\ UNCHANGED <<friendship, blocks, conversations>>

\* Mutant: an update without its condition writes to a deleted request.
RespondAnyway(r) ==
  /\ Kind(r) = "respond"
  /\ requests' = [requests EXCEPT ![Call(r).request].status = Call(r).status]
  /\ Return(r)
  /\ UNCHANGED <<friendship, blocks, conversations>>

\* repository.update(requestId, { status }): conditional on the item.
Respond(r) ==
  /\ Kind(r) = "respond"
  /\ IF IsStored(Call(r).request)
       THEN /\ requests' = [requests EXCEPT ![Call(r).request].status = Call(r).status]
            /\ Return(r)
       ELSE UNCHANGED requests /\ Throw(r)
  /\ UNCHANGED <<friendship, blocks, conversations>>

\* The pending requests of the pair are listed: all of them by unfriend, which
\* lists what one of the users has sent and got, and pages of them by blockUser ...
ListPending(r) ==
  /\ Kind(r) = "listPending"
  /\ \E ids \in SUBSET PendingOf(Call(r).pair) :
       /\ IF Call(r).all THEN ids = PendingOf(Call(r).pair) ELSE MayList(Call(r).pair, ids)
       /\ Continue(r, <<[kind |-> "deleteRequests", ids |-> ids]>> \o Tail(slots[r].todo))
  /\ UNCHANGED <<tables, failed, overlapped>>

\* ... and delete the ones that were found (Promise.allSettled: a delete that
\* fails is not noticed).
DeleteRequests(r) ==
  /\ Kind(r) = "deleteRequests"
  /\ \E gone \in SUBSET Call(r).ids :
       /\ Faults \/ gone = Call(r).ids
       /\ requests' = [q \in RequestIds |->
            IF q \in gone THEN [requests[q] EXCEPT !.status = "deleted"] ELSE requests[q]]
       /\ failed' = (failed \/ gone # Call(r).ids)
  /\ Continue(r, Tail(slots[r].todo))
  /\ UNCHANGED <<friendship, blocks, conversations, overlapped>>

\* findByPairKey, and the conversation is created if none was found.
FindConversation(r) ==
  /\ Kind(r) = "findConversation"
  /\ Continue(r, (IF conversations[Call(r).pair] > 0 THEN <<>>
                  ELSE <<[kind |-> "createConversation", pair |-> Call(r).pair]>>)
                 \o Tail(slots[r].todo))
  /\ UNCHANGED <<tables, failed, overlapped>>

CreateConversation(r) ==
  /\ Kind(r) = "createConversation"
  /\ conversations' = [conversations EXCEPT ![Call(r).pair] = conversations[Call(r).pair] + 1]
  /\ Return(r)
  /\ UNCHANGED <<friendship, blocks, requests>>

\* blockRepository.insert: refused if the item is there.
InsertBlock(r) ==
  /\ Kind(r) = "insertBlock"
  /\ IF Call(r).block \in blocks
       THEN UNCHANGED blocks /\ Throw(r)
       ELSE blocks' = blocks \cup {Call(r).block} /\ Return(r)
  /\ UNCHANGED <<friendship, requests, conversations>>

\* Any call may throw: the connection, a throttled table, a timeout.
CallFails(r) ==
  /\ Faults
  /\ slots[r] # Idle
  /\ Throw(r)
  /\ UNCHANGED tables

-----------------------------------------------------------------------------
(* Use cases: what they check, and the calls they make *)

Init ==
  /\ friendship = [p \in Pairs |-> NoFriendship]
  /\ blocks = {}
  /\ requests = [q \in RequestIds |-> NoRequest]
  /\ conversations = [p \in Pairs |-> 0]
  /\ slots = [r \in Slots |-> Idle]
  /\ failed = FALSE
  /\ overlapped = FALSE

NoteOverlap == overlapped' = (overlapped \/ \E r \in Slots : slots[r] # Idle)

Start(r, todo) ==
  /\ slots[r] = Idle
  /\ Continue(r, todo)
  /\ NoteOverlap
  /\ UNCHANGED <<tables, failed>>

SendFriendRequest(r, a, b) ==
  /\ a # b
  /\ ~BlockedBetween(a, b)
  /\ ~AreFriends(a, b)
  /\ MayMissPending(a, b) /\ MayMissPending(b, a)
  /\ \E q \in RequestIds : requests[q] = NoRequest
  /\ Start(r, <<[kind |-> "insertRequest", from |-> a, to |-> b]>>)

\* Mutant: the conversation of a restored friendship is forgotten.
RestoreCallsOnly(q) ==
  <<[kind |-> "setFriendship", pair |-> PairOf(q), status |-> "ACTIVE"],
    [kind |-> "respond", request |-> q, status |-> "ACCEPTED"]>>

\* An item that was soft-deleted is restored before the request is answered,
\* without one the request is answered before the friendship is inserted.
RestoreCalls(q) ==
  <<[kind |-> "setFriendship", pair |-> PairOf(q), status |-> "ACTIVE"],
    [kind |-> "findConversation", pair |-> PairOf(q)],
    [kind |-> "respond", request |-> q, status |-> "ACCEPTED"]>>

BefriendCalls(q) ==
  <<[kind |-> "respond", request |-> q, status |-> "ACCEPTED"],
    [kind |-> "insertFriendship", pair |-> PairOf(q)],
    [kind |-> "findConversation", pair |-> PairOf(q)]>>

AcceptFriendRequest(r, q) ==
  /\ IsPending(q)
  /\ ~BlockedBetween(requests[q].from, requests[q].to)
  /\ \/ friendship[PairOf(q)].status = "DELETED" /\ Start(r, RestoreCalls(q))
     \/ friendship[PairOf(q)].status = "none" /\ Start(r, BefriendCalls(q))

\* rejectFriendRequest by the receiver, cancelFriendRequest by the sender.
AnswerFriendRequest(r, q, status) ==
  /\ IsPending(q)
  /\ Start(r, <<[kind |-> "respond", request |-> q, status |-> status]>>)

Unfriend(r, a, b) ==
  /\ a # b
  /\ AreFriends(a, b)
  /\ Start(r, <<[kind |-> "setFriendship", pair |-> {a, b}, status |-> "DELETED"],
                [kind |-> "listPending", pair |-> {a, b}, all |-> TRUE]>>)

\* Mutant: the friendship ends after the block is stored.
BlockBeforeUnfriending(a, b) ==
  <<[kind |-> "listPending", pair |-> {a, b}, all |-> FALSE],
    [kind |-> "insertBlock", block |-> <<a, b>>],
    [kind |-> "setFriendship", pair |-> {a, b}, status |-> "DELETED"]>>

\* Mutant: pending requests survive the block.
BlockQuietly(a, b) ==
  <<[kind |-> "setFriendship", pair |-> {a, b}, status |-> "DELETED"],
    [kind |-> "insertBlock", block |-> <<a, b>>]>>

\* The friendship and the pending requests go before the block is stored.
BlockCalls(a, b) ==
  <<[kind |-> "setFriendship", pair |-> {a, b}, status |-> "DELETED"],
    [kind |-> "listPending", pair |-> {a, b}, all |-> FALSE],
    [kind |-> "insertBlock", block |-> <<a, b>>]>>

BlockUser(r, a, b) ==
  /\ a # b
  /\ <<a, b>> \notin blocks
  /\ Start(r, BlockCalls(a, b))

\* A single delete, which succeeds whether or not there is a block.
UnblockUser(r, a, b) ==
  /\ slots[r] = Idle
  /\ <<a, b>> \in blocks
  /\ blocks' = blocks \ {<<a, b>>}
  /\ NoteOverlap
  /\ UNCHANGED <<friendship, requests, conversations, slots, failed>>

\* GetOrCreatePrivateConversation.
OpenConversation(r, a, b) ==
  /\ a # b
  /\ ~BlockedBetween(a, b)
  /\ Start(r, <<[kind |-> "findConversation", pair |-> {a, b}]>>)

-----------------------------------------------------------------------------
UseCase(r) ==
  \/ \E a, b \in Users :
       \/ SendFriendRequest(r, a, b)
       \/ Unfriend(r, a, b)
       \/ BlockUser(r, a, b)
       \/ UnblockUser(r, a, b)
       \/ OpenConversation(r, a, b)
  \/ \E q \in RequestIds :
       AcceptFriendRequest(r, q) \/ \E status \in Answer \ {"ACCEPTED"} : AnswerFriendRequest(r, q, status)

DatabaseCall(r) ==
  \/ SetFriendship(r)
  \/ InsertFriendship(r)
  \/ InsertRequest(r)
  \/ Respond(r)
  \/ ListPending(r)
  \/ DeleteRequests(r)
  \/ FindConversation(r)
  \/ CreateConversation(r)
  \/ InsertBlock(r)
  \/ CallFails(r)

Next == \E r \in Slots : UseCase(r) \/ DatabaseCall(r)

Spec == Init /\ [][Next]_vars

-----------------------------------------------------------------------------
(* Properties *)

\* Between requests of a behaviour that handles them one at a time.
Quiet == ~overlapped /\ \A r \in Slots : slots[r] = Idle

\* With one request at a time, users with a block between them are never
\* friends, even if a call fails half way: blockUser ends the friendship before
\* it stores the block, and nothing makes friends of them after that.
BlockedAreNotFriends ==
  ~overlapped => \A a, b \in Users : <<a, b>> \in blocks => ~AreFriends(a, b)

\* Handled one at a time and without a failure, no request is left pending
\* either, so that an unblock does not bring an old request back: unless its
\* sender has sent so many that blockUser may not have found it.
BlockedHaveNoRequest ==
  ~failed /\ ~overlapped =>
    \A w \in blocks : \A q \in PendingOf({w[1], w[2]}) : Cardinality(SentBy(requests[q].from)) > ListLimit

\* Between requests, when no call has failed, friends have a conversation, and
\* no two users have more than one: both ways to accept a request end by
\* creating it, an old one is found again, and opening one never adds another.
FriendsHaveConversation ==
  Quiet /\ ~failed =>
    \A p \in Pairs :
      /\ friendship[p].status = "ACTIVE" => conversations[p] > 0
      /\ conversations[p] <= 1

\* A deleted request stays deleted, whichever answer to it was under way.
DeletedIsFinal ==
  [][\A q \in RequestIds : requests[q].status = "deleted" => requests'[q].status = "deleted"]_vars
=============================================================================
