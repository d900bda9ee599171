------------------------------ MODULE Messaging ------------------------------
(***************************************************************************)
(* The timeline of one conversation: sending with an optional client       *)
(* message id (send-message.ts, send-group-message.ts), forwarding and     *)
(* quoting its messages, copying others into it, pinning, editing, revoking *)
(* and hiding them, the seen and delivered markers of its members, and what *)
(* a member is shown: the pages of the history, the last message in his    *)
(* list of conversations.                                                  *)
(* A handler makes its checks on what it has read and then awaits one      *)
(* database call after the other; a slot is a request being handled, and   *)
(* the calls of two slots interleave.  A call that throws ends the request *)
(* and leaves the earlier calls in place.                                  *)
(*                                                                         *)
(* Messages are numbered in the order of createdAt, which is taken before  *)
(* the insert: a later message may be stored first.                        *)
(***************************************************************************)
EXTENDS Naturals, Sequences, FiniteSets

CONSTANTS
  Members,      \* active members of the conversation
  ClientIds,    \* client message ids
  NoClientId,   \* a send without one
  Sent,         \* bound: the types of what is sent, quoted and copied
  Slots,        \* requests the server works on at the same time
  MaxPinned,    \* pinned messages a conversation may have
  PageSize,     \* messages a client loads at once
  MaxMessages,  \* bound: messages built
  MaxRequests,  \* bound: requests handled one at a time, without a failure
  MaxDisturbed  \* bound: requests, overlaps and failures where there are some

ASSUME MessagingAssumption ==
  /\ NoClientId \notin ClientIds
  /\ Sent \subseteq {"text", "media", "split"}
  /\ MaxPinned \in Nat /\ PageSize \in Nat \ {0}
  /\ MaxMessages \in Nat /\ MaxRequests \in Nat
  /\ MaxDisturbed \in Nat

VARIABLES
  built,       \* messages built so far
  messages,    \* the messages table
  reserved,    \* the idempotency rows of each sender and client id
  conv,        \* conversation.lastMessage
  pinned,      \* messages whose row says pinned
  classified,  \* messages listed in the media and link classification
  unread,      \* member.unreadCount
  seen,        \* createdAt of member.lastSeenMessageId
  delivered,   \* createdAt of member.lastDeliveredMessageId
  cutoffs,     \* member.deletedAt and hiddenAt: the messages created until then
  slots,       \* the requests in flight
  started,     \* requests started so far
  disturbed,   \* history: requests that overlapped another, and calls that threw
  dropped      \* history: the requests whose messages the database did not take

markers == <<unread, seen, delivered, cutoffs>>
tables == <<messages, reserved, conv, pinned, classified, markers>>
vars == <<built, tables, slots, started, disturbed, dropped>>

-----------------------------------------------------------------------------
MessageIds == 1..MaxMessages
\* What is sent: a text, an attachment ("media"), or what is split into two
\* messages (several attachments, an attachment and a text with a link).
SystemType == "system"

\* A message has a sender, a client message id, a type, a text ("original",
\* "edited" or "tombstone"), revoked, deletedFor, and the request that wrote it.
NoMessage == [request |-> 0]

NoReservation == [status |-> "none", ids |-> {}]

IsStored(n) == messages[n] # NoMessage
StoredIds == {n \in MessageIds : IsStored(n)}
Newest(ids) == CHOOSE n \in ids : \A m \in ids : m <= n

\* findByClientMessageId: the ids of the idempotency row, or else the messages
\* that carry the client message key.
FindByClientMessageId(u, k) ==
  IF reserved[u][k].ids # {} THEN reserved[u][k].ids
  ELSE {n \in StoredIds : messages[n].sender = u /\ messages[n].client = k}

\* listByConversation: the newest messages before the cursor.  Limit cuts the
\* page before the filter is applied: it is shorter if u has deleted some.
FromTheTop == MaxMessages + 1
NewestOf(ids, limit) == {n \in ids : Cardinality({m \in ids : m >= n}) <= limit}
ListByConversation(u, cursor, limit) ==
  {n \in NewestOf({m \in StoredIds : m < cursor}, limit) : u \notin messages[n].deletedFor}

LatestVisible(u) == ListByConversation(u, FromTheTop, 1)

-----------------------------------------------------------------------------
(* Requests in flight *)

Idle == [todo |-> <<>>]
Busy(r) == slots[r] # Idle
Doing(r, kind) == Busy(r) /\ Head(slots[r].todo).kind = kind
Call(r) == Head(slots[r].todo)

Bounded == IF disturbed' = 0 THEN started' <= MaxRequests ELSE started' + disturbed' <= MaxDisturbed
Disturb == disturbed' = disturbed + 1

Start(r, request) ==
  /\ ~Busy(r)
  /\ slots' = [slots EXCEPT ![r] = request]
  /\ started' = started + 1
  /\ IF \E x \in Slots : Busy(x) THEN Disturb ELSE UNCHANGED disturbed
  /\ Bounded
  /\ UNCHANGED <<built, tables, dropped>>

Begin(r, todo) == Start(r, [todo |-> todo])

\* The call returned and is replaced by the calls of more.
Proceed(r, more) ==
  LET rest == more \o Tail(slots[r].todo)
  IN /\ slots' = [slots EXCEPT ![r] = IF rest = <<>> THEN Idle ELSE [slots[r] EXCEPT !.todo = rest]]
     /\ UNCHANGED <<started, disturbed, dropped>>

Throw(r) ==
  /\ slots' = [slots EXCEPT ![r] = Idle]
  /\ UNCHANGED <<started, dropped>>

-----------------------------------------------------------------------------
(* Sending *)

\* The messages are inserted one after the other, attachments and links are
\* classified, and the conversation and the members follow.
BuildCalls(type) ==
  IF type = "split" THEN <<[kind |-> "build"], [kind |-> "build"]>> ELSE <<[kind |-> "build"]>>
ClassifyCalls(type) == IF type = "text" THEN <<>> ELSE <<[kind |-> "classify"]>>
FollowCalls == <<[kind |-> "setLast"], [kind |-> "count"]>>

WriteCalls(type) == BuildCalls(type) \o ClassifyCalls(type) \o FollowCalls

StartWriting(r, u, k, type, todo) ==
  Start(r, [todo |-> todo, sender |-> u, client |-> k, type |-> type, request |-> started + 1,
            ids |-> {}, left |-> Members \ {u}, rows |-> <<>>])

SendMessage(r, u, k, type) ==
  StartWriting(r, u, k, type,
               IF k = NoClientId THEN WriteCalls(type) ELSE <<[kind |-> "find"]>>)

\* assertMessageActiveForAction
ActiveForAction(u, n) ==
  /\ IsStored(n)
  /\ ~messages[n].revoked
  /\ u \notin messages[n].deletedFor
  /\ messages[n].type # SystemType

\* A message of this conversation is forwarded to it: a batch of one.
ForwardMessage(r, u, n) ==
  /\ ActiveForAction(u, n)
  /\ LET type == IF messages[n].type = "text" THEN "text" ELSE "media"
     IN StartWriting(r, u, NoClientId, type,
                     <<[kind |-> "buildBatch"]>> \o ClassifyCalls(type) \o FollowCalls)

\* A quote is sent like a message, except that nobody's unread count follows.
QuoteMessage(r, u, n, type) ==
  /\ ActiveForAction(u, n)
  /\ StartWriting(r, u, NoClientId, type,
                  BuildCalls(type) \o ClassifyCalls(type) \o <<[kind |-> "setLast"]>>)

\* The messages of another conversation are copied to this one: what they
\* hold is not classified.
CopyConversation(r, u, type) ==
  StartWriting(r, u, NoClientId, type, BuildCalls(type) \o FollowCalls)

\* Mutant: the row is reserved without looking for the messages first.
ReserveAtOnce(r) ==
  /\ Doing(r, "find")
  /\ Proceed(r, <<[kind |-> "reserve"]>>)
  /\ UNCHANGED <<built, tables>>

\* reserveClientMessage: messages that are already there are waited for ...
FindClientMessages(r) ==
  /\ Doing(r, "find")
  /\ Proceed(r, IF FindByClientMessageId(slots[r].sender, slots[r].client) # {}
                  THEN <<[kind |-> "wait"]>> ELSE <<[kind |-> "reserve"]>>)
  /\ UNCHANGED <<built, tables>>

\* ... and otherwise the row is put, on the condition that there is none.
ReserveClientMessage(r) ==
  LET u == slots[r].sender
      k == slots[r].client
  IN /\ Doing(r, "reserve")
     /\ IF reserved[u][k] = NoReservation
          THEN /\ reserved' = [reserved EXCEPT ![u][k].status = "pending"]
               /\ Proceed(r, WriteCalls(slots[r].type) \o <<[kind |-> "complete"]>>)
          ELSE UNCHANGED reserved /\ Proceed(r, <<[kind |-> "wait"]>>)
     /\ UNCHANGED <<built, messages, conv, pinned, classified, markers>>

\* Mutant: a retry counts the messages it has found as unread.
WaitAndCount(r) ==
  /\ Doing(r, "wait")
  /\ FindByClientMessageId(slots[r].sender, slots[r].client) # {}
  /\ Proceed(r, <<[kind |-> "count"]>>)
  /\ UNCHANGED <<built, tables>>

\* waitForClientMessages answers with the messages it finds, all or not.
WaitForClientMessages(r) ==
  /\ Doing(r, "wait")
  /\ FindByClientMessageId(slots[r].sender, slots[r].client) # {}
  /\ Proceed(r, <<>>)
  /\ UNCHANGED <<built, tables>>

\* Ten attempts have found nothing: 409.
GiveUpWaiting(r) ==
  /\ Doing(r, "wait")
  /\ FindByClientMessageId(slots[r].sender, slots[r].client) = {}
  /\ Throw(r)
  /\ UNCHANGED <<built, tables, disturbed>>

BuildMessage(r) ==
  /\ Doing(r, "build") \/ Doing(r, "buildBatch")
  /\ built < MaxMessages
  /\ built' = built + 1
  /\ Proceed(r, <<[kind |-> IF Doing(r, "build") THEN "insert" ELSE "batch", id |-> built + 1]>>)
  /\ UNCHANGED tables

InsertMessage(r) ==
  /\ Doing(r, "insert") \/ Doing(r, "batch")
  /\ LET n == Call(r).id
         s == slots[r]
     IN /\ messages' = [messages EXCEPT ![n] =
             [sender |-> s.sender, client |-> s.client, request |-> s.request, type |-> s.type,
              text |-> "original", revoked |-> FALSE, deletedFor |-> {}]]
        /\ slots' = [slots EXCEPT ![r] = [s EXCEPT !.todo = Tail(s.todo), !.ids = @ \cup {n}]]
  /\ UNCHANGED <<built, reserved, conv, pinned, classified, markers, started, disturbed, dropped>>

\* batchWriteWithRetry gives up on unprocessed items with a warning, and the
\* request goes on as if they were stored.
DropUnprocessed(r) ==
  /\ Doing(r, "batch")
  /\ Disturb
  /\ dropped' = dropped \cup {[request |-> slots[r].request, sender |-> slots[r].sender]}
  /\ slots' = [slots EXCEPT ![r] =
       [slots[r] EXCEPT !.todo = Tail(slots[r].todo), !.ids = {Call(r).id}]]
  /\ UNCHANGED <<built, tables, started>>
  /\ Bounded

\* classificationRepo.insertBatch
Classify(r) ==
  /\ Doing(r, "classify")
  /\ classified' = classified \cup slots[r].ids
  /\ Proceed(r, <<>>)
  /\ UNCHANGED <<built, messages, reserved, conv, pinned, markers>>

\* The last message is any of the new ones: which one depends on their types.
\* Its preview is the text it was built with.
SetLastMessage(r) ==
  /\ Doing(r, "setLast")
  /\ \E n \in slots[r].ids : conv' = [last |-> n, preview |-> "original"]
  /\ Proceed(r, <<>>)
  /\ UNCHANGED <<built, messages, reserved, pinned, classified, markers>>

\* incrementUnreadCountForConversation: one atomic ADD per other member.
IncrementUnread(r) ==
  /\ Doing(r, "count")
  /\ LET left == slots[r].left
     IN IF left = {}
          THEN UNCHANGED unread /\ Proceed(r, <<>>)
          ELSE \E u \in left :
                 /\ unread' = [unread EXCEPT ![u] = @ + 1]
                 /\ IF left = {u} THEN Proceed(r, <<>>)
                    ELSE /\ slots' = [slots EXCEPT ![r].left = @ \ {u}]
                         /\ UNCHANGED <<started, disturbed, dropped>>
  /\ UNCHANGED <<built, messages, reserved, conv, pinned, classified, seen, delivered, cutoffs>>

\* completeClientMessage: conditional on the row.
CompleteClientMessage(r) ==
  LET u == slots[r].sender
      k == slots[r].client
  IN /\ Doing(r, "complete")
     /\ IF reserved[u][k] = NoReservation
          THEN UNCHANGED <<reserved, disturbed>> /\ Throw(r)
          ELSE /\ reserved' = [reserved EXCEPT ![u][k] = [status |-> "completed", ids |-> slots[r].ids]]
               /\ Proceed(r, <<>>)
     /\ UNCHANGED <<built, messages, conv, pinned, classified, markers>>

\* The row expires a day later, when no request that knows of it is left.
ExpireReservation(u, k) ==
  /\ reserved[u][k] # NoReservation
  /\ \A r \in Slots : ~Busy(r)
  /\ reserved' = [reserved EXCEPT ![u][k] = NoReservation]
  /\ UNCHANGED <<built, messages, conv, pinned, classified, markers, slots, started, disturbed, dropped>>

-----------------------------------------------------------------------------
(* Message actions *)

\* Edit and revoke are for the sender, and for a message that is not revoked
\* as it was read here.
MayChange(u, n) == IsStored(n) /\ messages[n].sender = u /\ ~messages[n].revoked

EditMessage(r, u, n) ==
  /\ MayChange(u, n)
  /\ messages[n].type = "text"
  /\ Begin(r, <<[kind |-> "edit", id |-> n]>>)

UpdateText(r) ==
  /\ Doing(r, "edit")
  /\ messages' = [messages EXCEPT ![Call(r).id].text = "edited"]
  /\ Proceed(r, <<>>)
  /\ UNCHANGED <<built, reserved, conv, pinned, classified, markers>>

\* Mutant: the classification of the message is left in place.
RevokeCallsOnly(n) == <<[kind |-> "tombstone", id |-> n], [kind |-> "checkLast", id |-> n]>>

RevokeCalls(n) ==
  <<[kind |-> "tombstone", id |-> n],
    [kind |-> "declassify", id |-> n],
    [kind |-> "checkLast", id |-> n]>>

\* RevokeMessage and DeleteMessageForEveryone.
RevokeMessage(r, u, n) ==
  /\ MayChange(u, n)
  /\ Begin(r, RevokeCalls(n))

WriteTombstone(r) ==
  /\ Doing(r, "tombstone")
  /\ messages' = [messages EXCEPT ![Call(r).id].text = "tombstone", ![Call(r).id].revoked = TRUE]
  /\ Proceed(r, <<>>)
  /\ UNCHANGED <<built, reserved, conv, pinned, classified, markers>>

Declassify(r) ==
  /\ Doing(r, "declassify")
  /\ classified' = classified \ {Call(r).id}
  /\ Proceed(r, <<>>)
  /\ UNCHANGED <<built, messages, reserved, conv, pinned, markers>>

\* Mutant: the preview is written whatever the last message is.
CheckLastAnyway(r) ==
  /\ Doing(r, "checkLast")
  /\ Proceed(r, <<[kind |-> "setPreview", id |-> Call(r).id]>>)
  /\ UNCHANGED <<built, tables>>

\* The conversation is read: its preview changes if the message is its last.
CheckLast(r) ==
  /\ Doing(r, "checkLast")
  /\ Proceed(r, IF conv.last = Call(r).id THEN <<[kind |-> "setPreview", id |-> Call(r).id]>>
                ELSE <<>>)
  /\ UNCHANGED <<built, tables>>

SetPreview(r) ==
  /\ Doing(r, "setPreview")
  /\ conv' = [last |-> Call(r).id, preview |-> "tombstone"]
  /\ Proceed(r, <<>>)
  /\ UNCHANGED <<built, messages, reserved, pinned, classified, markers>>

\* Pinning and unpinning end with a system message and touchActivityForConversation.
NoteCalls(call) ==
  <<call, [kind |-> "build"], [kind |-> "setLast"], [kind |-> "readRows"], [kind |-> "putRows"]>>

\* findPinnedMessages leaves out the revoked ones.
PinnedMessages == {n \in pinned : ~messages[n].revoked}

PinMessage(r, u, n) ==
  /\ IsStored(n) /\ ~messages[n].revoked
  /\ n \notin pinned
  /\ Cardinality(PinnedMessages) < MaxPinned
  /\ StartWriting(r, u, NoClientId, SystemType, NoteCalls([kind |-> "pin", id |-> n]))

UnpinMessage(r, u, n) ==
  /\ n \in PinnedMessages
  /\ StartWriting(r, u, NoClientId, SystemType, NoteCalls([kind |-> "unpin", id |-> n]))

WritePinned(r) ==
  /\ \/ Doing(r, "pin") /\ pinned' = pinned \cup {Call(r).id}
     \/ Doing(r, "unpin") /\ pinned' = pinned \ {Call(r).id}
  /\ Proceed(r, <<>>)
  /\ UNCHANGED <<built, messages, reserved, conv, classified, markers>>

\* touchActivityForConversation reads the rows of the members ...
Row(u) == [unread |-> unread[u], seen |-> seen[u], delivered |-> delivered[u], cutoffs |-> cutoffs[u]]

ReadRows(r) ==
  /\ Doing(r, "readRows")
  /\ slots' = [slots EXCEPT ![r] =
       [slots[r] EXCEPT !.todo = Tail(slots[r].todo), !.rows = [u \in Members |-> Row(u)]]]
  /\ UNCHANGED <<built, tables, started, disturbed, dropped>>

\* ... and puts them back whole.  The puts of a batch arrive in any order.
PutRow(r) ==
  /\ Doing(r, "putRows")
  /\ LET rows == slots[r].rows
     IN \E u \in DOMAIN rows :
          /\ unread' = [unread EXCEPT ![u] = rows[u].unread]
          /\ seen' = [seen EXCEPT ![u] = rows[u].seen]
          /\ delivered' = [delivered EXCEPT ![u] = rows[u].delivered]
          /\ cutoffs' = [cutoffs EXCEPT ![u] = rows[u].cutoffs]
          /\ IF DOMAIN rows = {u} THEN Proceed(r, <<>>)
             ELSE /\ slots' = [slots EXCEPT ![r] =
                       [slots[r] EXCEPT !.rows = [v \in DOMAIN rows \ {u} |-> rows[v]]]]
                  /\ UNCHANGED <<started, disturbed, dropped>>
  /\ UNCHANGED <<built, messages, reserved, conv, pinned, classified>>

\* Mutant: the list that was read is not kept.
HideForOnly(u, ns) == <<[kind |-> "hide", lists |-> [n \in ns |-> {u}]]>>

\* deletedForUserIds is written back as it was read, with the user added.
HideCalls(u, ns) ==
  <<[kind |-> "hide", lists |-> [n \in ns |-> messages[n].deletedFor \cup {u}]]>>

DeleteMessageForMe(r, u, n) ==
  /\ IsStored(n)
  /\ u \notin messages[n].deletedFor
  /\ Begin(r, HideCalls(u, {n}))

\* DeleteMessagesBulk: the user's own messages, hidden or not.
DeleteMessagesBulk(r, u, ns) ==
  /\ ns # {}
  /\ \A n \in ns : IsStored(n) /\ messages[n].sender = u
  /\ Begin(r, HideCalls(u, ns))

\* The updates of a bulk run in parallel: the next to arrive is any of them.
WriteDeletedFor(r) ==
  /\ Doing(r, "hide")
  /\ LET lists == Call(r).lists
     IN \E n \in DOMAIN lists :
          /\ messages' = [messages EXCEPT ![n].deletedFor = lists[n]]
          /\ Proceed(r, IF DOMAIN lists = {n} THEN <<>>
                        ELSE <<[kind |-> "hide", lists |-> [m \in DOMAIN lists \ {n} |-> lists[m]]]>>)
  /\ UNCHANGED <<built, reserved, conv, pinned, classified, markers>>

-----------------------------------------------------------------------------
(* Markers *)

Markable(u, n) == IsStored(n) /\ u \notin messages[n].deletedFor

MarkAsSeen(r, u, n) ==
  /\ Markable(u, n)
  /\ seen[u] < n
  /\ Begin(r, <<[kind |-> "latest", user |-> u, id |-> n]>>)

\* The unread count is cleared if the page is empty or holds nothing newer.
ReadLatest(r) ==
  /\ Doing(r, "latest")
  /\ Proceed(r, <<[kind |-> "advanceSeen", user |-> Call(r).user, id |-> Call(r).id,
                   clear |-> \A m \in LatestVisible(Call(r).user) : Call(r).id >= m]>>)
  /\ UNCHANGED <<built, tables>>

\* Mutant: the marker is written without its condition.
SetSeen(r) ==
  /\ Doing(r, "advanceSeen")
  /\ seen' = [seen EXCEPT ![Call(r).user] = Call(r).id]
  /\ unread' = IF Call(r).clear THEN [unread EXCEPT ![Call(r).user] = 0] ELSE unread
  /\ Proceed(r, <<>>)
  /\ UNCHANGED <<built, messages, reserved, conv, pinned, classified, delivered, cutoffs>>

\* advanceSeenState: one update, on the condition that the marker advances.
AdvanceSeen(r) ==
  /\ Doing(r, "advanceSeen")
  /\ LET u == Call(r).user
     IN IF seen[u] < Call(r).id
          THEN /\ seen' = [seen EXCEPT ![u] = Call(r).id]
               /\ unread' = IF Call(r).clear THEN [unread EXCEPT ![u] = 0] ELSE unread
          ELSE UNCHANGED <<seen, unread>>
  /\ Proceed(r, <<>>)
  /\ UNCHANGED <<built, messages, reserved, conv, pinned, classified, delivered, cutoffs>>

MarkAsDelivered(r, u, n) ==
  /\ Markable(u, n)
  /\ delivered[u] < n
  /\ Begin(r, <<[kind |-> "advanceDelivered", user |-> u, id |-> n]>>)

AdvanceDelivered(r) ==
  /\ Doing(r, "advanceDelivered")
  /\ IF delivered[Call(r).user] < Call(r).id
       THEN delivered' = [delivered EXCEPT ![Call(r).user] = Call(r).id]
       ELSE UNCHANGED delivered
  /\ Proceed(r, <<>>)
  /\ UNCHANGED <<built, messages, reserved, conv, pinned, classified, unread, seen, cutoffs>>

-----------------------------------------------------------------------------
(* What a member is shown *)

\* latestVisibilityCutoff
Cutoff(u) == IF cutoffs[u].deleted > cutoffs[u].hidden THEN cutoffs[u].deleted ELSE cutoffs[u].hidden

\* Mutant: no message more than a page holds is asked for.
LoadWithoutExtra(u, cursor) ==
  LET page == {n \in ListByConversation(u, cursor, PageSize) : n > Cutoff(u)}
  IN [page |-> page, next |-> 0]

\* loadMessages asks for one message more than a page holds.  There is a next
\* page if that many are left when the hidden ones have been taken out.
LoadMessages(u, cursor) ==
  LET visible == {n \in ListByConversation(u, cursor, PageSize + 1) : n > Cutoff(u)}
      page == NewestOf(visible, PageSize)
  IN [page |-> page,
      next |-> IF Cardinality(visible) > PageSize THEN CHOOSE n \in page : \A m \in page : n <= m ELSE 0]

\* What a client gets that follows the cursors from the newest page on.
History(u) ==
  LET from[cursor \in 1..FromTheTop] ==
        LET loaded == LoadMessages(u, cursor)
        IN loaded.page \cup IF loaded.next = 0 THEN {} ELSE from[loaded.next]
  IN from[FromTheTop]

Nothing == [message |-> 0, text |-> "none"]

\* A revoked message is shown as such, whatever its text or its preview says.
ShownText(n, text) == IF messages[n].revoked THEN "tombstone" ELSE text

\* findLatestVisibleMessage: the first message of the first page, if there is one.
FindLatestVisibleMessage(u) ==
  LET found == {n \in ListByConversation(u, FromTheTop, PageSize) : n > Cutoff(u)}
      n == Newest(found)
  IN IF found = {} THEN Nothing ELSE [message |-> n, text |-> ShownText(n, messages[n].text)]

\* Mutant: the preview of the conversation is shown as it is.
ShowPreview(u) ==
  IF conv.last = 0 \/ ~IsStored(conv.last) \/ (u \notin messages[conv.last].deletedFor /\ conv.last > Cutoff(u))
    THEN [message |-> conv.last, text |-> conv.preview]
    ELSE FindLatestVisibleMessage(u)

\* resolveVisibleLastMessage: the last message of the conversation is read again,
\* and shown as it is if it is not there.
ResolveVisibleLastMessage(u) ==
  CASE conv.last = 0 -> Nothing
    [] conv.last # 0 /\ ~IsStored(conv.last) -> [message |-> conv.last, text |-> conv.preview]
    [] conv.last # 0 /\ IsStored(conv.last) /\ (conv.last <= Cutoff(u) \/ u \in messages[conv.last].deletedFor) ->
         FindLatestVisibleMessage(u)
    [] OTHER -> [message |-> conv.last, text |-> ShownText(conv.last, conv.preview)]

\* deletedAt is taken before the update.
DeleteConversationForMe(r, u) == Begin(r, <<[kind |-> "clear", user |-> u, at |-> built]>>)
HideConversation(r, u) == Begin(r, <<[kind |-> "conceal", user |-> u, at |-> built]>>)
UnhideConversation(r, u) ==
  /\ cutoffs[u].hidden # 0
  /\ Begin(r, <<[kind |-> "conceal", user |-> u, at |-> 0]>>)

WriteCutoff(r) ==
  /\ \/ /\ Doing(r, "clear")
        /\ cutoffs' = [cutoffs EXCEPT ![Call(r).user].deleted = Call(r).at]
        /\ unread' = [unread EXCEPT ![Call(r).user] = 0]
     \/ /\ Doing(r, "conceal")
        /\ cutoffs' = [cutoffs EXCEPT ![Call(r).user].hidden = Call(r).at]
        /\ UNCHANGED unread
  /\ Proceed(r, <<>>)
  /\ UNCHANGED <<built, messages, reserved, conv, pinned, classified, seen, delivered>>

\* Any call may throw: the connection, a throttled table, a timeout.
CallFails(r) ==
  /\ Busy(r)
  /\ Throw(r)
  /\ Disturb
  /\ Bounded
  /\ UNCHANGED <<built, tables>>

-----------------------------------------------------------------------------
Init ==
  /\ built = 0
  /\ messages = [n \in MessageIds |-> NoMessage]
  /\ reserved = [u \in Members |-> [k \in ClientIds |-> NoReservation]]
  /\ conv = [last |-> 0, preview |-> "none"]
  /\ pinned = {}
  /\ classified = {}
  /\ unread = [u \in Members |-> 0]
  /\ seen = [u \in Members |-> 0]
  /\ delivered = [u \in Members |-> 0]
  /\ cutoffs = [u \in Members |-> [deleted |-> 0, hidden |-> 0]]
  /\ slots = [r \in Slots |-> Idle]
  /\ started = 0
  /\ disturbed = 0
  /\ dropped = {}

UseCase(r) ==
  \E u \in Members :
    \/ \E k \in ClientIds \cup {NoClientId}, type \in Sent : SendMessage(r, u, k, type)
    \/ \E type \in Sent : CopyConversation(r, u, type)
    \/ \E ns \in SUBSET MessageIds : DeleteMessagesBulk(r, u, ns)
    \/ DeleteConversationForMe(r, u)
    \/ HideConversation(r, u)
    \/ UnhideConversation(r, u)
    \/ \E n \in MessageIds :
         \/ ForwardMessage(r, u, n)
         \/ \E type \in Sent : QuoteMessage(r, u, n, type)
         \/ PinMessage(r, u, n)
         \/ UnpinMessage(r, u, n)
         \/ EditMessage(r, u, n)
         \/ RevokeMessage(r, u, n)
         \/ DeleteMessageForMe(r, u, n)
         \/ MarkAsSeen(r, u, n)
         \/ MarkAsDelivered(r, u, n)

DatabaseCall(r) ==
  \/ FindClientMessages(r)
  \/ ReserveClientMessage(r)
  \/ WaitForClientMessages(r)
  \/ GiveUpWaiting(r)
  \/ BuildMessage(r)
  \/ InsertMessage(r)
  \/ DropUnprocessed(r)
  \/ Classify(r)
  \/ SetLastMessage(r)
  \/ IncrementUnread(r)
  \/ CompleteClientMessage(r)
  \/ UpdateText(r)
  \/ WriteTombstone(r)
  \/ Declassify(r)
  \/ CheckLast(r)
  \/ SetPreview(r)
  \/ WritePinned(r)
  \/ ReadRows(r)
  \/ PutRow(r)
  \/ WriteDeletedFor(r)
  \/ ReadLatest(r)
  \/ AdvanceSeen(r)
  \/ AdvanceDelivered(r)
  \/ WriteCutoff(r)
  \/ CallFails(r)

Next ==
  \/ \E r \in Slots : UseCase(r) \/ DatabaseCall(r)
  \/ \E u \in Members, k \in ClientIds : ExpireReservation(u, k)

Spec == Init /\ [][Next]_vars

-----------------------------------------------------------------------------
(* Properties *)

calm == disturbed = 0
Quiet == \A r \in Slots : ~Busy(r)

\* All messages of a sender with the same client message id were written by
\* one request, however many requests with that id ran, overlapped, failed half
\* way or came after the reservation had expired.
SentOnce ==
  \A m, n \in StoredIds :
    messages[m].client # NoClientId /\ messages[m].client = messages[n].client
      /\ messages[m].sender = messages[n].sender
    => messages[m].request = messages[n].request

\* A member never has more unread messages than there are sends of others: a
\* retry does not count a second time, whatever overlaps or fails.  A forward
\* counts even if the database has not taken it.
UnreadIsBounded ==
  \A u \in Members :
    unread[u] <= Cardinality({messages[n].request : n \in {m \in StoredIds : messages[m].sender # u}}
                             \cup {d.request : d \in {x \in dropped : x.sender # u}})

MarkersGoOn ==
  \A u \in Members :
    /\ seen'[u] = seen[u] \/ seen'[u] > seen[u]
    /\ delivered'[u] = delivered[u] \/ delivered'[u] > delivered[u]

\* The seen and delivered markers of a member only move forward, also when two
\* tabs report different messages at the same time and calls fail, as long as no
\* pinning or unpinning is between reading the members' rows and putting them
\* back; and always, if requests are handled one at a time.
MarkersAdvance ==
  [][(\A r \in Slots : ~Doing(r, "putRows")) \/ calm' => MarkersGoOn]_vars

\* Handled one at a time and without failures, the last message of the
\* conversation is one of the newest send, whatever is revoked or edited later.
LastIsNewest ==
  Quiet /\ calm /\ StoredIds # {} =>
    conv.last # 0 /\ messages[conv.last].request = messages[Newest(StoredIds)].request

\* Handled one at a time and without failures, what a revoked message said is
\* gone: from the message, the conversation preview and the classification.
RevokedIsGone ==
  Quiet /\ calm => \A n \in StoredIds :
    messages[n].revoked =>
      /\ messages[n].text = "tombstone"
      /\ n \notin classified
      /\ conv.last = n => conv.preview = "tombstone"

\* Handled one at a time, a message that a member has deleted for himself, alone
\* or in bulk, never shows up in his timeline again, whoever acts on it later.
HiddenStaysHidden ==
  [][calm' => \A n \in StoredIds : messages[n].deletedFor \subseteq messages'[n].deletedFor]_vars

\* Whatever overlaps, fails or arrives late: the pages a member gets by following
\* the cursors hold no message that he has hidden, and all the others
\* if he has hidden none since his cutoff.
HistoryIsWhole ==
  \A u \in Members :
    LET kept == {n \in StoredIds : n > Cutoff(u)}
        visible == {n \in kept : u \notin messages[n].deletedFor}
    IN /\ History(u) \subseteq visible
       /\ visible = kept => History(u) = kept

\* Whatever overlaps or fails, also when a revocation ends before the preview is
\* rewritten, the list of conversations shows a member no message he has hidden
\* and nothing of what a revoked one said.
ListShowsNothingGone ==
  \A u \in Members :
    LET shown == ResolveVisibleLastMessage(u)
    IN shown # Nothing /\ IsStored(shown.message) =>
         /\ shown.message > Cutoff(u)
         /\ u \notin messages[shown.message].deletedFor
         /\ messages[shown.message].revoked => shown.text = "tombstone"

-----------------------------------------------------------------------------
(* What the documentation says and the code does not do *)

\* "Marker được cập nhật theo hướng monotonic": a marker never moves back,
\* whatever else is going on.
MarkersAreMonotonic == [][MarkersGoOn]_vars
=============================================================================
