--------------------------- MODULE MessagingProofs ---------------------------
(***************************************************************************)
(* What a conversation keeps, for any members, client ids, bounds and size *)
(* of a page.  Whatever is in flight and whichever call fails: a client    *)
(* message id is sent once (SentInv: the holder of the reservation writes  *)
(* alone), nobody's unread count runs ahead of the sends (UnreadInv), the  *)
(* history is whole and the list shows nothing that is gone.  The markers  *)
(* only advance while nobody puts rows back; with one request at a time,   *)
(* what is put back is what is there (RowsAreFresh).  With one request at  *)
(* a time and no failure (CalmInv: what the sole request has still to do): *)
(* the last message is the newest, a revoked text is gone, what is hidden  *)
(* stays so.                                                               *)
(*                                                                         *)
(* Typed says what a request in flight is; Moves, which of the variables a *)
(* step may write; Numbers and WrittenInv, how messages are numbered and   *)
(* which request has written which.                                        *)
(***************************************************************************)
EXTENDS Messaging, FiniteSetTheorems, SequenceTheorems, WellFoundedInduction, TLAPS

\* The markers are attributes of the members' rows: no call adds or takes one away.
MarkerRows == DOMAIN seen = Members /\ DOMAIN delivered = Members

\* One step of MarkersAdvance.
Forward(old, new) == \A u \in Members : new[u] = old[u] \/ new[u] > old[u]
MarkersStep == MarkerRows' /\ Forward(seen, seen') /\ Forward(delivered, delivered')

LEMMA WriteForward ==
  ASSUME NEW old, DOMAIN old = Members, NEW new, NEW v, NEW n, old[v] < n,
         new = [old EXCEPT ![v] = n]
  PROVE  DOMAIN new = Members /\ Forward(old, new)
BY DEF Forward

LEMMA Unmoved ==
  ASSUME MarkerRows, UNCHANGED <<seen, delivered>>
  PROVE  MarkersStep
BY DEF MarkersStep, MarkerRows, Forward

\* A request that starts has written nothing yet.
LEMMA UseCaseLeavesMarkers ==
  ASSUME NEW r \in Slots, UseCase(r)
  PROVE  UNCHANGED <<seen, delivered>>
<1> USE DEF Begin, StartWriting, Start, tables, markers
<1> PICK u \in Members :
      \/ \E k \in ClientIds \cup {NoClientId}, type \in Sent : SendMessage(r, u, k, type)
      \/ \E type \in Sent : CopyConversation(r, u, type)
      \/ \E ns \in SUBSET MessageIds : DeleteMessagesBulk(r, u, ns)
      \/ DeleteConversationForMe(r, u)
      \/ HideConversation(r, u)
      \/ UnhideConversation(r, u)
      \/ \E n \in MessageIds :
           \/ ForwardMessage(r, u, n)
           \/ \E type \in Sent : QuoteMessage(r, u, n, type)
           \/ PinMessage(r, u, n)
           \/ UnpinMessage(r, u, n)
           \/ EditMessage(r, u, n)
           \/ RevokeMessage(r, u, n)
           \/ DeleteMessageForMe(r, u, n)
           \/ MarkAsSeen(r, u, n)
           \/ MarkAsDelivered(r, u, n)
  BY DEF UseCase
<1>1. CASE \/ \E k \in ClientIds \cup {NoClientId}, type \in Sent : SendMessage(r, u, k, type)
           \/ \E type \in Sent : CopyConversation(r, u, type)
           \/ \E n \in MessageIds : ForwardMessage(r, u, n)
           \/ \E n \in MessageIds, type \in Sent : QuoteMessage(r, u, n, type)
           \/ \E n \in MessageIds : PinMessage(r, u, n) \/ UnpinMessage(r, u, n)
  BY <1>1 DEF SendMessage, CopyConversation, ForwardMessage, QuoteMessage, PinMessage, UnpinMessage
<1>2. CASE \/ \E ns \in SUBSET MessageIds : DeleteMessagesBulk(r, u, ns)
           \/ DeleteConversationForMe(r, u)
           \/ HideConversation(r, u)
           \/ UnhideConversation(r, u)
  BY <1>2 DEF DeleteMessagesBulk, DeleteConversationForMe, HideConversation, UnhideConversation
<1>3. CASE \E n \in MessageIds :
             \/ EditMessage(r, u, n)
             \/ RevokeMessage(r, u, n)
             \/ DeleteMessageForMe(r, u, n)
             \/ MarkAsSeen(r, u, n)
             \/ MarkAsDelivered(r, u, n)
  BY <1>3 DEF EditMessage, RevokeMessage, DeleteMessageForMe, MarkAsSeen, MarkAsDelivered
<1> QED BY <1>1, <1>2, <1>3

\* Both markers are written by one update each, on a condition on the row as it
\* is then, not as the request has read it; but for rows that are put back.
\* Only these calls write a marker.
LEMMA CallKeepsMarkers ==
  ASSUME NEW r \in Slots, DatabaseCall(r), ~PutRow(r), ~AdvanceSeen(r), ~AdvanceDelivered(r)
  PROVE  UNCHANGED <<seen, delivered>>
<1>1. CASE \/ FindClientMessages(r)
           \/ ReserveClientMessage(r)
           \/ WaitForClientMessages(r)
           \/ GiveUpWaiting(r)
           \/ CompleteClientMessage(r)
  BY <1>1 DEF FindClientMessages, ReserveClientMessage, WaitForClientMessages, GiveUpWaiting,
       CompleteClientMessage, tables, markers
<1>2. CASE \/ BuildMessage(r)
           \/ InsertMessage(r)
           \/ DropUnprocessed(r)
           \/ Classify(r)
           \/ SetLastMessage(r)
           \/ IncrementUnread(r)
  BY <1>2 DEF BuildMessage, InsertMessage, DropUnprocessed, Classify, SetLastMessage,
       IncrementUnread, tables, markers
<1>3. CASE \/ UpdateText(r)
           \/ WriteTombstone(r)
           \/ Declassify(r)
           \/ CheckLast(r)
           \/ SetPreview(r)
           \/ WritePinned(r)
           \/ ReadRows(r)
           \/ WriteDeletedFor(r)
  BY <1>3 DEF UpdateText, WriteTombstone, Declassify, CheckLast, SetPreview, WritePinned,
       ReadRows, WriteDeletedFor, tables, markers
<1>4. CASE ReadLatest(r) \/ WriteCutoff(r) \/ CallFails(r)
  BY <1>4 DEF ReadLatest, WriteCutoff, CallFails, tables, markers
<1> QED BY <1>1, <1>2, <1>3, <1>4 DEF DatabaseCall

LEMMA CallMovesForward ==
  ASSUME MarkerRows, NEW r \in Slots, DatabaseCall(r), ~PutRow(r)
  PROVE  MarkersStep
<1>1. CASE AdvanceSeen(r)
  <2>1. delivered' = delivered
    BY <1>1 DEF AdvanceSeen
  <2>2. CASE seen' = seen
    BY <2>1, <2>2, Unmoved
  <2>3. CASE seen[Call(r).user] < Call(r).id /\ seen' = [seen EXCEPT ![Call(r).user] = Call(r).id]
    BY <2>1, <2>3, WriteForward DEF MarkersStep, MarkerRows, Forward
  <2> QED BY <1>1, <2>2, <2>3 DEF AdvanceSeen
<1>2. CASE AdvanceDelivered(r)
  <2>1. seen' = seen
    BY <1>2 DEF AdvanceDelivered
  <2>2. CASE delivered' = delivered
    BY <2>1, <2>2, Unmoved
  <2>3. CASE /\ delivered[Call(r).user] < Call(r).id
             /\ delivered' = [delivered EXCEPT ![Call(r).user] = Call(r).id]
    BY <2>1, <2>3, WriteForward DEF MarkersStep, MarkerRows, Forward
  <2> QED BY <1>2, <2>2, <2>3 DEF AdvanceDelivered
<1>3. CASE ~AdvanceSeen(r) /\ ~AdvanceDelivered(r)
  BY <1>3, CallKeepsMarkers, Unmoved
<1> QED BY <1>1, <1>2, <1>3

-----------------------------------------------------------------------------
(* What the rows and the requests in flight hold *)

Types == {"text", "media", "split", SystemType}
Message ==
  [sender: Members, client: ClientIds \cup {NoClientId}, request: Nat \ {0}, type: Types,
   text: {"original", "edited", "tombstone"}, revoked: BOOLEAN, deletedFor: SUBSET Members]
Reservation == [status: {"none", "pending", "completed"}, ids: SUBSET MessageIds]

Previews == {"none", "original", "tombstone"}

\* What a member's row holds.
Marks == [deleted: Nat, hidden: Nat]
MemberRow == [unread: Nat, seen: Nat, delivered: Nat, cutoffs: Marks]
Rows == UNION {[us -> MemberRow] : us \in SUBSET Members}

TablesOK ==
  /\ built \in Nat /\ started \in Nat /\ disturbed \in Nat
  /\ built <= MaxMessages
  /\ messages \in [MessageIds -> Message \cup {NoMessage}]
  /\ reserved \in [Members -> [ClientIds -> Reservation]]
  /\ conv \in [last: Nat, preview: Previews]
  /\ unread \in [Members -> Nat] /\ seen \in [Members -> Nat] /\ delivered \in [Members -> Nat]
  /\ cutoffs \in [Members -> Marks]
  /\ dropped \subseteq [request: Nat \ {0}, sender: Members]

\* A request that writes messages asks for its reservation (Asking), writes
\* (Opening), and lets the other tables follow (Closing).
Asking == {"find", "reserve", "wait"}
Inserts == {"insert", "batch"}
Opening == {"build", "buildBatch"} \cup Inserts
Closing == {"classify", "setLast", "count", "complete", "readRows", "putRows"}
PlainKinds == Asking \cup {"build", "buildBatch"} \cup Closing
TargetKinds == Inserts \cup {"pin", "unpin"}
WriteKinds == PlainKinds \cup TargetKinds
WriteRow == [kind: PlainKinds] \cup [kind: TargetKinds, id: MessageIds]

Write ==
  [todo: Seq(WriteRow), sender: Members, client: ClientIds \cup {NoClientId}, type: Types,
   request: Nat \ {0}, ids: SUBSET MessageIds, left: SUBSET Members, rows: Rows]

\* The other requests, by what is left of them.
Lists == UNION {[ns -> SUBSET Members] : ns \in SUBSET MessageIds}
ActionRow ==
  [kind: {"edit", "checkLast", "setPreview"}, id: MessageIds]
  \cup [kind: {"hide"}, lists: Lists]
  \cup [kind: {"latest", "advanceDelivered"}, user: Members, id: MessageIds]
  \cup [kind: {"advanceSeen"}, user: Members, id: MessageIds, clear: BOOLEAN]
  \cup [kind: {"clear", "conceal"}, user: Members, at: Nat]
ActionTodos ==
  {<<c>> : c \in ActionRow}
  \cup {RevokeCalls(n) : n \in MessageIds}
  \cup {<<[kind |-> "declassify", id |-> n], [kind |-> "checkLast", id |-> n]>> : n \in MessageIds}
Action == [todo: ActionTodos]

Has(t, kinds) == \E i \in DOMAIN t : t[i].kind \in kinds

\* The order of the calls of a request that writes and has built ids.
Order(t, ids) ==
  /\ Len(t) # 0
  /\ Has(t, Asking) => Len(t) = 1
  /\ \A i, j \in DOMAIN t : i < j /\ t[i].kind \in Closing => t[j].kind \in Closing
  /\ \A i, j \in DOMAIN t : t[i].kind = "count" /\ t[j].kind = "count" => i = j
  /\ \A i \in DOMAIN t : t[i].kind \in Inserts => i = 1
  /\ \A i \in DOMAIN t : t[i].kind = "complete" => i = Len(t)
  /\ \A i \in DOMAIN t : t[i].kind = "readRows" => i # Len(t)
  /\ Has(t, Asking \cup Opening) \/ ids # {}
  /\ Has(t, Opening) => Has(t, {"setLast"})

Sound(s) == Order(s.todo, s.ids) /\ s.sender \notin s.left

Writes(r) == slots[r] \in Write /\ Sound(slots[r])

\* What an action changes is there.
Targets(s) ==
  /\ s.todo[1].kind \in {"edit", "tombstone"} => IsStored(s.todo[1].id)
  /\ s.todo[1].kind = "hide" => DOMAIN s.todo[1].lists \subseteq StoredIds

Acts(r) == slots[r] \in Action /\ Targets(slots[r])

SlotsOK ==
  /\ DOMAIN slots = Slots
  /\ \A r \in Slots : slots[r] = Idle \/ Writes(r) \/ Acts(r)

Typed == TablesOK /\ SlotsOK

-----------------------------------------------------------------------------
(* Sent once *)

\* The messages of a sender with a client message id, and the requests that
\* write some: they are past their reservation.
StoredOf(u, k) == {n \in StoredIds : messages[n].sender = u /\ messages[n].client = k}
SendsAs(r, u, k) == Writes(r) /\ slots[r].sender = u /\ slots[r].client = k
Holds(r, u, k) == SendsAs(r, u, k) /\ ~Has(slots[r].todo, Asking)

\* There is one of them, it has the reservation, and everything is its own.
SentOf(u, k) ==
  /\ \A r \in Slots : Holds(r, u, k) =>
       /\ reserved[u][k] # NoReservation
       /\ \A n \in StoredOf(u, k) : messages[n].request = slots[r].request
  /\ \A r, x \in Slots : Holds(r, u, k) /\ Holds(x, u, k) => r = x
  /\ \A r \in Slots : SendsAs(r, u, k) /\ slots[r].todo[1].kind = "reserve" =>
       reserved[u][k] # NoReservation \/ StoredOf(u, k) = {}
  /\ \A m, n \in StoredOf(u, k) : messages[m].request = messages[n].request

SentInv == \A u \in Members, k \in ClientIds : SentOf(u, k)

-----------------------------------------------------------------------------
(* Unread counts *)

Inserting(r) == Doing(r, "insert") \/ Doing(r, "batch")
Target(r) == Call(r).id

\* Requests and messages have numbers of their own.
Numbers ==
  /\ \A n \in StoredIds : n <= built /\ messages[n].request <= started
  /\ \A d \in dropped : d.request <= started
  /\ \A r \in Slots : Writes(r) => slots[r].request <= started
  /\ \A r, x \in Slots : Writes(r) /\ Writes(x) /\ slots[r].request = slots[x].request => r = x
  /\ \A r \in Slots : Inserting(r) => Target(r) <= built /\ Target(r) \notin StoredIds
  /\ \A r, x \in Slots : Inserting(r) /\ Inserting(x) /\ Target(r) = Target(x) => r = x

\* What a request has written is stored, or the database did not take it.
Written(r, n) ==
  \/ IsStored(n) /\ messages[n].request = slots[r].request /\ messages[n].sender = slots[r].sender
  \/ [request |-> slots[r].request, sender |-> slots[r].sender] \in dropped
WrittenInv == \A r \in Slots : Writes(r) => \A n \in slots[r].ids : Written(r, n)

\* The sends of others, and those that have still to be counted for u.
SendsTo(u) ==
  {messages[n].request : n \in {m \in StoredIds : messages[m].sender # u}}
  \cup {d.request : d \in {x \in dropped : x.sender # u}}
Uncounted(r, u) == Writes(r) /\ u \in slots[r].left /\ Has(slots[r].todo, Asking \cup {"count"})
CountedFor(u) == {q \in SendsTo(u) : \A r \in Slots : Uncounted(r, u) => slots[r].request # q}

\* ... which also bounds the counts that are about to be put back.
UnreadInv ==
  /\ \A u \in Members : unread[u] <= Cardinality(CountedFor(u))
  /\ \A r \in Slots : Writes(r) =>
       \A u \in DOMAIN slots[r].rows : slots[r].rows[u].unread <= Cardinality(CountedFor(u))

-----------------------------------------------------------------------------
(* One request at a time, without failures *)

\* The request in flight: Idle, if there is none.
Sole(s) ==
  \/ s = Idle /\ \A r \in Slots : slots[r] = Idle
  \/ \E r \in Slots : slots[r] = s /\ \A y \in Slots : y # r => slots[y] = Idle

IsWrite(s) == s \in Write /\ Sound(s)
AboutToInsert(s, n) == IsWrite(s) /\ s.todo[1].kind \in Inserts /\ s.todo[1].id = n

\* A message is stored as soon as it is built, or about to be.
AllStored(s) == \A n \in MessageIds :
  /\ IsStored(n) <=> n <= built /\ ~AboutToInsert(s, n)
  /\ AboutToInsert(s, n) => n = built

\* A request has stored what it has written, and nobody has revoked it.
Owns(s) ==
  IsWrite(s) =>
    /\ \A n \in s.ids : IsStored(n) /\ ~messages[n].revoked /\ messages[n].request = s.request
    /\ s.ids # {} => built \in s.ids \/ AboutToInsert(s, built)

\* An action has read the message as it still is.
Fresh(s) ==
  s \in Action =>
    /\ s.todo[1].kind = "edit" => ~messages[s.todo[1].id].revoked
    /\ s.todo[1].kind = "setPreview" => conv.last = s.todo[1].id
    /\ s.todo[1].kind = "hide" =>
         \A n \in DOMAIN s.todo[1].lists : messages[n].deletedFor \subseteq s.todo[1].lists[n]

\* What of a revocation is still to come.
Pending(s, n, kinds) ==
  s \in Action /\ \E i \in DOMAIN s.todo : s.todo[i].kind \in kinds /\ s.todo[i].id = n
Revoking(s) == \A n \in MessageIds :
  IsStored(n) /\ messages[n].revoked =>
    /\ messages[n].text = "tombstone"
    /\ n \notin classified \/ Pending(s, n, {"declassify"})
    /\ conv.last = n => conv.preview = "tombstone" \/ Pending(s, n, {"checkLast", "setPreview"})

\* The last message is of the newest send, unless that one has still to set it.
LastFollows(s) ==
  built > 0 /\ ~(IsWrite(s) /\ Has(s.todo, {"setLast"})) =>
    /\ conv.last \in MessageIds /\ IsStored(conv.last)
    /\ messages[conv.last].request = messages[built].request

CalmFor(s) == AllStored(s) /\ Owns(s) /\ Fresh(s) /\ Revoking(s) /\ LastFollows(s)

Calm == \E s \in {Idle} \cup {slots[r] : r \in Slots} : Sole(s) /\ CalmFor(s)

CalmInv == calm => Calm

-----------------------------------------------------------------------------
(* Sequences of calls *)

\* What a sequence holds.
LEMMA Indexes ==
  ASSUME NEW S, NEW s \in Seq(S)
  PROVE  Len(s) \in Nat /\ DOMAIN s = 1..Len(s) /\ \A i \in DOMAIN s : s[i] \in S
OBVIOUS

LEMMA Joined ==
  ASSUME NEW S, NEW s \in Seq(S), NEW t \in Seq(S)
  PROVE  /\ s \o t \in Seq(S)
         /\ Len(s \o t) = Len(s) + Len(t) /\ DOMAIN (s \o t) = 1..Len(s) + Len(t)
         /\ \A i \in DOMAIN s : (s \o t)[i] = s[i]
         /\ \A i \in DOMAIN t : (s \o t)[Len(s) + i] = t[i]
OBVIOUS

LEMMA Tails ==
  ASSUME NEW S, NEW s \in Seq(S), Len(s) # 0
  PROVE  /\ Tail(s) \in Seq(S)
         /\ Head(s) = s[1] /\ s[1] \in S /\ 1 \in DOMAIN s
         /\ Len(Tail(s)) = Len(s) - 1 /\ DOMAIN Tail(s) = 1..Len(s) - 1
         /\ \A i \in 1..Len(s) - 1 : Tail(s)[i] = s[i + 1]
         /\ Tail(s) = <<>> <=> Len(s) = 1
<1>1. /\ Tail(s) \in Seq(S)
      /\ Head(s) = s[1] /\ s[1] \in S /\ 1 \in DOMAIN s
      /\ Len(Tail(s)) = Len(s) - 1 /\ DOMAIN Tail(s) = 1..Len(s) - 1
  OBVIOUS
<1>2. \A i \in 1..Len(s) - 1 : Tail(s)[i] = s[i + 1]
  OBVIOUS
<1>3. Len(s) \in Nat
  OBVIOUS
<1>4. \A x \in Seq(S) : x = <<>> <=> Len(x) = 0
  OBVIOUS
<1>5. Tail(s) = <<>> <=> Len(s) = 1
  BY <1>1, <1>3, <1>4
<1> QED BY <1>1, <1>2, <1>5

\* A sequence with another first element.
LEMMA Replaced ==
  ASSUME NEW S, NEW s \in Seq(S), Len(s) # 0, NEW c \in S
  PROVE  /\ <<c>> \o Tail(s) \in Seq(S) /\ <<c>> \o Tail(s) # <<>>
         /\ Len(<<c>> \o Tail(s)) = Len(s) /\ DOMAIN (<<c>> \o Tail(s)) = 1..Len(s)
         /\ (<<c>> \o Tail(s))[1] = c
         /\ \A i \in 1..Len(s) : i # 1 => (<<c>> \o Tail(s))[i] = s[i]
<1>1. Tail(s) \in Seq(S) /\ Len(Tail(s)) = Len(s) - 1 /\ \A i \in 1..Len(s) - 1 : Tail(s)[i] = s[i + 1]
  BY Tails
<1>2. <<c>> \in Seq(S) /\ Len(<<c>>) = 1 /\ <<c>>[1] = c
  OBVIOUS
<1> QED BY <1>1, <1>2

LEMMA One ==
  ASSUME NEW S, NEW c \in S
  PROVE  <<c>> \in Seq(S) /\ <<c>> # <<>> /\ Len(<<c>>) = 1 /\ DOMAIN <<c>> = {1} /\ <<c>>[1] = c
         /\ Tail(<<c>>) = <<>> /\ Head(<<c>>) = c
OBVIOUS

LEMMA Single ==
  ASSUME NEW S, NEW s \in Seq(S), Len(s) = 1
  PROVE  s = <<s[1]>> /\ Tail(s) = <<>>
<1>1. DOMAIN s = {1} /\ s[1] \in S
  OBVIOUS
<1>2. s \in [{1} -> S]
  BY <1>1
<1>3. <<s[1]>> \in [{1} -> S]
  BY <1>1
<1>4. s = <<s[1]>>
  BY <1>2, <1>3
<1>5. Tail(<<s[1]>>) = <<>>
  OBVIOUS
<1> QED BY <1>4, <1>5

\* Short sequences, joined.
LEMMA Pairs ==
  ASSUME NEW S, NEW a \in S, NEW b \in S, NEW c \in S
  PROVE  /\ <<a>> \o <<b>> = <<a, b>>
         /\ <<a>> \o <<b, c>> = <<a, b, c>>
         /\ <<a, b>> \o <<c>> = <<a, b, c>>
<1>1. \A s, t \in Seq(S) : Len(s) = Len(t) /\ (\A i \in 1..Len(s) : s[i] = t[i]) => s = t
  BY SeqEqual
<1>2. \A s, t \in Seq(S) :
         /\ s \o t \in Seq(S)
         /\ Len(s \o t) = Len(s) + Len(t)
         /\ \A i \in 1..Len(s) : (s \o t)[i] = s[i]
         /\ \A i \in 1..Len(t) : (s \o t)[Len(s) + i] = t[i]
  OBVIOUS
<1>3. <<a>> \in Seq(S) /\ Len(<<a>>) = 1 /\ <<a>>[1] = a /\ <<b>> \in Seq(S) /\ Len(<<b>>) = 1 /\ <<b>>[1] = b
  OBVIOUS
<1>4. /\ <<a, b>> \in Seq(S) /\ Len(<<a, b>>) = 2 /\ <<a, b>>[1] = a /\ <<a, b>>[2] = b
      /\ <<b, c>> \in Seq(S) /\ Len(<<b, c>>) = 2 /\ <<b, c>>[1] = b /\ <<b, c>>[2] = c
  OBVIOUS
<1>5. /\ <<a, b, c>> \in Seq(S) /\ Len(<<a, b, c>>) = 3
      /\ <<a, b, c>>[1] = a /\ <<a, b, c>>[2] = b /\ <<a, b, c>>[3] = c
      /\ <<c>> \in Seq(S) /\ Len(<<c>>) = 1 /\ <<c>>[1] = c
  OBVIOUS
<1>7. <<a>> \o <<b>> = <<a, b>>
  <2>1. PICK x : x = <<a>> \o <<b>>
    OBVIOUS
  <2>2. x \in Seq(S) /\ Len(x) = 2 /\ x[1] = a /\ x[2] = b
    BY <2>1, <1>2, <1>3
  <2>3. \A i \in 1..2 : x[i] = <<a, b>>[i]
    BY <2>2, <1>4
  <2> QED BY <2>1, <2>2, <2>3, <1>1, <1>4
<1>8. <<a>> \o <<b, c>> = <<a, b, c>>
  <2>1. PICK x : x = <<a>> \o <<b, c>>
    OBVIOUS
  <2>2. x \in Seq(S) /\ Len(x) = 3 /\ x[1] = a /\ x[2] = b /\ x[3] = c
    BY <2>1, <1>2, <1>3, <1>4
  <2>3. \A i \in 1..3 : x[i] = <<a, b, c>>[i]
    BY <2>2, <1>5
  <2> QED BY <2>1, <2>2, <2>3, <1>1, <1>5
<1>9. <<a, b>> \o <<c>> = <<a, b, c>>
  <2>1. PICK x : x = <<a, b>> \o <<c>>
    OBVIOUS
  <2>2. x \in Seq(S) /\ Len(x) = 3 /\ x[1] = a /\ x[2] = b /\ x[3] = c
    BY <2>1, <1>2, <1>4, <1>5
  <2>3. \A i \in 1..3 : x[i] = <<a, b, c>>[i]
    BY <2>2, <1>5
  <2> QED BY <2>1, <2>2, <2>3, <1>1, <1>5
<1> QED BY <1>7, <1>8, <1>9

LEMMA Fourth ==
  ASSUME NEW S, NEW a \in S, NEW b \in S, NEW c \in S, NEW d \in S
  PROVE  <<a, b, c>> \o <<d>> = <<a, b, c, d>>
<1>1. \A s, t \in Seq(S) : Len(s) = Len(t) /\ (\A i \in 1..Len(s) : s[i] = t[i]) => s = t
  BY SeqEqual
<1>2. \A s, t \in Seq(S) :
         /\ s \o t \in Seq(S)
         /\ Len(s \o t) = Len(s) + Len(t)
         /\ \A i \in 1..Len(s) : (s \o t)[i] = s[i]
         /\ \A i \in 1..Len(t) : (s \o t)[Len(s) + i] = t[i]
  OBVIOUS
<1>3. /\ <<a, b, c>> \in Seq(S) /\ Len(<<a, b, c>>) = 3
      /\ <<a, b, c>>[1] = a /\ <<a, b, c>>[2] = b /\ <<a, b, c>>[3] = c
      /\ <<c>> \in Seq(S) /\ Len(<<c>>) = 1 /\ <<c>>[1] = c
      /\ <<d>> \in Seq(S) /\ Len(<<d>>) = 1 /\ <<d>>[1] = d
  OBVIOUS
<1>4. /\ <<a, b, c, d>> \in Seq(S) /\ Len(<<a, b, c, d>>) = 4
      /\ <<a, b, c, d>>[1] = a /\ <<a, b, c, d>>[2] = b /\ <<a, b, c, d>>[3] = c /\ <<a, b, c, d>>[4] = d
  OBVIOUS
<1>5. PICK x : x = <<a, b, c>> \o <<d>>
  OBVIOUS
<1>6. x \in Seq(S) /\ Len(x) = 4 /\ x[1] = a /\ x[2] = b /\ x[3] = c /\ x[4] = d
  BY <1>5, <1>2, <1>3
<1>7. \A i \in 1..4 : x[i] = <<a, b, c, d>>[i]
  BY <1>6, <1>4
<1> QED BY <1>5, <1>6, <1>7, <1>1, <1>4

LEMMA TwoAndThree ==
  ASSUME NEW S, NEW a \in S, NEW b \in S, NEW c \in S, NEW d \in S, NEW e \in S
  PROVE  <<a, b>> \o <<c, d, e>> = <<a, b, c, d, e>>
<1>1. \A s, t \in Seq(S) : Len(s) = Len(t) /\ (\A i \in 1..Len(s) : s[i] = t[i]) => s = t
  BY SeqEqual
<1>2. \A s, t \in Seq(S) :
         /\ s \o t \in Seq(S)
         /\ Len(s \o t) = Len(s) + Len(t)
         /\ \A i \in 1..Len(s) : (s \o t)[i] = s[i]
         /\ \A i \in 1..Len(t) : (s \o t)[Len(s) + i] = t[i]
  OBVIOUS
<1>3. /\ <<a, b>> \in Seq(S) /\ Len(<<a, b>>) = 2 /\ <<a, b>>[1] = a /\ <<a, b>>[2] = b
      /\ <<c, d, e>> \in Seq(S) /\ Len(<<c, d, e>>) = 3
      /\ <<c, d, e>>[1] = c /\ <<c, d, e>>[2] = d /\ <<c, d, e>>[3] = e
  OBVIOUS
<1>4. PICK y : y = <<a, b, c, d, e>>
  OBVIOUS
<1>5. y \in Seq(S) /\ Len(y) = 5 /\ y[1] = a /\ y[2] = b /\ y[3] = c /\ y[4] = d /\ y[5] = e
  BY <1>4
<1>6. PICK x : x = <<a, b>> \o <<c, d, e>>
  OBVIOUS
<1>7. x \in Seq(S) /\ Len(x) = 5 /\ x[1] = a /\ x[2] = b /\ x[3] = c /\ x[4] = d /\ x[5] = e
  BY <1>6, <1>2, <1>3
<1>8. \A i \in 1..5 : x[i] = y[i]
  BY <1>5, <1>7
<1> QED BY <1>4, <1>5, <1>6, <1>7, <1>8, <1>1

LEMMA Appended ==
  ASSUME NEW S, NEW s \in Seq(S)
  PROVE  <<>> \o s = s /\ s \o <<>> = s
OBVIOUS

-----------------------------------------------------------------------------
(* The order of the calls is kept *)

LEMMA Kinds ==
  /\ \A c \in WriteRow : c.kind \in WriteKinds
  /\ \A c \in WriteRow : c.kind \in TargetKinds => c.id \in MessageIds
  /\ \A k \in PlainKinds : [kind |-> k] \in WriteRow
  /\ \A k \in TargetKinds, n \in MessageIds : [kind |-> k, id |-> n] \in WriteRow
BY DEF WriteRow, WriteKinds, TargetKinds, PlainKinds, Inserts, Asking, Closing

\* The first call is done; what it has built is ids.
LEMMA OrderOfTail ==
  ASSUME NEW t \in Seq(WriteRow), NEW old, NEW ids, Order(t, old), Len(t) # 1,
         \/ ids # {}
         \/ ids = old /\ t[1].kind \notin Opening
  PROVE  Tail(t) \in Seq(WriteRow) /\ Order(Tail(t), ids)
<1>1. Len(t) # 0 /\ Len(t) \in Nat /\ DOMAIN t = 1..Len(t)
  BY Indexes DEF Order
<1>2. /\ Tail(t) \in Seq(WriteRow)
      /\ Len(Tail(t)) = Len(t) - 1 /\ DOMAIN Tail(t) = 1..Len(t) - 1
      /\ \A i \in 1..Len(t) - 1 : Tail(t)[i] = t[i + 1]
  BY <1>1, Tails
<1> DEFINE u == Tail(t)
<1> HIDE DEF u
<1>3. /\ Len(u) = Len(t) - 1 /\ DOMAIN u = 1..Len(t) - 1
      /\ \A i \in DOMAIN u : u[i] = t[i + 1] /\ i + 1 \in DOMAIN t
  BY <1>1, <1>2 DEF u
<1>4. ~Has(t, Asking)
  BY DEF Order
<1>5. ~Has(u, Asking)
  BY <1>3, <1>4 DEF Has
<1>6. \A i, j \in DOMAIN u : i < j /\ u[i].kind \in Closing => u[j].kind \in Closing
  <2> TAKE i, j \in DOMAIN u
  <2> HAVE i < j /\ u[i].kind \in Closing
  <2>1. i + 1 \in DOMAIN t /\ j + 1 \in DOMAIN t /\ i + 1 < j + 1 /\ u[i] = t[i + 1] /\ u[j] = t[j + 1]
    BY <1>1, <1>3
  <2> QED BY <2>1 DEF Order
<1>7. \A i, j \in DOMAIN u : u[i].kind = "count" /\ u[j].kind = "count" => i = j
  <2> TAKE i, j \in DOMAIN u
  <2> HAVE u[i].kind = "count" /\ u[j].kind = "count"
  <2>1. i + 1 \in DOMAIN t /\ j + 1 \in DOMAIN t /\ u[i] = t[i + 1] /\ u[j] = t[j + 1]
    BY <1>3
  <2>2. i + 1 = j + 1
    BY <2>1 DEF Order
  <2> QED BY <2>2, <1>1, <1>3
<1>8. \A i \in DOMAIN u : u[i].kind \in Inserts => i = 1
  <2> TAKE i \in DOMAIN u
  <2> HAVE u[i].kind \in Inserts
  <2>1. i + 1 \in DOMAIN t /\ u[i] = t[i + 1]
    BY <1>3
  <2>2. i + 1 = 1
    BY <2>1 DEF Order
  <2> QED BY <2>2, <1>1, <1>3
<1>9. Has(u, Asking \cup Opening) \/ ids # {}
  <2> SUFFICES ASSUME ids = old, old = {}, t[1].kind \notin Opening
               PROVE  Has(u, Asking \cup Opening)
    BY DEF Order
  <2>1. Has(t, Asking \cup Opening)
    BY DEF Order
  <2>2. PICK i \in DOMAIN t : t[i].kind \in Opening
    BY <2>1, <1>4 DEF Has
  <2>3. i # 1
    BY <2>2
  <2>4. i - 1 \in DOMAIN u /\ (i - 1) + 1 = i
    BY <2>3, <1>1, <1>3
  <2> QED BY <2>2, <2>4, <1>3 DEF Has
<1>10. ASSUME Has(u, Opening) PROVE Has(u, {"setLast"})
  <2>1. PICK i \in DOMAIN u : u[i].kind \in Opening
    BY <1>10 DEF Has
  <2>2. i + 1 \in DOMAIN t /\ t[i + 1].kind \in Opening /\ 1 \in DOMAIN t /\ 1 < i + 1
    BY <2>1, <1>1, <1>3
  <2>3. PICK j \in DOMAIN t : t[j].kind = "setLast"
    BY <2>2 DEF Has, Order
  <2>4. t[1].kind \notin Closing
    BY <2>2 DEF Order, Closing, Opening, Inserts
  <2>5. j # 1
    BY <2>3, <2>4 DEF Closing
  <2>6. j - 1 \in DOMAIN u /\ (j - 1) + 1 = j
    BY <2>5, <1>1, <1>3
  <2> QED BY <2>3, <2>6, <1>3 DEF Has
<1>11. Len(u) # 0
  BY <1>1, <1>3
<1>12. \A i \in DOMAIN u : u[i].kind = "complete" => i = Len(u)
  <2> TAKE i \in DOMAIN u
  <2> HAVE u[i].kind = "complete"
  <2>1. i + 1 \in DOMAIN t /\ u[i] = t[i + 1]
    BY <1>3
  <2>2. i + 1 = Len(t)
    BY <2>1 DEF Order
  <2> QED BY <2>2, <1>1, <1>3
<1>14. \A i \in DOMAIN u : u[i].kind = "readRows" => i # Len(u)
  <2> TAKE i \in DOMAIN u
  <2> HAVE u[i].kind = "readRows"
  <2>1. i + 1 \in DOMAIN t /\ u[i] = t[i + 1]
    BY <1>3
  <2>2. i + 1 # Len(t)
    BY <2>1 DEF Order
  <2> QED BY <2>2, <1>1, <1>3
<1>13. Order(u, ids)
  BY <1>5, <1>6, <1>7, <1>8, <1>9, <1>10, <1>11, <1>12, <1>14 DEF Order
<1> QED BY <1>2, <1>13 DEF u

\* The message of the first call has been built.
LEMMA OrderOfBuilt ==
  ASSUME NEW t \in Seq(WriteRow), NEW ids, Order(t, ids), t[1].kind \in {"build", "buildBatch"},
         NEW c \in WriteRow, c.kind \in Inserts
  PROVE  <<c>> \o Tail(t) \in Seq(WriteRow) /\ Order(<<c>> \o Tail(t), ids)
<1>1. Len(t) # 0 /\ Len(t) \in Nat /\ DOMAIN t = 1..Len(t)
  BY Indexes DEF Order
<1>2. /\ <<c>> \o Tail(t) \in Seq(WriteRow)
      /\ Len(<<c>> \o Tail(t)) = Len(t) /\ DOMAIN (<<c>> \o Tail(t)) = 1..Len(t)
      /\ (<<c>> \o Tail(t))[1] = c
      /\ \A i \in 1..Len(t) : i # 1 => (<<c>> \o Tail(t))[i] = t[i]
  BY <1>1, Replaced
<1> DEFINE u == <<c>> \o Tail(t)
<1> HIDE DEF u
<1>3. /\ Len(u) = Len(t) /\ DOMAIN u = DOMAIN t
      /\ u[1] = c /\ \A i \in DOMAIN t : i # 1 => u[i] = t[i]
      /\ 1 \in DOMAIN t
  BY <1>1, <1>2 DEF u
<1>4. c.kind \notin Asking /\ c.kind \notin Closing /\ t[1].kind \notin Closing /\ c.kind \in Opening
      /\ t[1].kind \in Opening
  BY DEF Asking, Closing, Inserts, Opening
<1>5. ASSUME Has(u, Asking) PROVE Len(u) = 1
  BY <1>3, <1>4, <1>5 DEF Has, Order
<1>6. \A i, j \in DOMAIN u : i < j /\ u[i].kind \in Closing => u[j].kind \in Closing
  <2> TAKE i, j \in DOMAIN u
  <2> HAVE i < j /\ u[i].kind \in Closing
  <2>1. i # 1 /\ j # 1
    BY <1>1, <1>3, <1>4
  <2>2. u[i] = t[i] /\ u[j] = t[j]
    BY <2>1, <1>3
  <2> QED BY <2>2, <1>3 DEF Order
<1>7. \A i, j \in DOMAIN u : u[i].kind = "count" /\ u[j].kind = "count" => i = j
  <2> TAKE i, j \in DOMAIN u
  <2> HAVE u[i].kind = "count" /\ u[j].kind = "count"
  <2>1. i # 1 /\ j # 1
    BY <1>3, <1>4 DEF Closing
  <2>2. u[i] = t[i] /\ u[j] = t[j]
    BY <2>1, <1>3
  <2> QED BY <2>2, <1>3 DEF Order
<1>8. \A i \in DOMAIN u : u[i].kind \in Inserts => i = 1
  BY <1>3 DEF Order
<1>9. Has(u, Asking \cup Opening)
  BY <1>3, <1>4 DEF Has
<1>10. Has(u, {"setLast"})
  <2>1. PICK j \in DOMAIN t : t[j].kind = "setLast"
    BY <1>3, <1>4 DEF Has, Order
  <2>2. j # 1
    BY <2>1, <1>4 DEF Closing
  <2> QED BY <2>1, <2>2, <1>3 DEF Has
<1>11. \A i \in DOMAIN u : u[i].kind = "complete" => i = Len(u)
  <2> TAKE i \in DOMAIN u
  <2> HAVE u[i].kind = "complete"
  <2>1. i # 1
    BY <1>3, <1>4 DEF Closing
  <2>2. u[i] = t[i]
    BY <2>1, <1>3
  <2> QED BY <2>2, <1>3 DEF Order
<1>13. \A i \in DOMAIN u : u[i].kind = "readRows" => i # Len(u)
  <2> TAKE i \in DOMAIN u
  <2> HAVE u[i].kind = "readRows"
  <2>1. i # 1
    BY <1>3, <1>4 DEF Closing
  <2>2. u[i] = t[i]
    BY <2>1, <1>3
  <2> QED BY <2>2, <1>3 DEF Order
<1>12. Order(u, ids)
  BY <1>1, <1>3, <1>5, <1>6, <1>7, <1>8, <1>9, <1>10, <1>11, <1>13 DEF Order
<1> QED BY <1>2, <1>12 DEF u

\* A request that has not built a message yet: what it writes comes first, and
\* then what follows.
LEMMA OrderOfStart ==
  ASSUME NEW a \in Seq(WriteRow), NEW b \in Seq(WriteRow), NEW ids,
         Has(a, {"build", "buildBatch"}),
         \A i \in DOMAIN a : a[i].kind \in {"build", "buildBatch", "pin", "unpin"},
         \A i \in DOMAIN b : b[i].kind \in Closing,
         Has(b, {"setLast"}),
         \A i, j \in DOMAIN b : b[i].kind = "count" /\ b[j].kind = "count" => i = j,
         \A i \in DOMAIN b : b[i].kind = "complete" => i = Len(b),
         \A i \in DOMAIN b : b[i].kind = "readRows" => i # Len(b)
  PROVE  a \o b \in Seq(WriteRow) /\ Order(a \o b, ids) /\ ~Has(a \o b, Asking)
<1>1. /\ a \o b \in Seq(WriteRow)
      /\ Len(a \o b) = Len(a) + Len(b) /\ DOMAIN (a \o b) = 1..Len(a) + Len(b)
      /\ \A i \in DOMAIN a : (a \o b)[i] = a[i]
      /\ \A i \in DOMAIN b : (a \o b)[Len(a) + i] = b[i]
  BY Joined
<1>2. Len(a) \in Nat /\ DOMAIN a = 1..Len(a) /\ Len(b) \in Nat /\ DOMAIN b = 1..Len(b)
  BY Indexes
<1> DEFINE u == a \o b
<1> HIDE DEF u
<1>3. /\ Len(u) = Len(a) + Len(b) /\ DOMAIN u = 1..Len(a) + Len(b)
      /\ \A i \in DOMAIN a : u[i] = a[i]
      /\ \A i \in DOMAIN b : u[Len(a) + i] = b[i]
  BY <1>1 DEF u
<1>4. ASSUME NEW i \in DOMAIN u
      PROVE  \/ i \in DOMAIN a /\ u[i] = a[i]
             \/ i > Len(a) /\ i - Len(a) \in DOMAIN b /\ u[i] = b[i - Len(a)]
  <2>1. CASE i <= Len(a)
    BY <2>1, <1>2, <1>3
  <2>2. CASE i > Len(a)
    <3>1. i - Len(a) \in DOMAIN b /\ Len(a) + (i - Len(a)) = i
      BY <2>2, <1>2, <1>3
    <3> QED BY <2>2, <3>1, <1>3
  <2> QED BY <2>1, <2>2, <1>2, <1>3
<1>5. \A i \in DOMAIN u : u[i].kind \in Closing <=> i > Len(a)
  <2> TAKE i \in DOMAIN u
  <2>1. CASE i \in DOMAIN a /\ u[i] = a[i]
    BY <2>1, <1>2 DEF Closing
  <2>2. CASE i > Len(a) /\ i - Len(a) \in DOMAIN b /\ u[i] = b[i - Len(a)]
    BY <2>2
  <2> QED BY <2>1, <2>2, <1>4
<1>6. ~Has(u, Asking)
  <2>1. ASSUME NEW i \in DOMAIN u PROVE u[i].kind \notin Asking
    <3>1. CASE i \in DOMAIN a /\ u[i] = a[i]
      BY <3>1 DEF Asking
    <3>2. CASE i - Len(a) \in DOMAIN b /\ u[i] = b[i - Len(a)]
      BY <3>2 DEF Closing, Asking
    <3> QED BY <3>1, <3>2, <1>4
  <2> QED BY <2>1 DEF Has
<1>7. \A i, j \in DOMAIN u : i < j /\ u[i].kind \in Closing => u[j].kind \in Closing
  BY <1>2, <1>3, <1>5
<1>8. \A i, j \in DOMAIN u : u[i].kind = "count" /\ u[j].kind = "count" => i = j
  <2> TAKE i, j \in DOMAIN u
  <2> HAVE u[i].kind = "count" /\ u[j].kind = "count"
  <2>1. i > Len(a) /\ j > Len(a)
    BY <1>5 DEF Closing
  <2>2. i - Len(a) \in DOMAIN b /\ u[i] = b[i - Len(a)] /\ j - Len(a) \in DOMAIN b /\ u[j] = b[j - Len(a)]
    BY <2>1, <1>2, <1>4
  <2>3. i - Len(a) = j - Len(a)
    BY <2>2
  <2> QED BY <2>3, <1>2, <1>3
<1>9. \A i \in DOMAIN u : u[i].kind \in Inserts => i = 1
  <2>1. ASSUME NEW i \in DOMAIN u PROVE u[i].kind \notin Inserts
    <3>1. CASE i \in DOMAIN a /\ u[i] = a[i]
      BY <3>1 DEF Inserts
    <3>2. CASE i - Len(a) \in DOMAIN b /\ u[i] = b[i - Len(a)]
      BY <3>2 DEF Closing, Inserts
    <3> QED BY <3>1, <3>2, <1>4
  <2> QED BY <2>1
<1>10. Has(u, Asking \cup Opening)
  <2>1. PICK i \in DOMAIN a : a[i].kind \in {"build", "buildBatch"}
    BY DEF Has
  <2>2. i \in DOMAIN u /\ u[i].kind \in Asking \cup Opening
    BY <2>1, <1>2, <1>3 DEF Opening
  <2> QED BY <2>2 DEF Has
<1>11. Has(u, {"setLast"})
  <2>1. PICK i \in DOMAIN b : b[i].kind = "setLast"
    BY DEF Has
  <2>2. Len(a) + i \in DOMAIN u /\ u[Len(a) + i].kind = "setLast"
    BY <2>1, <1>2, <1>3
  <2> QED BY <2>2 DEF Has
<1>12. Len(u) # 0
  <2>1. DOMAIN a # {}
    BY DEF Has
  <2> QED BY <2>1, <1>2, <1>3
<1>13. \A i \in DOMAIN u : u[i].kind = "complete" => i = Len(u)
  <2> TAKE i \in DOMAIN u
  <2> HAVE u[i].kind = "complete"
  <2>1. i > Len(a)
    BY <1>5 DEF Closing
  <2>2. i - Len(a) \in DOMAIN b /\ u[i] = b[i - Len(a)]
    BY <2>1, <1>2, <1>4
  <2>3. i - Len(a) = Len(b)
    BY <2>2
  <2> QED BY <2>3, <1>2, <1>3
<1>15. \A i \in DOMAIN u : u[i].kind = "readRows" => i # Len(u)
  <2> TAKE i \in DOMAIN u
  <2> HAVE u[i].kind = "readRows"
  <2>1. i > Len(a)
    BY <1>5 DEF Closing
  <2>2. i - Len(a) \in DOMAIN b /\ u[i] = b[i - Len(a)]
    BY <2>1, <1>2, <1>4
  <2>3. i - Len(a) # Len(b)
    BY <2>2
  <2> QED BY <2>3, <1>2, <1>3
<1>14. Order(u, ids)
  BY <1>6, <1>7, <1>8, <1>9, <1>10, <1>11, <1>12, <1>13, <1>15 DEF Order
<1> QED BY <1>1, <1>6, <1>14 DEF u

\* What a request that writes does in the end, by what it does.
Ending(b) ==
  /\ b \in Seq(WriteRow)
  /\ \A i \in DOMAIN b : b[i].kind \in Closing
  /\ Has(b, {"setLast"})
  /\ \A i, j \in DOMAIN b : b[i].kind = "count" /\ b[j].kind = "count" => i = j
  /\ \A i \in DOMAIN b : b[i].kind = "complete" => i = Len(b)
  /\ \A i \in DOMAIN b : b[i].kind = "readRows" => i # Len(b)

LEMMA Closings ==
  ASSUME NEW type
  PROVE  /\ Ending(<<[kind |-> "setLast"]>>)
         /\ Ending(FollowCalls)
         /\ Ending(ClassifyCalls(type) \o <<[kind |-> "setLast"]>>)
         /\ Ending(ClassifyCalls(type) \o FollowCalls)
         /\ Ending(ClassifyCalls(type) \o FollowCalls \o <<[kind |-> "complete"]>>)
         /\ Ending(<<[kind |-> "setLast"], [kind |-> "readRows"], [kind |-> "putRows"]>>)
<1> DEFINE s == [kind |-> "setLast"]
           c == [kind |-> "count"]
           l == [kind |-> "classify"]
           d == [kind |-> "complete"]
           g == [kind |-> "readRows"]
           p == [kind |-> "putRows"]
<1>1. s \in WriteRow /\ c \in WriteRow /\ l \in WriteRow /\ d \in WriteRow /\ g \in WriteRow /\ p \in WriteRow
  BY Kinds DEF PlainKinds, Closing
<1>2. /\ s.kind = "setLast" /\ c.kind = "count" /\ l.kind = "classify" /\ d.kind = "complete"
      /\ g.kind = "readRows" /\ p.kind = "putRows"
  OBVIOUS
<1>3. FollowCalls = <<s, c>>
  BY DEF FollowCalls
<1>4. ClassifyCalls(type) = <<>> \/ ClassifyCalls(type) = <<l>>
  BY DEF ClassifyCalls
<1> HIDE DEF s, c, l, d, g, p
<1>5. Ending(<<s>>)
  BY <1>1, <1>2 DEF Ending, Has, Closing
<1>6. Ending(<<s, c>>)
  BY <1>1, <1>2 DEF Ending, Has, Closing
<1>7. Ending(<<l, s>>)
  BY <1>1, <1>2 DEF Ending, Has, Closing
<1>8. Ending(<<l, s, c>>)
  BY <1>1, <1>2 DEF Ending, Has, Closing
<1>9. Ending(<<s, c, d>>)
  BY <1>1, <1>2 DEF Ending, Has, Closing
<1>10. Ending(<<l, s, c, d>>)
  BY <1>1, <1>2 DEF Ending, Has, Closing
<1>12. Ending(<<s, g, p>>)
  BY <1>1, <1>2 DEF Ending, Has, Closing
<1>11. /\ <<>> \o <<s>> = <<s>> /\ <<>> \o <<s, c>> = <<s, c>> /\ <<s, c>> \o <<d>> = <<s, c, d>>
       /\ <<l>> \o <<s>> = <<l, s>> /\ <<l>> \o <<s, c>> = <<l, s, c>>
       /\ <<l, s, c>> \o <<d>> = <<l, s, c, d>>
  <2>1. <<>> \o <<s>> = <<s>> /\ <<>> \o <<s, c>> = <<s, c>>
    BY <1>1
  <2>2. <<s, c>> \o <<d>> = <<s, c, d>>
    BY <1>1, Pairs
  <2>3. <<l>> \o <<s>> = <<l, s>>
    BY <1>1, Pairs
  <2>4. <<l>> \o <<s, c>> = <<l, s, c>>
    BY <1>1, Pairs
  <2>5. <<l, s, c>> \o <<d>> = <<l, s, c, d>>
    BY <1>1, Fourth
  <2> QED BY <2>1, <2>2, <2>3, <2>4, <2>5
<1> QED BY <1>3, <1>4, <1>5, <1>6, <1>7, <1>8, <1>9, <1>10, <1>11, <1>12 DEF s, d, g, p

Beginning(a) ==
  /\ a \in Seq(WriteRow)
  /\ Has(a, {"build", "buildBatch"})
  /\ \A i \in DOMAIN a : a[i].kind \in {"build", "buildBatch", "pin", "unpin"}

LEMMA Beginnings ==
  /\ \A type : Beginning(BuildCalls(type))
  /\ Beginning(<<[kind |-> "buildBatch"]>>)
  /\ \A n \in MessageIds, k \in {"pin", "unpin"} :
       Beginning(<<[kind |-> k, id |-> n], [kind |-> "build"]>>)
<1> DEFINE b == [kind |-> "build"]
           f == [kind |-> "buildBatch"]
<1>1. b \in WriteRow /\ f \in WriteRow /\ b.kind = "build" /\ f.kind = "buildBatch"
  BY Kinds DEF PlainKinds
<1>2. \A type : BuildCalls(type) \in {<<b>>, <<b, b>>}
  BY DEF BuildCalls
<1> HIDE DEF b, f
<1>3. Beginning(<<b>>) /\ Beginning(<<b, b>>) /\ Beginning(<<f>>)
  BY <1>1 DEF Beginning, Has
<1>4. ASSUME NEW n \in MessageIds, NEW k \in {"pin", "unpin"}
      PROVE  Beginning(<<[kind |-> k, id |-> n], b>>)
  <2>1. PICK p : p = [kind |-> k, id |-> n]
    OBVIOUS
  <2>2. p \in WriteRow /\ p.kind = k
    BY <2>1, Kinds DEF TargetKinds
  <2>3. Beginning(<<p, b>>)
    BY <1>1, <2>2 DEF Beginning, Has
  <2> QED BY <2>1, <2>3
<1> QED BY <1>2, <1>3, <1>4 DEF b, f

LEMMA BeginAndFollow ==
  ASSUME NEW a, NEW b, Beginning(a), Ending(b), NEW ids
  PROVE  a \o b \in Seq(WriteRow) /\ Order(a \o b, ids) /\ ~Has(a \o b, Asking)
BY OrderOfStart DEF Beginning, Ending

\* What a request that writes has to do when it starts or has its reservation.
StartTodo(t) == t \in Seq(WriteRow) /\ \A ids : Order(t, ids)

LEMMA StartTodos ==
  ASSUME NEW type
  PROVE  /\ StartTodo(WriteCalls(type)) /\ ~Has(WriteCalls(type), Asking)
         /\ StartTodo(WriteCalls(type) \o <<[kind |-> "complete"]>>)
         /\ ~Has(WriteCalls(type) \o <<[kind |-> "complete"]>>, Asking)
         /\ StartTodo(BuildCalls(type) \o ClassifyCalls(type) \o <<[kind |-> "setLast"]>>)
         /\ StartTodo(BuildCalls(type) \o FollowCalls)
         /\ StartTodo(<<[kind |-> "buildBatch"]>> \o ClassifyCalls(type) \o FollowCalls)
<1>1. PICK b, c, f, s, d, e : /\ b = BuildCalls(type) /\ c = ClassifyCalls(type) /\ f = FollowCalls
                              /\ s = <<[kind |-> "setLast"]>> /\ d = <<[kind |-> "complete"]>>
                              /\ e = <<[kind |-> "buildBatch"]>>
  OBVIOUS
<1>2. Beginning(b) /\ Beginning(e)
  BY <1>1, Beginnings
<1>3. Ending(s) /\ Ending(f) /\ Ending(c \o s) /\ Ending(c \o f) /\ Ending(c \o f \o d)
  BY <1>1, Closings
<1>4. b \in Seq(WriteRow) /\ e \in Seq(WriteRow) /\ s \in Seq(WriteRow) /\ f \in Seq(WriteRow)
  BY <1>2, <1>3 DEF Beginning, Ending
<1>5. d \in Seq(WriteRow) /\ c \in Seq(WriteRow)
  <2>1. [kind |-> "complete"] \in WriteRow /\ [kind |-> "classify"] \in WriteRow
    BY Kinds DEF PlainKinds, Closing
  <2>2. d \in Seq(WriteRow)
    BY <2>1, <1>1, One
  <2>3. <<[kind |-> "classify"]>> \in Seq(WriteRow) /\ <<>> \in Seq(WriteRow)
    BY <2>1, One
  <2>4. c = <<>> \/ c = <<[kind |-> "classify"]>>
    BY <1>1 DEF ClassifyCalls
  <2> QED BY <2>2, <2>3, <2>4
<1>6. /\ (b \o c) \o f = b \o (c \o f) /\ (b \o c) \o s = b \o (c \o s) /\ (e \o c) \o f = e \o (c \o f)
      /\ ((b \o c) \o f) \o d = b \o ((c \o f) \o d)
  <2>1. c \o f \in Seq(WriteRow)
    BY <1>4, <1>5
  <2>2. \A x, y, z \in Seq(WriteRow) : (x \o y) \o z = x \o (y \o z)
    BY ConcatAssociative
  <2>3. (b \o c) \o f = b \o (c \o f)
    BY <2>2, <1>4, <1>5, ZenonT(30)
  <2>5. \A x \in Seq(WriteRow) : (b \o x) \o d = b \o (x \o d)
    BY <2>2, <1>4, <1>5, ZenonT(30)
  <2>6. (b \o (c \o f)) \o d = b \o ((c \o f) \o d)
    BY <2>1, <2>5, ZenonT(30)
  <2>4. (b \o c) \o s = b \o (c \o s) /\ (e \o c) \o f = e \o (c \o f)
    BY <2>2, <1>4, <1>5, ZenonT(30)
  <2> QED BY <2>3, <2>4, <2>6
<1>7. \A t : Ending(t) => StartTodo(b \o t) /\ ~Has(b \o t, Asking) /\ StartTodo(e \o t)
  BY <1>2, BeginAndFollow DEF StartTodo
<1>8. WriteCalls(type) = (b \o c) \o f
  BY <1>1 DEF WriteCalls
<1> QED BY <1>1, <1>3, <1>6, <1>7, <1>8

-----------------------------------------------------------------------------
(* Requests in flight *)

ActionKinds == {"edit", "tombstone", "declassify", "checkLast", "setPreview", "hide", "latest",
                "advanceSeen", "advanceDelivered", "clear", "conceal"}

\* What is left of a revocation.
RevokeRest(n) == <<[kind |-> "declassify", id |-> n], [kind |-> "checkLast", id |-> n]>>

LEMMA ActionShapes ==
  ASSUME NEW s \in Action
  PROVE  /\ s = [todo |-> s.todo] /\ s # Idle /\ s.todo # <<>> /\ s.todo[1].kind \in ActionKinds
         /\ Head(s.todo) = s.todo[1]
         /\ \/ s.todo = <<s.todo[1]>> /\ s.todo[1] \in ActionRow
            \/ \E n \in MessageIds : s.todo = RevokeCalls(n) /\ s.todo[1] = [kind |-> "tombstone", id |-> n]
            \/ \E n \in MessageIds : s.todo = RevokeRest(n) /\ s.todo[1] = [kind |-> "declassify", id |-> n]
<1>1. PICK t \in ActionTodos : s = [todo |-> t]
  BY DEF Action
<1>2. s.todo = t /\ s = [todo |-> s.todo]
  BY <1>1
<1>3. CASE \E c \in ActionRow : t = <<c>>
  <2>1. PICK c \in ActionRow : t = <<c>>
    BY <1>3
  <2>2. t[1] = c /\ t # <<>> /\ Head(t) = c
    BY <2>1
  <2>3. c.kind \in ActionKinds
    BY DEF ActionRow, ActionKinds
  <2>4. s # Idle
    BY <1>2, <2>2 DEF Idle
  <2> QED BY <1>2, <2>1, <2>2, <2>3, <2>4
<1>4. CASE \E n \in MessageIds : t = RevokeCalls(n)
  <2>1. PICK n \in MessageIds : t = RevokeCalls(n)
    BY <1>4
  <2>2. PICK c : c = [kind |-> "tombstone", id |-> n]
    OBVIOUS
  <2>3. t[1] = c /\ t # <<>> /\ Head(t) = c
    BY <2>1, <2>2 DEF RevokeCalls
  <2>4. c.kind \in ActionKinds
    BY <2>2 DEF ActionKinds
  <2>5. s # Idle
    BY <1>2, <2>3 DEF Idle
  <2> QED BY <1>2, <2>1, <2>2, <2>3, <2>4, <2>5
<1>5. CASE \E n \in MessageIds : t = RevokeRest(n)
  <2>1. PICK n \in MessageIds : t = RevokeRest(n)
    BY <1>5
  <2>2. PICK c : c = [kind |-> "declassify", id |-> n]
    OBVIOUS
  <2>3. t[1] = c /\ t # <<>> /\ Head(t) = c
    BY <2>1, <2>2 DEF RevokeRest
  <2>4. c.kind \in ActionKinds
    BY <2>2 DEF ActionKinds
  <2>5. s # Idle
    BY <1>2, <2>3 DEF Idle
  <2> QED BY <1>2, <2>1, <2>2, <2>3, <2>4, <2>5
<1> QED BY <1>3, <1>4, <1>5 DEF ActionTodos, RevokeRest

\* A call of a request that writes.
LEMMA WriteShapes ==
  ASSUME NEW s \in Write, Sound(s)
  PROVE  /\ s # Idle /\ Head(s.todo) = s.todo[1] /\ s.todo[1] \in WriteRow
         /\ s.todo \in Seq(WriteRow) /\ Len(s.todo) # 0 /\ Len(s.todo) \in Nat
         /\ DOMAIN s.todo = 1..Len(s.todo) /\ 1 \in DOMAIN s.todo
         /\ s.todo[1].kind \in WriteKinds
         /\ s.ids \in SUBSET MessageIds /\ s.left \in SUBSET Members
         /\ s.sender \in Members /\ s.client \in ClientIds \cup {NoClientId}
         /\ s.request \in Nat \ {0} /\ s.type \in Types /\ s.rows \in Rows
<1>1. /\ s.todo \in Seq(WriteRow)
      /\ s.ids \in SUBSET MessageIds /\ s.left \in SUBSET Members
      /\ s.sender \in Members /\ s.client \in ClientIds \cup {NoClientId}
      /\ s.request \in Nat \ {0} /\ s.type \in Types /\ s.rows \in Rows
  BY DEF Write
<1>2. Len(s.todo) # 0
  BY DEF Sound, Order
<1>3. Head(s.todo) = s.todo[1] /\ s.todo[1] \in WriteRow /\ 1 \in DOMAIN s.todo
  BY <1>1, <1>2, Tails
<1>4. s # Idle
  <2> SUFFICES ASSUME s = Idle PROVE FALSE
    OBVIOUS
  <2>1. s.todo = <<>>
    BY DEF Idle
  <2> QED BY <2>1, <1>2
<1>5. s.todo[1].kind \in WriteKinds
  BY <1>3, Kinds
<1> QED BY <1>1, <1>2, <1>3, <1>4, <1>5, Indexes

\* Which request makes a call of a kind.
LEMMA WhoseCall ==
  ASSUME SlotsOK, NEW r \in Slots, NEW kind, Doing(r, kind)
  PROVE  /\ Call(r) = slots[r].todo[1] /\ Call(r).kind = kind /\ slots[r] # Idle
         /\ kind \in WriteKinds => Writes(r)
         /\ kind \in ActionKinds => Acts(r)
         /\ kind \in WriteKinds \cup ActionKinds
<1>1. slots[r] # Idle /\ Head(slots[r].todo).kind = kind
  BY DEF Doing, Busy
<1>2. WriteKinds \cap ActionKinds = {}
  BY DEF WriteKinds, ActionKinds, PlainKinds, TargetKinds, Inserts, Asking, Closing
<1>3. CASE Writes(r)
  BY <1>1, <1>2, <1>3, WriteShapes DEF Writes, Call
<1>4. CASE Acts(r)
  BY <1>1, <1>2, <1>4, ActionShapes DEF Acts, Call
<1> QED BY <1>1, <1>3, <1>4 DEF SlotsOK

\* The shape of what is left when a request makes a call of a kind.
LEMMA WriterOf ==
  ASSUME SlotsOK, NEW r \in Slots, NEW kind \in WriteKinds, Doing(r, kind)
  PROVE  Writes(r) /\ slots[r] \in Write /\ Sound(slots[r]) /\ Call(r) = slots[r].todo[1] /\ slots[r].todo[1].kind = kind
BY WhoseCall DEF Writes

LEMMA ActorOf ==
  ASSUME SlotsOK, NEW r \in Slots, NEW kind \in ActionKinds, Doing(r, kind)
  PROVE  /\ Acts(r) /\ slots[r] \in Action /\ Call(r) = slots[r].todo[1] /\ slots[r].todo[1].kind = kind
         /\ slots[r] = [todo |-> slots[r].todo]
         /\ kind = "tombstone" => Call(r).id \in MessageIds /\ slots[r].todo = RevokeCalls(Call(r).id)
         /\ kind = "declassify" => Call(r).id \in MessageIds /\ slots[r].todo = RevokeRest(Call(r).id)
         /\ kind \notin {"tombstone", "declassify"} => Call(r) \in ActionRow /\ slots[r].todo = <<Call(r)>>
<1>1. Acts(r) /\ slots[r] \in Action /\ Call(r) = slots[r].todo[1] /\ slots[r].todo[1].kind = kind
  BY WhoseCall DEF Acts
<1>2. /\ slots[r] = [todo |-> slots[r].todo]
      /\ \/ slots[r].todo = <<slots[r].todo[1]>> /\ slots[r].todo[1] \in ActionRow
         \/ \E n \in MessageIds : slots[r].todo = RevokeCalls(n) /\ slots[r].todo[1] = [kind |-> "tombstone", id |-> n]
         \/ \E n \in MessageIds : slots[r].todo = RevokeRest(n) /\ slots[r].todo[1] = [kind |-> "declassify", id |-> n]
  BY <1>1, ActionShapes
<1>3. CASE slots[r].todo = <<slots[r].todo[1]>> /\ slots[r].todo[1] \in ActionRow
  <2>1. kind \notin {"tombstone", "declassify"}
    BY <1>1, <1>3 DEF ActionRow
  <2> QED BY <1>1, <1>2, <1>3, <2>1
<1>4. CASE \E n \in MessageIds : slots[r].todo = RevokeCalls(n) /\ slots[r].todo[1] = [kind |-> "tombstone", id |-> n]
  <2>1. PICK n \in MessageIds : slots[r].todo = RevokeCalls(n) /\ slots[r].todo[1] = [kind |-> "tombstone", id |-> n]
    BY <1>4
  <2>2. Call(r).id = n /\ kind = "tombstone"
    BY <2>1, <1>1
  <2> QED BY <1>1, <1>2, <2>1, <2>2
<1>5. CASE \E n \in MessageIds : slots[r].todo = RevokeRest(n) /\ slots[r].todo[1] = [kind |-> "declassify", id |-> n]
  <2>1. PICK n \in MessageIds : slots[r].todo = RevokeRest(n) /\ slots[r].todo[1] = [kind |-> "declassify", id |-> n]
    BY <1>5
  <2>2. Call(r).id = n /\ kind = "declassify"
    BY <2>1, <1>1
  <2> QED BY <1>1, <1>2, <2>1, <2>2
<1> QED BY <1>2, <1>3, <1>4, <1>5

-----------------------------------------------------------------------------
(* What a call makes of its request *)

With(s, t) == [s EXCEPT !.todo = t]

\* What is left of a request when its call has returned.
Rest(s) == IF Len(s.todo) = 1 THEN Idle ELSE With(s, Tail(s.todo))

\* Rows that have not been put back yet, or were read just now.
KeepsRows(s, x) ==
  \A u \in DOMAIN x.rows : x.rows[u] = Row(u) \/ (u \in DOMAIN s.rows /\ x.rows[u] = s.rows[u])

\* The same request, further on.
Continues(s, x) ==
  /\ x \in Write /\ Sound(x)
  /\ x.sender = s.sender /\ x.client = s.client /\ x.request = s.request /\ x.type = s.type
  /\ x.left \subseteq s.left
  /\ KeepsRows(s, x)

Becomes(r, x) == slots' = [slots EXCEPT ![r] = x]

LEMMA WithTodo ==
  ASSUME NEW s \in Write, Sound(s), NEW t \in Seq(WriteRow), Order(t, s.ids)
  PROVE  /\ Continues(s, With(s, t)) /\ With(s, t).todo = t /\ With(s, t).ids = s.ids
         /\ With(s, t).left = s.left
<1>1. PICK x : x = With(s, t)
  OBVIOUS
<1>2. x \in Write /\ x.todo = t /\ x.ids = s.ids /\ x.left = s.left /\ x.sender = s.sender /\ x.client = s.client
      /\ x.request = s.request /\ x.type = s.type /\ x.rows = s.rows
  BY <1>1 DEF With, Write
<1>3. Sound(x)
  BY <1>2 DEF Sound
<1> QED BY <1>1, <1>2, <1>3 DEF Continues, KeepsRows

LEMMA RestContinues ==
  ASSUME NEW s \in Write, Sound(s), s.todo[1].kind \notin Opening, Len(s.todo) # 1
  PROVE  /\ Rest(s) = With(s, Tail(s.todo)) /\ Continues(s, Rest(s))
         /\ Rest(s).todo = Tail(s.todo) /\ Rest(s).ids = s.ids /\ Rest(s).left = s.left
<1>1. s.todo \in Seq(WriteRow) /\ Order(s.todo, s.ids)
  BY WriteShapes DEF Sound
<1>2. Tail(s.todo) \in Seq(WriteRow) /\ Order(Tail(s.todo), s.ids)
  BY <1>1, OrderOfTail
<1> QED BY <1>2, WithTodo DEF Rest

\* What the call of the first element leaves if it builds nothing new.
LEMMA WriterProceeds ==
  ASSUME SlotsOK, NEW r \in Slots, Writes(r), slots[r].todo[1].kind \notin Opening, Proceed(r, <<>>)
  PROVE  /\ Becomes(r, Rest(slots[r]))
         /\ Rest(slots[r]) = Idle \/ Continues(slots[r], Rest(slots[r]))
         /\ started' = started /\ disturbed' = disturbed /\ dropped' = dropped
<1>1. slots[r] \in Write /\ Sound(slots[r])
  BY DEF Writes
<1>2. PICK s : s = slots[r]
  OBVIOUS
<1>3. s.todo \in Seq(WriteRow) /\ Len(s.todo) # 0
  BY <1>1, <1>2, WriteShapes
<1>4. Tail(s.todo) \in Seq(WriteRow) /\ (Tail(s.todo) = <<>> <=> Len(s.todo) = 1)
  BY <1>3, Tails
<1>5. <<>> \o Tail(s.todo) = Tail(s.todo)
  BY <1>4, Appended
<1>6. slots' = [slots EXCEPT ![r] = IF Tail(s.todo) = <<>> THEN Idle ELSE [s EXCEPT !.todo = Tail(s.todo)]]
  BY <1>2, <1>5 DEF Proceed
<1>7. Becomes(r, Rest(s))
  BY <1>4, <1>6 DEF Rest, With, Becomes
<1>8. Rest(s) = Idle \/ Continues(s, Rest(s))
  BY <1>1, <1>2, RestContinues DEF Rest
<1>9. started' = started /\ disturbed' = disturbed /\ dropped' = dropped
  BY DEF Proceed
<1> QED BY <1>2, <1>7, <1>8, <1>9

\* ... and if it is replaced.
LEMMA WriterReplaces ==
  ASSUME SlotsOK, NEW r \in Slots, Writes(r), NEW c \in WriteRow, Proceed(r, <<c>>)
  PROVE  /\ Becomes(r, With(slots[r], <<c>> \o Tail(slots[r].todo)))
         /\ started' = started /\ disturbed' = disturbed /\ dropped' = dropped
<1>1. slots[r].todo \in Seq(WriteRow) /\ Len(slots[r].todo) # 0
  BY WriteShapes DEF Writes
<1>2. <<c>> \o Tail(slots[r].todo) # <<>>
  BY <1>1, Replaced
<1> QED BY <1>2 DEF Proceed, Becomes, With

\* A request that asks for its reservation has nothing else to do yet.
LEMMA AsksAlone ==
  ASSUME NEW s \in Write, Sound(s), s.todo[1].kind \in Asking
  PROVE  s.todo = <<s.todo[1]>> /\ Len(s.todo) = 1 /\ Tail(s.todo) = <<>> /\ Rest(s) = Idle /\ Has(s.todo, Asking)
<1>1. s.todo \in Seq(WriteRow) /\ 1 \in DOMAIN s.todo
  BY WriteShapes
<1>2. Has(s.todo, Asking)
  BY <1>1 DEF Has
<1>3. Len(s.todo) = 1
  BY <1>2 DEF Sound, Order
<1> QED BY <1>1, <1>2, <1>3, Single DEF Rest

LEMMA OrderOfAsking ==
  ASSUME NEW kind \in Asking, NEW ids
  PROVE  <<[kind |-> kind]>> \in Seq(WriteRow) /\ Order(<<[kind |-> kind]>>, ids) /\ Has(<<[kind |-> kind]>>, Asking)
<1>1. PICK c : c = [kind |-> kind]
  OBVIOUS
<1>2. c \in WriteRow /\ c.kind = kind
  BY <1>1, Kinds DEF PlainKinds
<1>3. PICK t : t = <<c>>
  OBVIOUS
<1>4. t \in Seq(WriteRow) /\ Len(t) = 1 /\ DOMAIN t = {1} /\ t[1] = c
  BY <1>2, <1>3
<1>5. kind \notin Opening /\ kind \notin Closing /\ kind \notin Inserts /\ kind \notin {"count", "readRows"}
  BY DEF Asking, Opening, Closing, Inserts
<1>6. Order(t, ids) /\ Has(t, Asking)
  BY <1>2, <1>4, <1>5 DEF Order, Has
<1> QED BY <1>1, <1>3, <1>4, <1>6

\* Only the request of one slot changes.
LEMMA OneSlot ==
  ASSUME SlotsOK, NEW r \in Slots, NEW x, Becomes(r, x), StoredIds \subseteq StoredIds',
         \/ x = Idle
         \/ x \in Write /\ Sound(x)
         \/ x \in Action /\ Targets(x)'
  PROVE  SlotsOK' /\ slots'[r] = x /\ \A y \in Slots : y # r => slots'[y] = slots[y]
<1>1. DOMAIN slots' = Slots /\ slots'[r] = x /\ \A y \in Slots : y # r => slots'[y] = slots[y]
  BY DEF SlotsOK, Becomes
<1>2. ASSUME NEW y \in Slots PROVE slots'[y] = Idle \/ Writes(y)' \/ Acts(y)'
  <2>1. CASE y = r
    BY <1>1, <2>1 DEF Writes, Acts
  <2>2. CASE y # r
    <3>1. slots'[y] = slots[y]
      BY <1>1, <2>2
    <3>2. CASE slots[y] = Idle \/ Writes(y)
      BY <3>1, <3>2 DEF Writes
    <3>3. CASE Acts(y)
      <4>1. slots[y] \in Action /\ Targets(slots[y])
        BY <3>3 DEF Acts
      <4>2. PICK s : s = slots[y]
        OBVIOUS
      <4>3. \A n : n \in StoredIds => n \in StoredIds'
        OBVIOUS
      <4>4. /\ s.todo[1].kind \in {"edit", "tombstone"} => s.todo[1].id \in MessageIds
            /\ s.todo[1].kind = "hide" => DOMAIN s.todo[1].lists \subseteq MessageIds
        <5>1. s \in Action
          BY <4>1, <4>2
        <5>2. CASE s.todo[1] \in ActionRow
          BY <5>2 DEF ActionRow, Lists
        <5>3. CASE \E n \in MessageIds : s.todo[1] = [kind |-> "tombstone", id |-> n]
          BY <5>3
        <5>4. CASE \E n \in MessageIds : s.todo[1] = [kind |-> "declassify", id |-> n]
          BY <5>4
        <5> QED BY <5>1, <5>2, <5>3, <5>4, ActionShapes
      <4>5. Targets(s)'
        BY <4>1, <4>2, <4>3, <4>4 DEF Targets, StoredIds
      <4> QED BY <3>1, <4>1, <4>2, <4>5 DEF Acts
    <3> QED BY <3>2, <3>3 DEF SlotsOK
  <2> QED BY <2>1, <2>2
<1> QED BY <1>1, <1>2 DEF SlotsOK

-----------------------------------------------------------------------------
(* What each call of a request that writes does *)

Counters == <<started, disturbed, dropped>>

LEMMA FindEffect ==
  ASSUME SlotsOK, NEW r \in Slots, FindClientMessages(r)
  PROVE  /\ Writes(r) /\ Has(slots[r].todo, Asking)
         /\ \E kind \in {"wait", "reserve"} :
              /\ Becomes(r, With(slots[r], <<[kind |-> kind]>>))
              /\ Continues(slots[r], With(slots[r], <<[kind |-> kind]>>))
              /\ kind = "reserve" => FindByClientMessageId(slots[r].sender, slots[r].client) = {}
         /\ UNCHANGED <<built, tables, Counters>>
<1>1. Writes(r) /\ slots[r] \in Write /\ Sound(slots[r]) /\ slots[r].todo[1].kind = "find"
  BY WriterOf DEF FindClientMessages, WriteKinds, PlainKinds, Asking
<1>2. Has(slots[r].todo, Asking) /\ Tail(slots[r].todo) = <<>>
  BY <1>1, AsksAlone DEF Asking
<1>3. PICK kind \in {"wait", "reserve"} :
        /\ kind = "reserve" => FindByClientMessageId(slots[r].sender, slots[r].client) = {}
        /\ Proceed(r, <<[kind |-> kind]>>)
  <2>1. CASE FindByClientMessageId(slots[r].sender, slots[r].client) # {}
    BY <2>1 DEF FindClientMessages
  <2>2. CASE FindByClientMessageId(slots[r].sender, slots[r].client) = {}
    BY <2>2 DEF FindClientMessages
  <2> QED BY <2>1, <2>2
<1>4. [kind |-> kind] \in WriteRow /\ kind \in Asking
  BY Kinds DEF PlainKinds, Asking
<1>5. <<[kind |-> kind]>> \o <<>> = <<[kind |-> kind]>>
  BY <1>4, One, Appended
<1>6. Becomes(r, With(slots[r], <<[kind |-> kind]>>)) /\ UNCHANGED Counters
  BY <1>1, <1>2, <1>3, <1>4, <1>5, WriterReplaces DEF Counters
<1>7. Continues(slots[r], With(slots[r], <<[kind |-> kind]>>))
  BY <1>1, <1>4, OrderOfAsking, WithTodo
<1>8. UNCHANGED <<built, tables>>
  BY DEF FindClientMessages
<1> QED BY <1>1, <1>2, <1>3, <1>6, <1>7, <1>8

LEMMA ReserveEffect ==
  ASSUME SlotsOK, NEW r \in Slots, ReserveClientMessage(r)
  PROVE  /\ Writes(r) /\ Doing(r, "reserve") /\ Has(slots[r].todo, Asking)
         /\ \/ LET t == WriteCalls(slots[r].type) \o <<[kind |-> "complete"]>>
               IN /\ reserved[slots[r].sender][slots[r].client] = NoReservation
                  /\ reserved' = [reserved EXCEPT ![slots[r].sender][slots[r].client].status = "pending"]
                  /\ Becomes(r, With(slots[r], t))
                  /\ Continues(slots[r], With(slots[r], t)) /\ With(slots[r], t).todo = t
            \/ /\ reserved' = reserved
               /\ Becomes(r, With(slots[r], <<[kind |-> "wait"]>>))
               /\ Continues(slots[r], With(slots[r], <<[kind |-> "wait"]>>))
         /\ UNCHANGED <<built, messages, conv, pinned, classified, markers, Counters>>
<1>1. Writes(r) /\ slots[r] \in Write /\ Sound(slots[r]) /\ slots[r].todo[1].kind = "reserve"
  BY WriterOf DEF ReserveClientMessage, WriteKinds, PlainKinds, Asking
<1>2. Has(slots[r].todo, Asking) /\ Tail(slots[r].todo) = <<>>
  BY <1>1, AsksAlone DEF Asking
<1>3. PICK t : t = WriteCalls(slots[r].type) \o <<[kind |-> "complete"]>>
  OBVIOUS
<1>4. t \in Seq(WriteRow) /\ Order(t, slots[r].ids) /\ t # <<>>
  <2>1. StartTodo(t)
    BY <1>3, StartTodos
  <2>2. Len(t) # 0
    BY <2>1 DEF StartTodo, Order
  <2> QED BY <2>1, <2>2 DEF StartTodo
<1>5. Continues(slots[r], With(slots[r], t)) /\ With(slots[r], t).todo = t
  BY <1>1, <1>4, WithTodo
<1>6. UNCHANGED <<built, messages, conv, pinned, classified, markers>>
  BY DEF ReserveClientMessage
<1>7. CASE reserved[slots[r].sender][slots[r].client] = NoReservation
  <2>1. /\ reserved' = [reserved EXCEPT ![slots[r].sender][slots[r].client].status = "pending"]
        /\ Proceed(r, t)
    BY <1>3, <1>7 DEF ReserveClientMessage
  <2>2. t \o <<>> = t
    BY <1>4, Appended
  <2>3. Becomes(r, With(slots[r], t)) /\ UNCHANGED Counters
    BY <1>2, <1>4, <2>1, <2>2 DEF Proceed, Becomes, With, Counters
  <2>4. Doing(r, "reserve")
    BY DEF ReserveClientMessage
  <2> QED BY <1>1, <1>2, <1>3, <1>5, <1>6, <1>7, <2>1, <2>3, <2>4
<1>8. CASE reserved[slots[r].sender][slots[r].client] # NoReservation
  <2>1. reserved' = reserved /\ Proceed(r, <<[kind |-> "wait"]>>)
    BY <1>8 DEF ReserveClientMessage
  <2>2. [kind |-> "wait"] \in WriteRow /\ "wait" \in Asking
    BY Kinds DEF PlainKinds, Asking
  <2>3. <<[kind |-> "wait"]>> \o <<>> = <<[kind |-> "wait"]>>
    BY <2>2, One, Appended
  <2>4. Becomes(r, With(slots[r], <<[kind |-> "wait"]>>)) /\ UNCHANGED Counters
    BY <1>1, <1>2, <2>1, <2>2, <2>3, WriterReplaces DEF Counters
  <2>5. Continues(slots[r], With(slots[r], <<[kind |-> "wait"]>>))
    BY <1>1, <2>2, OrderOfAsking, WithTodo
  <2>6. Doing(r, "reserve")
    BY DEF ReserveClientMessage
  <2> QED BY <1>1, <1>2, <1>6, <2>1, <2>4, <2>5, <2>6
<1> QED BY <1>7, <1>8

LEMMA WaitEffect ==
  ASSUME SlotsOK, NEW r \in Slots, WaitForClientMessages(r) \/ GiveUpWaiting(r)
  PROVE  Writes(r) /\ Becomes(r, Idle) /\ UNCHANGED <<built, tables, Counters>>
<1>1. Writes(r) /\ slots[r] \in Write /\ Sound(slots[r]) /\ slots[r].todo[1].kind = "wait"
  BY WriterOf DEF WaitForClientMessages, GiveUpWaiting, WriteKinds, PlainKinds, Asking
<1>2. Rest(slots[r]) = Idle /\ slots[r].todo[1].kind \notin Opening
  BY <1>1, AsksAlone DEF Asking, Opening, Inserts
<1>3. CASE WaitForClientMessages(r)
  BY <1>1, <1>2, <1>3, WriterProceeds DEF WaitForClientMessages, Counters
<1>4. CASE GiveUpWaiting(r)
  BY <1>1, <1>4 DEF GiveUpWaiting, Throw, Becomes, Counters
<1> QED BY <1>3, <1>4

LEMMA BuildEffect ==
  ASSUME SlotsOK, NEW r \in Slots, BuildMessage(r), built \in Nat
  PROVE  /\ Writes(r) /\ slots[r].todo[1].kind \in {"build", "buildBatch"}
         /\ built < MaxMessages /\ built' = built + 1
         /\ \E c \in WriteRow :
              LET t == <<c>> \o Tail(slots[r].todo)
              IN /\ c.kind \in Inserts /\ c.id = built + 1 /\ built + 1 \in MessageIds
                 /\ Becomes(r, With(slots[r], t))
                 /\ Continues(slots[r], With(slots[r], t))
                 /\ With(slots[r], t).todo = t /\ With(slots[r], t).ids = slots[r].ids
                 /\ With(slots[r], t).left = slots[r].left
         /\ UNCHANGED <<tables, Counters>>
<1>1. PICK kind \in {"build", "buildBatch"} : Doing(r, kind)
  BY DEF BuildMessage
<1>2. Writes(r) /\ slots[r] \in Write /\ Sound(slots[r]) /\ slots[r].todo[1].kind = kind
  BY <1>1, WriterOf DEF WriteKinds, PlainKinds
<1>3. built < MaxMessages /\ built' = built + 1 /\ UNCHANGED tables
  BY DEF BuildMessage
<1>4. PICK c : /\ c = [kind |-> IF Doing(r, "build") THEN "insert" ELSE "batch", id |-> built + 1]
               /\ Proceed(r, <<c>>)
  BY DEF BuildMessage
<1>5. built + 1 \in MessageIds
  BY <1>3, MessagingAssumption DEF MessageIds
<1>6. c \in WriteRow /\ c.kind \in Inserts /\ c.id = built + 1
  BY <1>4, <1>5, Kinds DEF TargetKinds, Inserts
<1>7. Becomes(r, With(slots[r], <<c>> \o Tail(slots[r].todo))) /\ UNCHANGED Counters
  BY <1>2, <1>4, <1>6, WriterReplaces DEF Counters
<1>8. slots[r].todo \in Seq(WriteRow) /\ Order(slots[r].todo, slots[r].ids)
  BY <1>2, WriteShapes DEF Sound
<1>9. PICK t : t = <<c>> \o Tail(slots[r].todo)
  OBVIOUS
<1>10. t \in Seq(WriteRow) /\ Order(t, slots[r].ids)
  BY <1>2, <1>6, <1>8, <1>9, OrderOfBuilt
<1>11. /\ Continues(slots[r], With(slots[r], t)) /\ With(slots[r], t).todo = t
       /\ With(slots[r], t).ids = slots[r].ids /\ With(slots[r], t).left = slots[r].left
  BY <1>2, <1>10, WithTodo
<1> QED BY <1>2, <1>3, <1>5, <1>6, <1>7, <1>9, <1>11

\* A message has been inserted, or lost.
Inserted(s, new) == [s EXCEPT !.todo = Tail(s.todo), !.ids = new]

LEMMA InsertedContinues ==
  ASSUME NEW s \in Write, Sound(s), s.todo[1].kind \in Inserts, NEW new \in SUBSET MessageIds, new # {}
  PROVE  /\ Continues(s, Inserted(s, new))
         /\ Inserted(s, new).todo = Tail(s.todo) /\ Inserted(s, new).ids = new
         /\ Inserted(s, new).left = s.left /\ Len(s.todo) # 1
<1>1. s.todo \in Seq(WriteRow) /\ Order(s.todo, s.ids) /\ Len(s.todo) \in Nat /\ 1 \in DOMAIN s.todo
      /\ DOMAIN s.todo = 1..Len(s.todo)
  BY WriteShapes DEF Sound
<1>2. Has(s.todo, {"setLast"})
  <2>1. Has(s.todo, Opening)
    BY <1>1 DEF Has, Opening
  <2> QED BY <2>1, <1>1 DEF Order
<1>3. Len(s.todo) # 1
  <2>1. PICK i \in DOMAIN s.todo : s.todo[i].kind = "setLast"
    BY <1>2 DEF Has
  <2>2. i # 1
    BY <2>1 DEF Inserts
  <2> QED BY <2>1, <2>2, <1>1
<1>4. Tail(s.todo) \in Seq(WriteRow) /\ Order(Tail(s.todo), new)
  BY <1>1, <1>3, OrderOfTail
<1>5. PICK x : x = Inserted(s, new)
  OBVIOUS
<1>6. x \in Write /\ x.todo = Tail(s.todo) /\ x.ids = new /\ x.left = s.left /\ x.sender = s.sender
      /\ x.client = s.client /\ x.request = s.request /\ x.type = s.type /\ x.rows = s.rows
  BY <1>4, <1>5 DEF Inserted, Write
<1>7. Sound(x)
  BY <1>4, <1>6 DEF Sound
<1> QED BY <1>3, <1>5, <1>6, <1>7 DEF Continues, KeepsRows

LEMMA InsertEffect ==
  ASSUME SlotsOK, NEW r \in Slots, InsertMessage(r)
  PROVE  LET n == Call(r).id
             s == slots[r]
             x == Inserted(s, s.ids \cup {n})
         IN /\ Writes(r) /\ Inserting(r) /\ s.todo[1].kind \in Inserts /\ n = s.todo[1].id /\ n \in MessageIds
            /\ messages' = [messages EXCEPT ![n] =
                 [sender |-> s.sender, client |-> s.client, request |-> s.request, type |-> s.type,
                  text |-> "original", revoked |-> FALSE, deletedFor |-> {}]]
            /\ Becomes(r, x) /\ Continues(s, x)
            /\ x.todo = Tail(s.todo) /\ x.ids = s.ids \cup {n} /\ x.left = s.left
            /\ UNCHANGED <<built, reserved, conv, pinned, classified, markers, Counters>>
<1>1. PICK kind \in Inserts : Doing(r, kind)
  BY DEF InsertMessage, Inserts
<1>2. PICK s : s = slots[r]
  OBVIOUS
<1>3. Writes(r) /\ s \in Write /\ Sound(s) /\ s.todo[1].kind = kind /\ Call(r) = s.todo[1]
  BY <1>1, <1>2, WriterOf DEF WriteKinds, TargetKinds
<1>4. PICK n : n = s.todo[1].id
  OBVIOUS
<1>5. n \in MessageIds
  BY <1>3, <1>4, WriteShapes, Kinds DEF TargetKinds
<1>6. s.ids \cup {n} \in SUBSET MessageIds
  BY <1>3, <1>5, WriteShapes
<1>7. /\ Continues(s, Inserted(s, s.ids \cup {n}))
      /\ Inserted(s, s.ids \cup {n}).todo = Tail(s.todo) /\ Inserted(s, s.ids \cup {n}).ids = s.ids \cup {n}
      /\ Inserted(s, s.ids \cup {n}).left = s.left
  BY <1>3, <1>6, InsertedContinues
<1>8. /\ Becomes(r, Inserted(s, s.ids \cup {n}))
      /\ messages' = [messages EXCEPT ![n] =
                 [sender |-> s.sender, client |-> s.client, request |-> s.request, type |-> s.type,
                  text |-> "original", revoked |-> FALSE, deletedFor |-> {}]]
      /\ UNCHANGED <<built, reserved, conv, pinned, classified, markers, Counters>>
  BY <1>2, <1>3, <1>4 DEF InsertMessage, Becomes, Inserted, Counters
<1>9. Inserting(r)
  BY DEF InsertMessage, Inserting
<1> QED BY <1>2, <1>3, <1>4, <1>5, <1>7, <1>8, <1>9

LEMMA DropEffect ==
  ASSUME SlotsOK, NEW r \in Slots, DropUnprocessed(r)
  PROVE  LET n == Call(r).id
             s == slots[r]
             x == Inserted(s, {n})
         IN /\ Writes(r) /\ s.todo[1].kind \in Inserts /\ n \in MessageIds
            /\ dropped' = dropped \cup {[request |-> s.request, sender |-> s.sender]}
            /\ Becomes(r, x) /\ Continues(s, x)
            /\ x.todo = Tail(s.todo) /\ x.ids = {n} /\ x.left = s.left
            /\ disturbed' = disturbed + 1
            /\ UNCHANGED <<built, tables, started>>
<1>1. Doing(r, "batch")
  BY DEF DropUnprocessed
<1>2. PICK s : s = slots[r]
  OBVIOUS
<1>3. Writes(r) /\ s \in Write /\ Sound(s) /\ s.todo[1].kind = "batch" /\ Call(r) = s.todo[1]
  BY <1>1, <1>2, WriterOf DEF WriteKinds, TargetKinds, Inserts
<1>4. PICK n : n = s.todo[1].id
  OBVIOUS
<1>5. n \in MessageIds
  BY <1>3, <1>4, WriteShapes, Kinds DEF TargetKinds, Inserts
<1>6. {n} \in SUBSET MessageIds
  BY <1>5
<1>7. /\ Continues(s, Inserted(s, {n}))
      /\ Inserted(s, {n}).todo = Tail(s.todo) /\ Inserted(s, {n}).ids = {n}
      /\ Inserted(s, {n}).left = s.left
  BY <1>3, <1>6, InsertedContinues DEF Inserts
<1>8. /\ Becomes(r, Inserted(s, {n}))
      /\ dropped' = dropped \cup {[request |-> s.request, sender |-> s.sender]}
      /\ disturbed' = disturbed + 1
      /\ UNCHANGED <<built, tables, started>>
  <2>1. Call(r).id = n
    BY <1>3, <1>4
  <2>2. Becomes(r, Inserted(s, {n}))
    BY <1>2, <2>1 DEF DropUnprocessed, Becomes, Inserted
  <2>3. dropped' = dropped \cup {[request |-> s.request, sender |-> s.sender]}
    BY <1>2 DEF DropUnprocessed
  <2>4. disturbed' = disturbed + 1 /\ UNCHANGED <<built, tables, started>>
    BY DEF DropUnprocessed, Disturb
  <2> QED BY <2>2, <2>3, <2>4
<1> QED BY <1>2, <1>3, <1>4, <1>5, <1>7, <1>8 DEF Inserts

\* The calls after which the request just goes on.
GoesOn(r) ==
  /\ Writes(r) /\ slots[r].todo[1].kind \notin Opening /\ slots[r].todo[1].kind \notin Asking
  /\ Becomes(r, Rest(slots[r]))
  /\ Rest(slots[r]) = Idle \/ Continues(slots[r], Rest(slots[r]))
  /\ UNCHANGED Counters

LEMMA WritesGoOn ==
  ASSUME SlotsOK, NEW r \in Slots, NEW kind \in Closing \cup {"pin", "unpin"}, Doing(r, kind), Proceed(r, <<>>)
  PROVE  GoesOn(r) /\ slots[r].todo[1].kind = kind
<1>1. kind \in WriteKinds /\ kind \notin Opening /\ kind \notin Asking
  BY DEF WriteKinds, PlainKinds, TargetKinds, Closing, Opening, Inserts, Asking
<1>2. Writes(r) /\ slots[r].todo[1].kind = kind
  BY <1>1, WriterOf
<1> QED BY <1>1, <1>2, WriterProceeds DEF GoesOn, Counters

LEMMA FollowEffect ==
  ASSUME SlotsOK, NEW r \in Slots
  PROVE  /\ Classify(r) =>
              /\ GoesOn(r) /\ slots[r].todo[1].kind = "classify"
              /\ classified' = classified \cup slots[r].ids
              /\ UNCHANGED <<built, messages, reserved, conv, pinned, markers>>
         /\ SetLastMessage(r) =>
              /\ GoesOn(r) /\ slots[r].todo[1].kind = "setLast"
              /\ \E n \in slots[r].ids : conv' = [last |-> n, preview |-> "original"]
              /\ UNCHANGED <<built, messages, reserved, pinned, classified, markers>>
         /\ WritePinned(r) =>
              /\ GoesOn(r) /\ slots[r].todo[1].kind \in {"pin", "unpin"}
              /\ UNCHANGED <<built, messages, reserved, conv, classified, markers>>
<1>1. ASSUME Classify(r)
      PROVE  GoesOn(r) /\ slots[r].todo[1].kind = "classify"
  BY <1>1, WritesGoOn DEF Classify, Closing
<1>2. ASSUME SetLastMessage(r)
      PROVE  GoesOn(r) /\ slots[r].todo[1].kind = "setLast"
  BY <1>2, WritesGoOn DEF SetLastMessage, Closing
<1>3. ASSUME WritePinned(r)
      PROVE  GoesOn(r) /\ slots[r].todo[1].kind \in {"pin", "unpin"}
  <2>1. PICK kind \in {"pin", "unpin"} : Doing(r, kind)
    BY <1>3 DEF WritePinned
  <2>2. Proceed(r, <<>>)
    BY <1>3 DEF WritePinned
  <2> QED BY <2>1, <2>2, WritesGoOn
<1> QED BY <1>1, <1>2, <1>3 DEF Classify, SetLastMessage, WritePinned

\* One more member has been counted, or all of them.
Counted(s, u) == [s EXCEPT !.left = s.left \ {u}]

LEMMA CountEffect ==
  ASSUME SlotsOK, NEW r \in Slots, IncrementUnread(r)
  PROVE  /\ Writes(r) /\ slots[r].todo[1].kind = "count"
         /\ \/ slots[r].left = {} /\ unread' = unread /\ GoesOn(r)
            \/ \E u \in slots[r].left :
                 /\ unread' = [unread EXCEPT ![u] = unread[u] + 1]
                 /\ \/ slots[r].left = {u} /\ GoesOn(r)
                    \/ /\ Becomes(r, Counted(slots[r], u))
                       /\ Continues(slots[r], Counted(slots[r], u))
                       /\ Counted(slots[r], u).todo = slots[r].todo
                       /\ Counted(slots[r], u).ids = slots[r].ids
                       /\ Counted(slots[r], u).left = slots[r].left \ {u}
         /\ UNCHANGED <<built, messages, reserved, conv, pinned, classified, seen, delivered, cutoffs, Counters>>
<1>1. Doing(r, "count")
  BY DEF IncrementUnread
<1>2. Writes(r) /\ slots[r] \in Write /\ Sound(slots[r]) /\ slots[r].todo[1].kind = "count"
  BY <1>1, WriterOf DEF WriteKinds, PlainKinds, Closing
<1>3. Proceed(r, <<>>) => GoesOn(r)
  BY <1>1, WritesGoOn DEF Closing
<1>4. GoesOn(r) => UNCHANGED Counters
  BY DEF GoesOn
<1>5. UNCHANGED <<built, messages, reserved, conv, pinned, classified, seen, delivered, cutoffs>>
  BY DEF IncrementUnread
<1>6. CASE slots[r].left = {}
  <2>1. unread' = unread /\ Proceed(r, <<>>)
    BY <1>6 DEF IncrementUnread
  <2> QED BY <2>1, <1>2, <1>3, <1>4, <1>5, <1>6
<1>7. CASE slots[r].left # {}
  <2>1. PICK u \in slots[r].left :
          /\ unread' = [unread EXCEPT ![u] = unread[u] + 1]
          /\ IF slots[r].left = {u} THEN Proceed(r, <<>>)
             ELSE /\ slots' = [slots EXCEPT ![r].left = slots[r].left \ {u}]
                  /\ UNCHANGED <<started, disturbed, dropped>>
    BY <1>7 DEF IncrementUnread
  <2>2. CASE slots[r].left = {u}
    BY <2>1, <2>2, <1>2, <1>3, <1>4, <1>5
  <2>3. CASE slots[r].left # {u}
    <3>1. Becomes(r, Counted(slots[r], u)) /\ UNCHANGED Counters
      BY <2>1, <2>3 DEF Becomes, Counted, Counters
    <3>2. PICK s, x : s = slots[r] /\ x = Counted(s, u)
      OBVIOUS
    <3>3. /\ x \in Write /\ x.todo = s.todo /\ x.ids = s.ids /\ x.left = s.left \ {u}
          /\ x.sender = s.sender /\ x.client = s.client /\ x.request = s.request /\ x.type = s.type
          /\ x.rows = s.rows
      BY <3>2, <1>2 DEF Counted, Write
    <3>4. Sound(x)
      BY <1>2, <3>2, <3>3 DEF Sound
    <3>5. Continues(s, x)
      BY <3>3, <3>4 DEF Continues, KeepsRows
    <3> QED BY <1>2, <1>5, <2>1, <3>1, <3>2, <3>3, <3>5
  <2> QED BY <2>2, <2>3
<1> QED BY <1>6, <1>7

\* The rows of the members are held, or all but those that have been put back.
Holding(s, t, rows) == [s EXCEPT !.todo = t, !.rows = rows]

LEMMA HoldingContinues ==
  ASSUME NEW s \in Write, Sound(s), NEW t \in Seq(WriteRow), Order(t, s.ids), NEW rows \in Rows,
         \A u \in DOMAIN rows : rows[u] = Row(u) \/ (u \in DOMAIN s.rows /\ rows[u] = s.rows[u])
  PROVE  /\ Continues(s, Holding(s, t, rows)) /\ Holding(s, t, rows).todo = t
         /\ Holding(s, t, rows).ids = s.ids /\ Holding(s, t, rows).left = s.left
<1>1. PICK x : x = Holding(s, t, rows)
  OBVIOUS
<1>2. x \in Write /\ x.todo = t /\ x.ids = s.ids /\ x.left = s.left /\ x.sender = s.sender /\ x.client = s.client
      /\ x.request = s.request /\ x.type = s.type /\ x.rows = rows
  BY <1>1 DEF Holding, Write
<1>3. Sound(x)
  BY <1>2 DEF Sound
<1> QED BY <1>1, <1>2, <1>3 DEF Continues, KeepsRows

LEMMA RowTyped ==
  ASSUME TablesOK
  PROVE  [u \in Members |-> Row(u)] \in Rows
<1>1. \A u \in Members : Row(u) \in MemberRow
  BY DEF TablesOK, Row, MemberRow
<1> QED BY <1>1 DEF Rows

LEMMA ReadEffect ==
  ASSUME TablesOK, SlotsOK, NEW r \in Slots, ReadRows(r)
  PROVE  /\ Writes(r) /\ slots[r].todo[1].kind = "readRows"
         /\ \E x : /\ Becomes(r, x) /\ Continues(slots[r], x) /\ x.todo = Tail(slots[r].todo)
                   /\ x.ids = slots[r].ids /\ x.left = slots[r].left
         /\ Len(slots[r].todo) # 1
         /\ UNCHANGED <<built, tables, Counters>>
<1>1. Doing(r, "readRows") /\ UNCHANGED <<built, tables, Counters>>
  BY DEF ReadRows, Counters
<1>2. Writes(r) /\ slots[r] \in Write /\ Sound(slots[r]) /\ slots[r].todo[1].kind = "readRows"
  BY <1>1, WriterOf DEF WriteKinds, PlainKinds, Closing
<1>3. PICK s, rows : s = slots[r] /\ rows = [u \in Members |-> Row(u)]
  OBVIOUS
<1>4. Becomes(r, Holding(s, Tail(s.todo), rows))
  BY <1>3 DEF ReadRows, Becomes, Holding
<1>5. s.todo \in Seq(WriteRow) /\ Order(s.todo, s.ids) /\ 1 \in DOMAIN s.todo
  BY <1>2, <1>3, WriteShapes DEF Sound
<1>6. s.todo[1].kind \notin Opening /\ Len(s.todo) # 1
  BY <1>2, <1>3, <1>5 DEF Order, Opening, Inserts
<1>7. Tail(s.todo) \in Seq(WriteRow) /\ Order(Tail(s.todo), s.ids)
  BY <1>5, <1>6, OrderOfTail
<1>8. rows \in Rows /\ \A u \in DOMAIN rows : rows[u] = Row(u)
  BY <1>3, RowTyped
<1>9. PICK x : x = Holding(s, Tail(s.todo), rows)
  OBVIOUS
<1>11. s \in Write /\ Sound(s)
  BY <1>2, <1>3
<1>12. /\ Continues(s, Holding(s, Tail(s.todo), rows)) /\ Holding(s, Tail(s.todo), rows).todo = Tail(s.todo)
       /\ Holding(s, Tail(s.todo), rows).ids = s.ids /\ Holding(s, Tail(s.todo), rows).left = s.left
  BY <1>7, <1>8, <1>11, HoldingContinues
<1>10. /\ Continues(s, x) /\ x.todo = Tail(s.todo) /\ x.ids = s.ids /\ x.left = s.left
  BY <1>9, <1>12
<1> QED BY <1>1, <1>2, <1>3, <1>4, <1>6, <1>9, <1>10

\* One row is put back, and with the last one the call has returned.
PutsBack(u, row) ==
  /\ unread' = [unread EXCEPT ![u] = row.unread]
  /\ seen' = [seen EXCEPT ![u] = row.seen]
  /\ delivered' = [delivered EXCEPT ![u] = row.delivered]
  /\ cutoffs' = [cutoffs EXCEPT ![u] = row.cutoffs]

Without(rows, u) == [v \in DOMAIN rows \ {u} |-> rows[v]]

LEMMA PutEffect ==
  ASSUME SlotsOK, NEW r \in Slots, PutRow(r)
  PROVE  /\ Writes(r) /\ slots[r].todo[1].kind = "putRows"
         /\ \E u \in DOMAIN slots[r].rows : PutsBack(u, slots[r].rows[u])
         /\ \/ GoesOn(r)
            \/ \E x : /\ Becomes(r, x) /\ Continues(slots[r], x) /\ x.todo = slots[r].todo
                      /\ x.ids = slots[r].ids /\ x.left = slots[r].left
         /\ UNCHANGED <<built, messages, reserved, conv, pinned, classified, Counters>>
<1>1. Doing(r, "putRows") /\ UNCHANGED <<built, messages, reserved, conv, pinned, classified>>
  BY DEF PutRow
<1>2. Writes(r) /\ slots[r] \in Write /\ Sound(slots[r]) /\ slots[r].todo[1].kind = "putRows"
  BY <1>1, WriterOf DEF WriteKinds, PlainKinds, Closing
<1>3. Proceed(r, <<>>) => GoesOn(r)
  BY <1>1, WritesGoOn DEF Closing
<1>4. GoesOn(r) => UNCHANGED Counters
  BY DEF GoesOn
<1>5. PICK s : s = slots[r]
  OBVIOUS
<1>6. PICK u \in DOMAIN slots[r].rows :
        /\ PutsBack(u, slots[r].rows[u])
        /\ IF DOMAIN slots[r].rows = {u} THEN Proceed(r, <<>>)
           ELSE /\ slots' = [slots EXCEPT ![r] =
                     [slots[r] EXCEPT !.rows = Without(slots[r].rows, u)]]
                /\ UNCHANGED <<started, disturbed, dropped>>
  BY DEF PutRow, PutsBack, Without
<1>7. CASE DOMAIN s.rows = {u}
  BY <1>1, <1>2, <1>3, <1>4, <1>5, <1>6, <1>7
<1>8. CASE DOMAIN s.rows # {u}
  <2>1. PICK rows : rows = Without(s.rows, u)
    OBVIOUS
  <2>2. rows \in Rows
    <3>1. s.rows \in Rows
      BY <1>2, <1>5, WriteShapes
    <3>2. PICK us \in SUBSET Members : s.rows \in [us -> MemberRow]
      BY <3>1 DEF Rows
    <3>3. rows \in [us \ {u} -> MemberRow]
      BY <2>1, <3>2 DEF Without
    <3> QED BY <3>3 DEF Rows
  <2>3. s.todo \in Seq(WriteRow) /\ Order(s.todo, s.ids)
    BY <1>2, <1>5, WriteShapes DEF Sound
  <2>4. \A v \in DOMAIN rows : v \in DOMAIN s.rows /\ rows[v] = s.rows[v]
    BY <2>1 DEF Without
  <2>5. PICK x : x = [s EXCEPT !.rows = rows]
    OBVIOUS
  <2>6. /\ x \in Write /\ x.todo = s.todo /\ x.ids = s.ids /\ x.left = s.left
        /\ x.sender = s.sender /\ x.client = s.client /\ x.request = s.request /\ x.type = s.type
        /\ x.rows = rows
    BY <2>5, <2>2, <1>2, <1>5 DEF Write
  <2>7. Sound(x)
    BY <1>2, <1>5, <2>6 DEF Sound
  <2>8. Continues(s, x)
    BY <2>4, <2>6, <2>7 DEF Continues, KeepsRows
  <2>9. Becomes(r, x) /\ UNCHANGED Counters
    BY <1>5, <1>6, <1>8, <2>1, <2>5 DEF Becomes, Counters
  <2> QED BY <1>1, <1>2, <1>5, <1>6, <2>6, <2>8, <2>9
<1> QED BY <1>7, <1>8

LEMMA CompleteEffect ==
  ASSUME SlotsOK, NEW r \in Slots, CompleteClientMessage(r)
  PROVE  /\ Writes(r) /\ slots[r].todo[1].kind = "complete"
         /\ \/ reserved' = reserved /\ Becomes(r, Idle) /\ UNCHANGED Counters
            \/ /\ reserved[slots[r].sender][slots[r].client] # NoReservation
               /\ reserved' = [reserved EXCEPT ![slots[r].sender][slots[r].client] =
                                 [status |-> "completed", ids |-> slots[r].ids]]
               /\ GoesOn(r)
         /\ UNCHANGED <<built, messages, conv, pinned, classified, markers>>
<1>1. Doing(r, "complete")
  BY DEF CompleteClientMessage
<1>2. Writes(r) /\ slots[r].todo[1].kind = "complete"
  BY <1>1, WriterOf DEF WriteKinds, PlainKinds, Closing
<1>3. Proceed(r, <<>>) => GoesOn(r)
  BY <1>1, WritesGoOn DEF Closing
<1>4. UNCHANGED <<built, messages, conv, pinned, classified, markers>>
  BY DEF CompleteClientMessage
<1>5. CASE reserved[slots[r].sender][slots[r].client] = NoReservation
  BY <1>2, <1>4, <1>5 DEF CompleteClientMessage, Throw, Becomes, Counters
<1>6. CASE reserved[slots[r].sender][slots[r].client] # NoReservation
  BY <1>2, <1>3, <1>4, <1>6 DEF CompleteClientMessage
<1> QED BY <1>5, <1>6

-----------------------------------------------------------------------------
(* What each call of another request does *)

\* The last call of a request has returned.
LEMMA ActorEnds ==
  ASSUME SlotsOK, NEW r \in Slots, NEW kind \in ActionKinds \ {"tombstone", "declassify"}, Doing(r, kind)
  PROVE  /\ Acts(r) /\ Call(r) \in ActionRow /\ Call(r).kind = kind /\ slots[r] = [todo |-> <<Call(r)>>]
         /\ Call(r) = slots[r].todo[1]
         /\ Proceed(r, <<>>) => Becomes(r, Idle) /\ UNCHANGED Counters
         /\ \A c : Proceed(r, <<c>>) => Becomes(r, [todo |-> <<c>>]) /\ UNCHANGED Counters
<1>1. PICK c : c = Call(r)
  OBVIOUS
<1>2. Acts(r) /\ c.kind = kind /\ c = slots[r].todo[1] /\ c \in ActionRow /\ slots[r] = [todo |-> <<c>>]
  <2>1. /\ Acts(r) /\ Call(r) = slots[r].todo[1] /\ slots[r].todo[1].kind = kind
        /\ slots[r] = [todo |-> slots[r].todo]
        /\ Call(r) \in ActionRow /\ slots[r].todo = <<Call(r)>>
    BY ActorOf
  <2>2. slots[r] = [todo |-> <<Call(r)>>]
    BY <2>1
  <2> QED BY <1>1, <2>1, <2>2
<1>3. Tail(slots[r].todo) = <<>>
  BY <1>2
<1>4. Proceed(r, <<>>) => Becomes(r, Idle) /\ UNCHANGED Counters
  <2>1. <<>> \o <<>> = <<>>
    OBVIOUS
  <2> QED BY <1>3, <2>1 DEF Proceed, Becomes, Counters
<1>5. ASSUME NEW d, Proceed(r, <<d>>) PROVE Becomes(r, [todo |-> <<d>>]) /\ UNCHANGED Counters
  <2>1. <<d>> \o <<>> = <<d>> /\ <<d>> # <<>>
    <3>1. d \in {d}
      OBVIOUS
    <3> QED BY <3>1, One, Appended
  <2>2. [slots[r] EXCEPT !.todo = <<d>>] = [todo |-> <<d>>]
    BY <1>2
  <2> QED BY <1>3, <1>5, <2>1, <2>2 DEF Proceed, Becomes, Counters
<1> QED BY <1>1, <1>2, <1>4, <1>5

LEMMA RevokeEffect ==
  ASSUME SlotsOK, NEW r \in Slots
  PROVE  /\ WriteTombstone(r) =>
              /\ Acts(r) /\ Call(r).id \in MessageIds /\ IsStored(Call(r).id)
              /\ slots[r] = [todo |-> RevokeCalls(Call(r).id)]
              /\ messages' = [messages EXCEPT ![Call(r).id].text = "tombstone", ![Call(r).id].revoked = TRUE]
              /\ Becomes(r, [todo |-> RevokeRest(Call(r).id)])
              /\ UNCHANGED <<built, reserved, conv, pinned, classified, markers, Counters>>
         /\ Declassify(r) =>
              /\ Acts(r) /\ Call(r).id \in MessageIds
              /\ slots[r] = [todo |-> RevokeRest(Call(r).id)]
              /\ classified' = classified \ {Call(r).id}
              /\ Becomes(r, [todo |-> <<[kind |-> "checkLast", id |-> Call(r).id]>>])
              /\ UNCHANGED <<built, messages, reserved, conv, pinned, markers, Counters>>
<1>1. ASSUME WriteTombstone(r)
      PROVE  /\ Acts(r) /\ Call(r).id \in MessageIds /\ IsStored(Call(r).id)
             /\ slots[r] = [todo |-> RevokeCalls(Call(r).id)]
             /\ Becomes(r, [todo |-> RevokeRest(Call(r).id)])
             /\ UNCHANGED Counters
  <2>1. Doing(r, "tombstone") /\ Proceed(r, <<>>)
    BY <1>1 DEF WriteTombstone
  <2>2. PICK n : n = Call(r).id
    OBVIOUS
  <2>3. /\ Acts(r) /\ n \in MessageIds /\ slots[r].todo = RevokeCalls(n) /\ slots[r] = [todo |-> slots[r].todo]
        /\ Call(r) = slots[r].todo[1] /\ slots[r].todo[1].kind = "tombstone"
    BY <2>1, <2>2, ActorOf DEF ActionKinds
  <2>4. IsStored(n)
    BY <2>2, <2>3 DEF Acts, Targets
  <2>5. Tail(RevokeCalls(n)) = RevokeRest(n)
    <3>1. PICK a, b, c : /\ a = [kind |-> "tombstone", id |-> n] /\ b = [kind |-> "declassify", id |-> n]
                         /\ c = [kind |-> "checkLast", id |-> n]
      OBVIOUS
    <3>2. Tail(<<a, b, c>>) = <<b, c>>
      OBVIOUS
    <3> QED BY <3>1, <3>2 DEF RevokeCalls, RevokeRest
  <2>6. <<>> \o RevokeRest(n) = RevokeRest(n) /\ RevokeRest(n) # <<>>
    <3>1. PICK b, c : b = [kind |-> "declassify", id |-> n] /\ c = [kind |-> "checkLast", id |-> n]
      OBVIOUS
    <3>2. <<b, c>> \in Seq({b, c}) /\ <<b, c>> # <<>>
      OBVIOUS
    <3>3. <<>> \o <<b, c>> = <<b, c>>
      BY <3>2, Appended
    <3> QED BY <3>1, <3>2, <3>3 DEF RevokeRest
  <2>7. [slots[r] EXCEPT !.todo = RevokeRest(n)] = [todo |-> RevokeRest(n)]
    BY <2>3
  <2>8. Becomes(r, [todo |-> RevokeRest(n)]) /\ UNCHANGED Counters
    BY <2>1, <2>3, <2>5, <2>6, <2>7 DEF Proceed, Becomes, Counters
  <2>9. slots[r] = [todo |-> RevokeCalls(n)]
    BY <2>3
  <2> QED BY <2>2, <2>3, <2>4, <2>8, <2>9
<1>2. ASSUME Declassify(r)
      PROVE  /\ Acts(r) /\ Call(r).id \in MessageIds
             /\ slots[r] = [todo |-> RevokeRest(Call(r).id)]
             /\ Becomes(r, [todo |-> <<[kind |-> "checkLast", id |-> Call(r).id]>>])
             /\ UNCHANGED Counters
  <2>1. Doing(r, "declassify") /\ Proceed(r, <<>>)
    BY <1>2 DEF Declassify
  <2>2. PICK n : n = Call(r).id
    OBVIOUS
  <2>3. Acts(r) /\ n \in MessageIds /\ slots[r].todo = RevokeRest(n) /\ slots[r] = [todo |-> slots[r].todo]
    BY <2>1, <2>2, ActorOf DEF ActionKinds
  <2>4. PICK c : c = [kind |-> "checkLast", id |-> n]
    OBVIOUS
  <2>5. Tail(RevokeRest(n)) = <<c>>
    <3>1. PICK b : b = [kind |-> "declassify", id |-> n]
      OBVIOUS
    <3>2. Tail(<<b, c>>) = <<c>>
      OBVIOUS
    <3> QED BY <2>4, <3>1, <3>2 DEF RevokeRest
  <2>6. <<>> \o <<c>> = <<c>> /\ <<c>> # <<>>
    <3>1. c \in {c}
      OBVIOUS
    <3> QED BY <3>1, One, Appended
  <2>7. [slots[r] EXCEPT !.todo = <<c>>] = [todo |-> <<c>>]
    BY <2>3
  <2>8. Becomes(r, [todo |-> <<c>>]) /\ UNCHANGED Counters
    BY <2>1, <2>3, <2>5, <2>6, <2>7 DEF Proceed, Becomes, Counters
  <2>9. slots[r] = [todo |-> RevokeRest(n)]
    BY <2>3
  <2> QED BY <2>2, <2>3, <2>4, <2>8, <2>9
<1> QED BY <1>1, <1>2 DEF WriteTombstone, Declassify

LEMMA EditEffect ==
  ASSUME SlotsOK, NEW r \in Slots, UpdateText(r)
  PROVE  /\ Acts(r) /\ Call(r).id \in MessageIds /\ IsStored(Call(r).id) /\ Doing(r, "edit")
         /\ messages' = [messages EXCEPT ![Call(r).id].text = "edited"]
         /\ Becomes(r, Idle)
         /\ UNCHANGED <<built, reserved, conv, pinned, classified, markers, Counters>>
<1>1. Doing(r, "edit") /\ Proceed(r, <<>>)
  BY DEF UpdateText
<1>2. Acts(r) /\ Call(r) \in ActionRow /\ Call(r).kind = "edit" /\ Call(r) = slots[r].todo[1]
      /\ Becomes(r, Idle) /\ UNCHANGED Counters
  BY <1>1, ActorEnds DEF ActionKinds
<1>3. Call(r).id \in MessageIds
  BY <1>2 DEF ActionRow
<1>4. IsStored(Call(r).id)
  BY <1>2 DEF Acts, Targets
<1> QED BY <1>1, <1>2, <1>3, <1>4 DEF UpdateText

LEMMA PreviewEffect ==
  ASSUME SlotsOK, NEW r \in Slots
  PROVE  /\ CheckLast(r) =>
              /\ Acts(r) /\ Call(r).id \in MessageIds /\ slots[r] = [todo |-> <<Call(r)>>] /\ Call(r).kind = "checkLast"
              /\ \/ conv.last = Call(r).id /\ Becomes(r, [todo |-> <<[kind |-> "setPreview", id |-> Call(r).id]>>])
                 \/ conv.last # Call(r).id /\ Becomes(r, Idle)
              /\ UNCHANGED <<built, tables, Counters>>
         /\ SetPreview(r) =>
              /\ Acts(r) /\ Call(r).id \in MessageIds /\ slots[r] = [todo |-> <<Call(r)>>] /\ Doing(r, "setPreview")
              /\ Call(r).kind = "setPreview"
              /\ conv' = [last |-> Call(r).id, preview |-> "tombstone"]
              /\ Becomes(r, Idle)
              /\ UNCHANGED <<built, messages, reserved, pinned, classified, markers, Counters>>
<1>1. ASSUME CheckLast(r)
      PROVE  /\ Acts(r) /\ Call(r).id \in MessageIds /\ slots[r] = [todo |-> <<Call(r)>>] /\ Call(r).kind = "checkLast"
             /\ \/ conv.last = Call(r).id /\ Becomes(r, [todo |-> <<[kind |-> "setPreview", id |-> Call(r).id]>>])
                \/ conv.last # Call(r).id /\ Becomes(r, Idle)
             /\ UNCHANGED <<built, tables, Counters>>
  <2>1. Doing(r, "checkLast")
    BY <1>1 DEF CheckLast
  <2>2. /\ Acts(r) /\ Call(r) \in ActionRow /\ Call(r).kind = "checkLast" /\ slots[r] = [todo |-> <<Call(r)>>]
        /\ Proceed(r, <<>>) => Becomes(r, Idle) /\ UNCHANGED Counters
        /\ \A c : Proceed(r, <<c>>) => Becomes(r, [todo |-> <<c>>]) /\ UNCHANGED Counters
    BY <2>1, ActorEnds DEF ActionKinds
  <2>3. Call(r).id \in MessageIds
    BY <2>2 DEF ActionRow
  <2>4. CASE conv.last = Call(r).id
    <3>1. Proceed(r, <<[kind |-> "setPreview", id |-> Call(r).id]>>) /\ UNCHANGED <<built, tables>>
      BY <1>1, <2>4 DEF CheckLast
    <3> QED BY <2>2, <2>3, <2>4, <3>1
  <2>5. CASE conv.last # Call(r).id
    <3>1. Proceed(r, <<>>) /\ UNCHANGED <<built, tables>>
      BY <1>1, <2>5 DEF CheckLast
    <3> QED BY <2>2, <2>3, <2>5, <3>1
  <2> QED BY <2>4, <2>5
<1>2. ASSUME SetPreview(r)
      PROVE  /\ Acts(r) /\ Call(r).id \in MessageIds /\ slots[r] = [todo |-> <<Call(r)>>] /\ Doing(r, "setPreview")
             /\ Call(r).kind = "setPreview"
             /\ Becomes(r, Idle) /\ UNCHANGED Counters
  <2>1. Doing(r, "setPreview") /\ Proceed(r, <<>>)
    BY <1>2 DEF SetPreview
  <2>2. /\ Acts(r) /\ Call(r) \in ActionRow /\ Call(r).kind = "setPreview" /\ slots[r] = [todo |-> <<Call(r)>>]
        /\ Becomes(r, Idle) /\ UNCHANGED Counters
    BY <2>1, ActorEnds DEF ActionKinds
  <2>3. Call(r).id \in MessageIds
    BY <2>2 DEF ActionRow
  <2> QED BY <2>1, <2>2, <2>3
<1> QED BY <1>1, <1>2 DEF SetPreview

LEMMA HideEffect ==
  ASSUME SlotsOK, NEW r \in Slots, WriteDeletedFor(r)
  PROVE  /\ Acts(r) /\ Doing(r, "hide") /\ slots[r] = [todo |-> <<Call(r)>>] /\ Call(r).kind = "hide"
         /\ Call(r).lists \in Lists /\ DOMAIN Call(r).lists \subseteq StoredIds
         /\ \E n \in DOMAIN Call(r).lists :
              /\ messages' = [messages EXCEPT ![n].deletedFor = Call(r).lists[n]]
              /\ Call(r).lists[n] \in SUBSET Members
              /\ \/ Becomes(r, Idle)
                 \/ Becomes(r, [todo |-> <<[kind |-> "hide",
                                            lists |-> [m \in DOMAIN Call(r).lists \ {n} |-> Call(r).lists[m]]]>>])
         /\ UNCHANGED <<built, reserved, conv, pinned, classified, markers, Counters>>
<1>1. Doing(r, "hide")
  BY DEF WriteDeletedFor
<1>2. /\ Acts(r) /\ Call(r) \in ActionRow /\ Call(r).kind = "hide" /\ slots[r] = [todo |-> <<Call(r)>>]
      /\ Call(r) = slots[r].todo[1]
      /\ Proceed(r, <<>>) => Becomes(r, Idle) /\ UNCHANGED Counters
      /\ \A c : Proceed(r, <<c>>) => Becomes(r, [todo |-> <<c>>]) /\ UNCHANGED Counters
  BY <1>1, ActorEnds DEF ActionKinds
<1>3. Call(r).lists \in Lists
  BY <1>2 DEF ActionRow
<1>4. DOMAIN Call(r).lists \subseteq StoredIds
  BY <1>2 DEF Acts, Targets
<1>5. PICK n \in DOMAIN Call(r).lists :
        /\ messages' = [messages EXCEPT ![n].deletedFor = Call(r).lists[n]]
        /\ Proceed(r, IF DOMAIN Call(r).lists = {n} THEN <<>>
                      ELSE <<[kind |-> "hide", lists |-> [m \in DOMAIN Call(r).lists \ {n} |-> Call(r).lists[m]]]>>)
  BY DEF WriteDeletedFor
<1>6. Call(r).lists[n] \in SUBSET Members
  BY <1>3, <1>5 DEF Lists
<1>7. /\ \/ Becomes(r, Idle)
         \/ Becomes(r, [todo |-> <<[kind |-> "hide",
                                    lists |-> [m \in DOMAIN Call(r).lists \ {n} |-> Call(r).lists[m]]]>>])
      /\ UNCHANGED Counters
  <2>1. CASE DOMAIN Call(r).lists = {n}
    BY <1>2, <1>5, <2>1
  <2>2. CASE DOMAIN Call(r).lists # {n}
    BY <1>2, <1>5, <2>2
  <2> QED BY <2>1, <2>2
<1> QED BY <1>1, <1>2, <1>3, <1>4, <1>5, <1>6, <1>7 DEF WriteDeletedFor

\* The calls that write a row of a member.
LEMMA MarkEffect ==
  ASSUME SlotsOK, NEW r \in Slots
  PROVE  /\ ReadLatest(r) =>
              /\ Acts(r) /\ Call(r) \in ActionRow
              /\ \E c \in ActionRow : c.kind = "advanceSeen" /\ Becomes(r, [todo |-> <<c>>])
              /\ UNCHANGED <<built, tables, Counters>>
         /\ AdvanceSeen(r) \/ AdvanceDelivered(r) \/ WriteCutoff(r) =>
              /\ Acts(r) /\ Becomes(r, Idle)
              /\ unread' = unread \/ \E u \in Members : unread' = [unread EXCEPT ![u] = 0]
              /\ UNCHANGED <<built, messages, reserved, conv, pinned, classified, Counters>>
<1>1. ASSUME ReadLatest(r)
      PROVE  /\ Acts(r) /\ Call(r) \in ActionRow
             /\ \E c \in ActionRow : c.kind = "advanceSeen" /\ Becomes(r, [todo |-> <<c>>])
             /\ UNCHANGED <<built, tables, Counters>>
  <2>1. Doing(r, "latest")
    BY <1>1 DEF ReadLatest
  <2>2. /\ Acts(r) /\ Call(r) \in ActionRow /\ Call(r).kind = "latest"
        /\ \A c : Proceed(r, <<c>>) => Becomes(r, [todo |-> <<c>>]) /\ UNCHANGED Counters
    BY <2>1, ActorEnds DEF ActionKinds
  <2>3. Call(r).user \in Members /\ Call(r).id \in MessageIds
    BY <2>2 DEF ActionRow
  <2>4. PICK b : b = (\A m \in LatestVisible(Call(r).user) : Call(r).id >= m)
    OBVIOUS
  <2>5. b \in BOOLEAN
    BY <2>4
  <2>6. PICK c : c = [kind |-> "advanceSeen", user |-> Call(r).user, id |-> Call(r).id, clear |-> b]
    OBVIOUS
  <2>7. Proceed(r, <<c>>) /\ UNCHANGED <<built, tables>>
    BY <1>1, <2>4, <2>6 DEF ReadLatest
  <2>8. c \in ActionRow /\ c.kind = "advanceSeen"
    BY <2>3, <2>5, <2>6 DEF ActionRow
  <2> QED BY <2>2, <2>7, <2>8
<1>2. ASSUME AdvanceSeen(r)
      PROVE  /\ Acts(r) /\ Becomes(r, Idle)
             /\ unread' = unread \/ \E u \in Members : unread' = [unread EXCEPT ![u] = 0]
             /\ UNCHANGED <<built, messages, reserved, conv, pinned, classified, Counters>>
  <2>1. Doing(r, "advanceSeen") /\ Proceed(r, <<>>)
    BY <1>2 DEF AdvanceSeen
  <2>2. Acts(r) /\ Call(r) \in ActionRow /\ Call(r).kind = "advanceSeen" /\ Becomes(r, Idle) /\ UNCHANGED Counters
    BY <2>1, ActorEnds DEF ActionKinds
  <2>3. Call(r).user \in Members
    BY <2>2 DEF ActionRow
  <2>4. unread' = unread \/ unread' = [unread EXCEPT ![Call(r).user] = 0]
    BY <1>2 DEF AdvanceSeen
  <2>5. UNCHANGED <<built, messages, reserved, conv, pinned, classified>>
    BY <1>2 DEF AdvanceSeen
  <2> QED BY <2>2, <2>3, <2>4, <2>5
<1>3. ASSUME AdvanceDelivered(r)
      PROVE  /\ Acts(r) /\ Becomes(r, Idle) /\ unread' = unread
             /\ UNCHANGED <<built, messages, reserved, conv, pinned, classified, Counters>>
  <2>1. Doing(r, "advanceDelivered") /\ Proceed(r, <<>>)
    BY <1>3 DEF AdvanceDelivered
  <2>2. Acts(r) /\ Becomes(r, Idle) /\ UNCHANGED Counters
    BY <2>1, ActorEnds DEF ActionKinds
  <2> QED BY <1>3, <2>2 DEF AdvanceDelivered
<1>4. ASSUME WriteCutoff(r)
      PROVE  /\ Acts(r) /\ Becomes(r, Idle)
             /\ unread' = unread \/ \E u \in Members : unread' = [unread EXCEPT ![u] = 0]
             /\ UNCHANGED <<built, messages, reserved, conv, pinned, classified, Counters>>
  <2>1. PICK kind \in {"clear", "conceal"} : Doing(r, kind)
    BY <1>4 DEF WriteCutoff
  <2>2. Proceed(r, <<>>)
    BY <1>4 DEF WriteCutoff
  <2>3. Acts(r) /\ Call(r) \in ActionRow /\ Call(r).kind = kind /\ Becomes(r, Idle) /\ UNCHANGED Counters
    BY <2>1, <2>2, ActorEnds DEF ActionKinds
  <2>4. Call(r).user \in Members
    BY <2>3 DEF ActionRow
  <2>5. unread' = unread \/ unread' = [unread EXCEPT ![Call(r).user] = 0]
    BY <1>4 DEF WriteCutoff
  <2>6. UNCHANGED <<built, messages, reserved, conv, pinned, classified>>
    BY <1>4 DEF WriteCutoff
  <2> QED BY <2>3, <2>4, <2>5, <2>6
<1> QED BY <1>1, <1>2, <1>3, <1>4

-----------------------------------------------------------------------------
(* What a request starts with *)

NewWrite(x) ==
  /\ x \in Write /\ Sound(x)
  /\ x.request = started + 1 /\ x.ids = {} /\ x.left = Members \ {x.sender} /\ DOMAIN x.rows = {}
  /\ x.client = NoClientId \/ Has(x.todo, Asking)
  /\ x.todo[1].kind \notin {"reserve"} \cup Inserts

NewAction(x) ==
  /\ x \in Action /\ Targets(x)
  /\ x.todo[1].kind \notin {"declassify", "checkLast", "setPreview"}
  /\ x.todo[1].kind = "edit" => ~messages[x.todo[1].id].revoked
  /\ x.todo[1].kind = "hide" =>
       \A n \in DOMAIN x.todo[1].lists : messages[n].deletedFor \subseteq x.todo[1].lists[n]

Starts(r, x) ==
  /\ slots[r] = Idle /\ Becomes(r, x) /\ started' = started + 1
  /\ \/ disturbed' = disturbed + 1
     \/ disturbed' = disturbed /\ \A y \in Slots : slots[y] = Idle
  /\ UNCHANGED <<built, tables, dropped>>

LEMMA StartEffect ==
  ASSUME NEW r \in Slots, NEW x, Start(r, x)
  PROVE  Starts(r, x)
<1>1. CASE \E y \in Slots : Busy(y)
  BY <1>1 DEF Start, Starts, Busy, Becomes, Disturb
<1>2. CASE ~\E y \in Slots : Busy(y)
  BY <1>2 DEF Start, Starts, Busy, Becomes
<1> QED BY <1>1, <1>2

LEMMA WritingStarts ==
  ASSUME TablesOK, NEW r \in Slots, NEW u \in Members, NEW k \in ClientIds \cup {NoClientId}, NEW type \in Types,
         NEW todo, StartTodo(todo), StartWriting(r, u, k, type, todo),
         k = NoClientId \/ Has(todo, Asking), todo[1].kind \notin {"reserve"} \cup Inserts
  PROVE  \E x : Starts(r, x) /\ NewWrite(x)
<1>1. PICK x : x = [todo |-> todo, sender |-> u, client |-> k, type |-> type, request |-> started + 1,
                    ids |-> {}, left |-> Members \ {u}, rows |-> <<>>]
  OBVIOUS
<1>2. started + 1 \in Nat \ {0}
  BY DEF TablesOK
<1>7. PICK none : none = <<>>
  OBVIOUS
<1>8. none \in Rows /\ DOMAIN none = {}
  <2>1. DOMAIN none = {}
    BY <1>7
  <2>2. none = [v \in {} |-> v]
    BY <1>7
  <2>3. none \in [{} -> MemberRow]
    BY <2>2
  <2> QED BY <2>1, <2>3 DEF Rows
<1>9. x = [todo |-> todo, sender |-> u, client |-> k, type |-> type, request |-> started + 1,
           ids |-> {}, left |-> Members \ {u}, rows |-> none]
  BY <1>1, <1>7
<1>3. x \in Write /\ x.rows = none
  BY <1>9, <1>8, <1>2 DEF Write, StartTodo
<1>4. Sound(x)
  BY <1>1 DEF Sound, StartTodo
<1>5. NewWrite(x)
  BY <1>1, <1>3, <1>4, <1>8 DEF NewWrite
<1>6. Start(r, x)
  BY <1>1 DEF StartWriting
<1> QED BY <1>5, <1>6, StartEffect

LEMMA ActionStarts ==
  ASSUME NEW r \in Slots, NEW c \in ActionRow, Begin(r, <<c>>),
         c.kind \notin {"checkLast", "setPreview"},
         c.kind = "edit" => IsStored(c.id) /\ ~messages[c.id].revoked,
         c.kind = "hide" => /\ DOMAIN c.lists \subseteq StoredIds
                            /\ \A n \in DOMAIN c.lists : messages[n].deletedFor \subseteq c.lists[n]
  PROVE  \E x : Starts(r, x) /\ NewAction(x)
<1>1. PICK x : x = [todo |-> <<c>>]
  OBVIOUS
<1>2. x \in Action
  BY <1>1 DEF Action, ActionTodos
<1>3. x.todo[1] = c
  BY <1>1
<1>4. c.kind \notin {"declassify", "tombstone"}
  BY DEF ActionRow
<1>5. NewAction(x)
  BY <1>2, <1>3, <1>4 DEF NewAction, Targets
<1>6. Start(r, x)
  BY <1>1 DEF Begin
<1> QED BY <1>5, <1>6, StartEffect

LEMMA StartKinds ==
  ASSUME NEW type, NEW t, t = BuildCalls(type)
  PROVE  /\ \A b \in Seq(WriteRow) : (t \o b)[1].kind = "build"
         /\ t \in Seq(WriteRow)
<1>1. PICK c : c = [kind |-> "build"]
  OBVIOUS
<1>2. c \in WriteRow /\ c.kind = "build"
  BY <1>1, Kinds DEF PlainKinds
<1>3. t = <<c>> \/ t = <<c, c>>
  BY <1>1 DEF BuildCalls
<1>4. t \in Seq(WriteRow) /\ 1 \in DOMAIN t /\ t[1] = c
  <2>1. <<c>> \in Seq(WriteRow) /\ 1 \in DOMAIN <<c>> /\ <<c>>[1] = c
    BY <1>2, One
  <2>2. <<c, c>> \in Seq(WriteRow) /\ 1 \in DOMAIN <<c, c>> /\ <<c, c>>[1] = c
    BY <1>2
  <2> QED BY <1>3, <2>1, <2>2
<1>5. \A b \in Seq(WriteRow) : (t \o b)[1] = c
  BY <1>4, Joined
<1> QED BY <1>2, <1>4, <1>5

LEMMA WriteUseCases ==
  ASSUME TablesOK, NEW r \in Slots, NEW u \in Members,
         \/ \E k \in ClientIds \cup {NoClientId}, type \in Sent : SendMessage(r, u, k, type)
         \/ \E type \in Sent : CopyConversation(r, u, type)
         \/ \E n \in MessageIds : ForwardMessage(r, u, n)
         \/ \E n \in MessageIds, type \in Sent : QuoteMessage(r, u, n, type)
         \/ \E n \in MessageIds : PinMessage(r, u, n) \/ UnpinMessage(r, u, n)
  PROVE  \E x : Starts(r, x) /\ NewWrite(x)
<1>1. \A type \in Sent : type \in Types
  BY MessagingAssumption DEF Types
<1>2. \A type : /\ ClassifyCalls(type) \in Seq(WriteRow) /\ FollowCalls \in Seq(WriteRow)
                /\ ClassifyCalls(type) \o FollowCalls \in Seq(WriteRow)
                /\ ClassifyCalls(type) \o <<[kind |-> "setLast"]>> \in Seq(WriteRow)
                /\ <<[kind |-> "setLast"]>> \in Seq(WriteRow)
  <2>1. [kind |-> "classify"] \in WriteRow
    BY Kinds DEF PlainKinds, Closing
  <2>2. \A type : ClassifyCalls(type) \in Seq(WriteRow)
    BY <2>1, One DEF ClassifyCalls
  <2> QED BY <2>2, Closings DEF Ending
<1>3. ASSUME NEW k \in ClientIds \cup {NoClientId}, NEW type \in Sent, SendMessage(r, u, k, type)
      PROVE  \E x : Starts(r, x) /\ NewWrite(x)
  <2>1. CASE k = NoClientId
    <3>1. PICK t : t = WriteCalls(type)
      OBVIOUS
    <3>2. StartWriting(r, u, k, type, t)
      BY <1>3, <2>1, <3>1 DEF SendMessage
    <3>3. StartTodo(t)
      BY <3>1, StartTodos
    <3>4. t = BuildCalls(type) \o (ClassifyCalls(type) \o FollowCalls)
      BY <3>1, <1>2, StartKinds, ConcatAssociative, SMTT(30) DEF WriteCalls
    <3>5. t[1].kind = "build"
      BY <1>2, <3>4, StartKinds
    <3> QED BY <1>1, <2>1, <3>2, <3>3, <3>5, WritingStarts DEF Inserts
  <2>2. CASE k # NoClientId
    <3>1. PICK t : t = <<[kind |-> "find"]>>
      OBVIOUS
    <3>2. StartWriting(r, u, k, type, t)
      BY <1>3, <2>2, <3>1 DEF SendMessage
    <3>3. StartTodo(t) /\ Has(t, Asking)
      BY <3>1, OrderOfAsking DEF StartTodo, Asking
    <3>4. t[1].kind = "find"
      BY <3>1
    <3> QED BY <1>1, <3>2, <3>3, <3>4, WritingStarts DEF Inserts
  <2> QED BY <2>1, <2>2
<1>4. ASSUME NEW type \in Sent, CopyConversation(r, u, type)
      PROVE  \E x : Starts(r, x) /\ NewWrite(x)
  <2>1. PICK t : t = BuildCalls(type) \o FollowCalls
    OBVIOUS
  <2>2. StartWriting(r, u, NoClientId, type, t)
    BY <1>4, <2>1 DEF CopyConversation
  <2>3. StartTodo(t) /\ t[1].kind = "build"
    BY <2>1, <1>2, StartTodos, StartKinds
  <2> QED BY <1>1, <2>2, <2>3, WritingStarts DEF Inserts
<1>5. ASSUME NEW n \in MessageIds, NEW type \in Sent, QuoteMessage(r, u, n, type)
      PROVE  \E x : Starts(r, x) /\ NewWrite(x)
  <2>1. PICK t : t = BuildCalls(type) \o ClassifyCalls(type) \o <<[kind |-> "setLast"]>>
    OBVIOUS
  <2>2. StartWriting(r, u, NoClientId, type, t)
    BY <1>5, <2>1 DEF QuoteMessage
  <2>3. StartTodo(t)
    BY <2>1, StartTodos
  <2>4. t = BuildCalls(type) \o (ClassifyCalls(type) \o <<[kind |-> "setLast"]>>)
    BY <2>1, <1>2, StartKinds, ConcatAssociative, SMTT(30)
  <2>5. t[1].kind = "build"
    BY <1>2, <2>4, StartKinds
  <2> QED BY <1>1, <2>2, <2>3, <2>5, WritingStarts DEF Inserts
<1>6. ASSUME NEW n \in MessageIds, ForwardMessage(r, u, n)
      PROVE  \E x : Starts(r, x) /\ NewWrite(x)
  <2>1. PICK type : type = IF messages[n].type = "text" THEN "text" ELSE "media"
    OBVIOUS
  <2>2. PICK t : t = <<[kind |-> "buildBatch"]>> \o ClassifyCalls(type) \o FollowCalls
    OBVIOUS
  <2>3. StartWriting(r, u, NoClientId, type, t)
    BY <1>6, <2>1, <2>2 DEF ForwardMessage
  <2>4. StartTodo(t)
    BY <2>2, StartTodos
  <2>5. t[1].kind = "buildBatch"
    <3>1. PICK c : c = [kind |-> "buildBatch"]
      OBVIOUS
    <3>2. c \in WriteRow /\ c.kind = "buildBatch"
      BY <3>1, Kinds DEF PlainKinds
    <3>3. <<c>> \in Seq(WriteRow) /\ 1 \in DOMAIN <<c>> /\ <<c>>[1] = c
      BY <3>2, One
    <3>4. t = <<c>> \o (ClassifyCalls(type) \o FollowCalls)
      BY <2>2, <3>1, <3>3, <1>2, ConcatAssociative
    <3>5. t[1] = c
      BY <3>3, <3>4, <1>2, Joined
    <3> QED BY <3>2, <3>5
  <2>6. type \in Types
    BY <2>1 DEF Types
  <2> QED BY <2>3, <2>4, <2>5, <2>6, WritingStarts DEF Inserts
<1>7. ASSUME NEW n \in MessageIds, PinMessage(r, u, n) \/ UnpinMessage(r, u, n)
      PROVE  \E x : Starts(r, x) /\ NewWrite(x)
  <2>1. PICK kind \in {"pin", "unpin"} : StartWriting(r, u, NoClientId, SystemType, NoteCalls([kind |-> kind, id |-> n]))
    BY <1>7 DEF PinMessage, UnpinMessage
  <2>2. PICK p, b, s, g, q : /\ p = [kind |-> kind, id |-> n] /\ b = [kind |-> "build"]
                             /\ s = [kind |-> "setLast"] /\ g = [kind |-> "readRows"]
                             /\ q = [kind |-> "putRows"]
    OBVIOUS
  <2>3. p \in WriteRow /\ b \in WriteRow /\ s \in WriteRow /\ g \in WriteRow /\ q \in WriteRow /\ p.kind = kind
    BY <2>2, Kinds DEF PlainKinds, TargetKinds, Closing
  <2>4. Beginning(<<p, b>>) /\ Ending(<<s, g, q>>)
    BY <2>2, Beginnings, Closings
  <2>5. <<p, b>> \o <<s, g, q>> = <<p, b, s, g, q>>
    BY <2>3, TwoAndThree
  <2>6. PICK t : t = <<p, b, s, g, q>>
    OBVIOUS
  <2>7. StartTodo(t)
    BY <2>4, <2>5, <2>6, BeginAndFollow DEF StartTodo
  <2>8. t[1].kind = kind /\ kind \notin {"reserve"} \cup Inserts
    BY <2>3, <2>6 DEF Inserts
  <2>9. StartWriting(r, u, NoClientId, SystemType, t)
    BY <2>1, <2>2, <2>6 DEF NoteCalls
  <2>10. SystemType \in Types
    BY DEF Types
  <2> QED BY <2>7, <2>8, <2>9, <2>10, WritingStarts
<1> QED BY <1>3, <1>4, <1>5, <1>6, <1>7

LEMMA ActionUseCases ==
  ASSUME TablesOK, NEW r \in Slots, NEW u \in Members,
         \/ \E ns \in SUBSET MessageIds : DeleteMessagesBulk(r, u, ns)
         \/ DeleteConversationForMe(r, u)
         \/ HideConversation(r, u)
         \/ UnhideConversation(r, u)
         \/ \E n \in MessageIds :
              \/ EditMessage(r, u, n)
              \/ RevokeMessage(r, u, n)
              \/ DeleteMessageForMe(r, u, n)
              \/ MarkAsSeen(r, u, n)
              \/ MarkAsDelivered(r, u, n)
  PROVE  \E x : Starts(r, x) /\ NewAction(x)
<1>1. ASSUME NEW ns \in SUBSET MessageIds, \A n \in ns : IsStored(n), Begin(r, HideCalls(u, ns))
      PROVE  \E x : Starts(r, x) /\ NewAction(x)
  <2>1. PICK lists : lists = [n \in ns |-> messages[n].deletedFor \cup {u}]
    OBVIOUS
  <2>2. \A n \in ns : messages[n] \in Message
    BY <1>1 DEF TablesOK, IsStored
  <2>3. \A n \in ns : messages[n].deletedFor \cup {u} \in SUBSET Members
    BY <2>2 DEF Message
  <2>4. lists \in [ns -> SUBSET Members]
    BY <2>1, <2>3
  <2>5. PICK c : c = [kind |-> "hide", lists |-> lists]
    OBVIOUS
  <2>6. lists \in Lists
    BY <2>4 DEF Lists
  <2>7. c \in ActionRow /\ c.kind = "hide" /\ c.lists = lists
    BY <2>5, <2>6 DEF ActionRow
  <2>8. DOMAIN lists \subseteq StoredIds
    BY <1>1, <2>1 DEF StoredIds
  <2>9. \A n \in DOMAIN lists : messages[n].deletedFor \subseteq lists[n]
    BY <2>1
  <2>10. Begin(r, <<c>>)
    BY <1>1, <2>1, <2>5 DEF HideCalls
  <2> QED BY <2>7, <2>8, <2>9, <2>10, ActionStarts
<1>2. CASE \E ns \in SUBSET MessageIds : DeleteMessagesBulk(r, u, ns)
  BY <1>1, <1>2 DEF DeleteMessagesBulk
<1>3. CASE \E n \in MessageIds : DeleteMessageForMe(r, u, n)
  <2>1. PICK n \in MessageIds : DeleteMessageForMe(r, u, n)
    BY <1>3
  <2>2. {n} \in SUBSET MessageIds /\ \A m \in {n} : IsStored(m)
    BY <2>1 DEF DeleteMessageForMe
  <2>3. Begin(r, HideCalls(u, {n}))
    BY <2>1 DEF DeleteMessageForMe
  <2> QED BY <1>1, <2>2, <2>3
<1>4. ASSUME NEW kind \in {"clear", "conceal"}, NEW at \in Nat, Begin(r, <<[kind |-> kind, user |-> u, at |-> at]>>)
      PROVE  \E x : Starts(r, x) /\ NewAction(x)
  <2>1. PICK c : c = [kind |-> kind, user |-> u, at |-> at]
    OBVIOUS
  <2>2. c \in ActionRow /\ c.kind = kind
    BY <2>1 DEF ActionRow
  <2> QED BY <1>4, <2>1, <2>2, ActionStarts
<1>5. CASE DeleteConversationForMe(r, u) \/ HideConversation(r, u) \/ UnhideConversation(r, u)
  <2>1. built \in Nat
    BY DEF TablesOK
  <2> QED BY <1>4, <1>5, <2>1 DEF DeleteConversationForMe, HideConversation, UnhideConversation
<1>6. ASSUME NEW n \in MessageIds, NEW kind \in {"latest", "advanceDelivered"},
             Begin(r, <<[kind |-> kind, user |-> u, id |-> n]>>)
      PROVE  \E x : Starts(r, x) /\ NewAction(x)
  <2>1. PICK c : c = [kind |-> kind, user |-> u, id |-> n]
    OBVIOUS
  <2>2. c \in ActionRow /\ c.kind = kind
    BY <2>1 DEF ActionRow
  <2> QED BY <1>6, <2>1, <2>2, ActionStarts
<1>7. CASE \E n \in MessageIds : MarkAsSeen(r, u, n) \/ MarkAsDelivered(r, u, n)
  BY <1>6, <1>7 DEF MarkAsSeen, MarkAsDelivered
<1>8. CASE \E n \in MessageIds : EditMessage(r, u, n)
  <2>1. PICK n \in MessageIds : EditMessage(r, u, n)
    BY <1>8
  <2>2. PICK c : c = [kind |-> "edit", id |-> n]
    OBVIOUS
  <2>3. c \in ActionRow /\ c.kind = "edit" /\ c.id = n
    BY <2>2 DEF ActionRow
  <2>4. IsStored(n) /\ ~messages[n].revoked /\ Begin(r, <<c>>)
    BY <2>1, <2>2 DEF EditMessage, MayChange
  <2> QED BY <2>3, <2>4, ActionStarts
<1>9. CASE \E n \in MessageIds : RevokeMessage(r, u, n)
  <2>1. PICK n \in MessageIds : RevokeMessage(r, u, n)
    BY <1>9
  <2>2. IsStored(n) /\ Begin(r, RevokeCalls(n))
    BY <2>1 DEF RevokeMessage, MayChange
  <2>3. PICK x : x = [todo |-> RevokeCalls(n)]
    OBVIOUS
  <2>4. x \in Action
    BY <2>3 DEF Action, ActionTodos
  <2>5. x.todo[1] = [kind |-> "tombstone", id |-> n]
    BY <2>3 DEF RevokeCalls
  <2>6. x.todo[1].kind = "tombstone" /\ x.todo[1].id = n
    BY <2>5
  <2>7. NewAction(x)
    BY <2>2, <2>4, <2>6 DEF NewAction, Targets
  <2>8. Start(r, x)
    BY <2>2, <2>3 DEF Begin
  <2> QED BY <2>7, <2>8, StartEffect
<1> QED BY <1>2, <1>3, <1>5, <1>7, <1>8, <1>9

LEMMA UseCaseEffect ==
  ASSUME TablesOK, NEW r \in Slots, UseCase(r)
  PROVE  \E x : Starts(r, x) /\ (NewWrite(x) \/ NewAction(x))
<1>1. PICK u \in Members :
      \/ \E k \in ClientIds \cup {NoClientId}, type \in Sent : SendMessage(r, u, k, type)
      \/ \E type \in Sent : CopyConversation(r, u, type)
      \/ \E ns \in SUBSET MessageIds : DeleteMessagesBulk(r, u, ns)
      \/ DeleteConversationForMe(r, u)
      \/ HideConversation(r, u)
      \/ UnhideConversation(r, u)
      \/ \E n \in MessageIds :
           \/ ForwardMessage(r, u, n)
           \/ \E type \in Sent : QuoteMessage(r, u, n, type)
           \/ PinMessage(r, u, n)
           \/ UnpinMessage(r, u, n)
           \/ EditMessage(r, u, n)
           \/ RevokeMessage(r, u, n)
           \/ DeleteMessageForMe(r, u, n)
           \/ MarkAsSeen(r, u, n)
           \/ MarkAsDelivered(r, u, n)
  BY DEF UseCase
<1>2. CASE \/ \E k \in ClientIds \cup {NoClientId}, type \in Sent : SendMessage(r, u, k, type)
           \/ \E type \in Sent : CopyConversation(r, u, type)
           \/ \E n \in MessageIds : ForwardMessage(r, u, n)
           \/ \E n \in MessageIds, type \in Sent : QuoteMessage(r, u, n, type)
           \/ \E n \in MessageIds : PinMessage(r, u, n) \/ UnpinMessage(r, u, n)
  BY <1>2, WriteUseCases
<1>3. CASE \/ \E ns \in SUBSET MessageIds : DeleteMessagesBulk(r, u, ns)
           \/ DeleteConversationForMe(r, u)
           \/ HideConversation(r, u)
           \/ UnhideConversation(r, u)
           \/ \E n \in MessageIds :
                \/ EditMessage(r, u, n)
                \/ RevokeMessage(r, u, n)
                \/ DeleteMessageForMe(r, u, n)
                \/ MarkAsSeen(r, u, n)
                \/ MarkAsDelivered(r, u, n)
  BY <1>3, ActionUseCases
<1> QED BY <1>1, <1>2, <1>3

-----------------------------------------------------------------------------
(* The rows and the requests keep their types *)

LEMMA StoredSame ==
  ASSUME messages' = messages
  PROVE  StoredIds' = StoredIds /\ \A n : IsStored(n)' <=> IsStored(n)
BY DEF StoredIds, IsStored

LEMMA StoredType ==
  ASSUME TablesOK, NEW n \in MessageIds
  PROVE  IsStored(n) <=> messages[n] \in Message
<1>1. \A m \in Message : m # NoMessage
  BY DEF Message, NoMessage
<1> QED BY <1>1 DEF TablesOK, IsStored

\* One row of the table of messages is written.
LEMMA RowWritten ==
  ASSUME TablesOK, NEW n \in MessageIds, NEW m \in Message, messages' = [messages EXCEPT ![n] = m]
  PROVE  /\ messages' \in [MessageIds -> Message \cup {NoMessage}]
         /\ messages'[n] = m /\ \A k \in MessageIds : k # n => messages'[k] = messages[k]
         /\ StoredIds' = StoredIds \cup {n}
         /\ IsStored(n)' /\ \A k \in MessageIds : k # n => (IsStored(k)' <=> IsStored(k))
<1>1. messages \in [MessageIds -> Message \cup {NoMessage}]
  BY DEF TablesOK
<1>2. messages' \in [MessageIds -> Message \cup {NoMessage}]
  BY <1>1
<1>3. messages'[n] = m /\ \A k \in MessageIds : k # n => messages'[k] = messages[k]
  BY <1>1
<1>4. m # NoMessage
  BY DEF Message, NoMessage
<1>5. IsStored(n)' /\ \A k \in MessageIds : k # n => (IsStored(k)' <=> IsStored(k))
  BY <1>3, <1>4 DEF IsStored, NoMessage
<1>6. StoredIds' = StoredIds \cup {n}
  BY <1>5 DEF StoredIds
<1> QED BY <1>2, <1>3, <1>5, <1>6

\* An attribute of a stored message is updated.
Updates(n, m) ==
  /\ n \in MessageIds /\ IsStored(n) /\ m \in Message /\ messages' = [messages EXCEPT ![n] = m]
  /\ m.sender = messages[n].sender /\ m.client = messages[n].client /\ m.request = messages[n].request
  /\ m.type = messages[n].type

LEMMA UpdateEffect ==
  ASSUME TablesOK, SlotsOK, NEW r \in Slots
  PROVE  /\ UpdateText(r) =>
              \E m : /\ Updates(Call(r).id, m) /\ m.text = "edited"
                     /\ m.revoked = messages[Call(r).id].revoked /\ m.deletedFor = messages[Call(r).id].deletedFor
         /\ WriteTombstone(r) =>
              \E m : /\ Updates(Call(r).id, m) /\ m.text = "tombstone" /\ m.revoked
                     /\ m.deletedFor = messages[Call(r).id].deletedFor
         /\ WriteDeletedFor(r) =>
              \E n \in DOMAIN Call(r).lists : \E m :
                /\ Updates(n, m) /\ m.deletedFor = Call(r).lists[n]
                /\ m.text = messages[n].text /\ m.revoked = messages[n].revoked
                /\ \/ Becomes(r, Idle)
                   \/ Becomes(r, [todo |-> <<[kind |-> "hide",
                                              lists |-> [k \in DOMAIN Call(r).lists \ {n} |-> Call(r).lists[k]]]>>])
<1>1. ASSUME UpdateText(r)
      PROVE  \E m : /\ Updates(Call(r).id, m) /\ m.text = "edited"
                    /\ m.revoked = messages[Call(r).id].revoked /\ m.deletedFor = messages[Call(r).id].deletedFor
  <2>1. PICK n : n = Call(r).id
    OBVIOUS
  <2>2. n \in MessageIds /\ IsStored(n) /\ messages' = [messages EXCEPT ![n].text = "edited"]
    BY <1>1, <2>1, EditEffect
  <2>3. PICK o, m : o = messages[n] /\ m = [o EXCEPT !.text = "edited"]
    OBVIOUS
  <2>4. o \in Message
    BY <2>2, <2>3, StoredType
  <2>5. m \in Message /\ m.text = "edited" /\ m.revoked = o.revoked /\ m.deletedFor = o.deletedFor
        /\ m.sender = o.sender /\ m.client = o.client /\ m.request = o.request /\ m.type = o.type
    BY <2>3, <2>4 DEF Message
  <2>6. messages' = [messages EXCEPT ![n] = m]
    BY <2>2, <2>3
  <2> QED BY <2>1, <2>2, <2>3, <2>5, <2>6 DEF Updates
<1>2. ASSUME WriteTombstone(r)
      PROVE  \E m : /\ Updates(Call(r).id, m) /\ m.text = "tombstone" /\ m.revoked
                    /\ m.deletedFor = messages[Call(r).id].deletedFor
  <2>1. PICK n : n = Call(r).id
    OBVIOUS
  <2>2. /\ n \in MessageIds /\ IsStored(n)
        /\ messages' = [messages EXCEPT ![n].text = "tombstone", ![n].revoked = TRUE]
    BY <1>2, <2>1, RevokeEffect
  <2>3. PICK o, m : o = messages[n] /\ m = [o EXCEPT !.text = "tombstone", !.revoked = TRUE]
    OBVIOUS
  <2>4. o \in Message
    BY <2>2, <2>3, StoredType
  <2>5. m \in Message /\ m.text = "tombstone" /\ m.revoked /\ m.deletedFor = o.deletedFor
        /\ m.sender = o.sender /\ m.client = o.client /\ m.request = o.request /\ m.type = o.type
    BY <2>3, <2>4 DEF Message
  <2>6. messages \in [MessageIds -> Message \cup {NoMessage}]
    BY DEF TablesOK
  <2>7. messages' = [messages EXCEPT ![n] = m]
    BY <2>2, <2>3, <2>6
  <2> QED BY <2>1, <2>2, <2>3, <2>5, <2>7, ZenonT(40) DEF Updates
<1>3. ASSUME WriteDeletedFor(r)
      PROVE  \E n \in DOMAIN Call(r).lists : \E m :
                /\ Updates(n, m) /\ m.deletedFor = Call(r).lists[n]
                /\ m.text = messages[n].text /\ m.revoked = messages[n].revoked
                /\ \/ Becomes(r, Idle)
                   \/ Becomes(r, [todo |-> <<[kind |-> "hide",
                                              lists |-> [k \in DOMAIN Call(r).lists \ {n} |-> Call(r).lists[k]]]>>])
  <2>1. DOMAIN Call(r).lists \subseteq StoredIds
    BY <1>3, HideEffect
  <2>2. PICK n \in DOMAIN Call(r).lists :
              /\ messages' = [messages EXCEPT ![n].deletedFor = Call(r).lists[n]]
              /\ Call(r).lists[n] \in SUBSET Members
              /\ \/ Becomes(r, Idle)
                 \/ Becomes(r, [todo |-> <<[kind |-> "hide",
                                            lists |-> [k \in DOMAIN Call(r).lists \ {n} |-> Call(r).lists[k]]]>>])
    BY <1>3, HideEffect
  <2>3. n \in MessageIds /\ IsStored(n)
    BY <2>1, <2>2 DEF StoredIds
  <2>4. PICK o, l, m : o = messages[n] /\ l = Call(r).lists[n] /\ m = [o EXCEPT !.deletedFor = l]
    OBVIOUS
  <2>5. o \in Message /\ l \in SUBSET Members
    BY <2>2, <2>3, <2>4, StoredType
  <2>6. m \in Message /\ m.deletedFor = l /\ m.text = o.text /\ m.revoked = o.revoked
        /\ m.sender = o.sender /\ m.client = o.client /\ m.request = o.request /\ m.type = o.type
    BY <2>4, <2>5 DEF Message
  <2>7. messages' = [messages EXCEPT ![n] = m]
    BY <2>2, <2>4
  <2> QED BY <2>2, <2>3, <2>4, <2>6, <2>7 DEF Updates
<1> QED BY <1>1, <1>2, <1>3

LEMMA TypedStart ==
  ASSUME Typed, NEW r \in Slots, NEW x, Starts(r, x), NewWrite(x) \/ NewAction(x)
  PROVE  /\ Typed' /\ slots'[r] = x /\ \A y \in Slots : y # r => slots'[y] = slots[y]
<1>1. StoredIds' = StoredIds /\ (\A n : IsStored(n)' <=> IsStored(n)) /\ Becomes(r, x)
  BY StoredSame DEF Starts, tables
<1>2. CASE NewWrite(x)
  <2>1. SlotsOK' /\ slots'[r] = x /\ \A y \in Slots : y # r => slots'[y] = slots[y]
    BY <1>1, <1>2, OneSlot DEF Typed, NewWrite
  <2> QED BY <2>1 DEF Typed, TablesOK, Starts, tables, markers
<1>3. CASE NewAction(x)
  <2>1. Targets(x)'
    BY <1>1, <1>3 DEF NewAction, Targets
  <2>2. SlotsOK' /\ slots'[r] = x /\ \A y \in Slots : y # r => slots'[y] = slots[y]
    BY <1>1, <1>3, <2>1, OneSlot DEF Typed, NewAction
  <2> QED BY <2>2 DEF Typed, TablesOK, Starts, tables, markers
<1> QED BY <1>2, <1>3

\* A request that writes goes on or ends.
LEMMA TypedWriter ==
  ASSUME SlotsOK, NEW r \in Slots, NEW x, Becomes(r, x), StoredIds \subseteq StoredIds',
         x = Idle \/ Continues(slots[r], x)
  PROVE  SlotsOK' /\ slots'[r] = x /\ \A y \in Slots : y # r => slots'[y] = slots[y]
BY OneSlot DEF Continues

LEMMA NoMoreStored ==
  ASSUME messages' = messages
  PROVE  StoredIds \subseteq StoredIds'
BY StoredSame

LEMMA TypedAsking ==
  ASSUME Typed, NEW r \in Slots,
         FindClientMessages(r) \/ ReserveClientMessage(r) \/ WaitForClientMessages(r) \/ GiveUpWaiting(r)
  PROVE  Typed'
<1>1. SlotsOK /\ TablesOK
  BY DEF Typed
<1>2. CASE FindClientMessages(r)
  <2>1. /\ Writes(r)
        /\ \E kind \in {"wait", "reserve"} :
              /\ Becomes(r, With(slots[r], <<[kind |-> kind]>>))
              /\ Continues(slots[r], With(slots[r], <<[kind |-> kind]>>))
        /\ UNCHANGED <<built, tables, Counters>>
    BY <1>1, <1>2, FindEffect
  <2>2. SlotsOK'
    BY <1>1, <2>1, NoMoreStored, TypedWriter DEF tables
  <2> QED BY <1>1, <2>1, <2>2 DEF Typed, TablesOK, tables, markers, Counters
<1>3. CASE ReserveClientMessage(r)
  <2>1. PICK s : s = slots[r]
    OBVIOUS
  <2>2. /\ s \in Write /\ Sound(s)
        /\ \/ /\ reserved' = [reserved EXCEPT ![s.sender][s.client].status = "pending"]
              /\ \E t : Becomes(r, With(s, t)) /\ Continues(s, With(s, t))
           \/ /\ reserved' = reserved
              /\ \E t : Becomes(r, With(s, t)) /\ Continues(s, With(s, t))
        /\ UNCHANGED <<built, messages, conv, pinned, classified, markers, Counters>>
    BY <1>1, <1>3, <2>1, ReserveEffect DEF Writes
  <2>3. SlotsOK'
    BY <1>1, <2>1, <2>2, NoMoreStored, TypedWriter
  <2>4. reserved' \in [Members -> [ClientIds -> Reservation]]
    <3>1. reserved \in [Members -> [ClientIds -> Reservation]]
      BY <1>1 DEF TablesOK
    <3>2. CASE reserved' = [reserved EXCEPT ![s.sender][s.client].status = "pending"]
      <4>1. PICK u, k, w : u = s.sender /\ k = s.client /\ w = [reserved[u][k] EXCEPT !.status = "pending"]
        OBVIOUS
      <4>2. reserved' = [reserved EXCEPT ![u] = [reserved[u] EXCEPT ![k] = w]]
        BY <3>2, <4>1
      <4>3. u \in Members /\ k \in ClientIds => w \in Reservation
        BY <3>1, <4>1 DEF Reservation
      <4>4. u \in Members => [reserved[u] EXCEPT ![k] = w] \in [ClientIds -> Reservation]
        BY <3>1, <4>3
      <4> QED BY <3>1, <4>2, <4>4
    <3> QED BY <2>2, <3>1, <3>2
  <2> QED BY <1>1, <2>2, <2>3, <2>4 DEF Typed, TablesOK, markers, Counters
<1>4. CASE WaitForClientMessages(r) \/ GiveUpWaiting(r)
  <2>1. Writes(r) /\ Becomes(r, Idle) /\ UNCHANGED <<built, tables, Counters>>
    BY <1>1, <1>4, WaitEffect
  <2>2. SlotsOK'
    BY <1>1, <2>1, NoMoreStored, TypedWriter DEF tables
  <2> QED BY <1>1, <2>1, <2>2 DEF Typed, TablesOK, tables, markers, Counters
<1> QED BY <1>2, <1>3, <1>4

LEMMA TypedWriting ==
  ASSUME Typed, NEW r \in Slots, BuildMessage(r) \/ InsertMessage(r) \/ DropUnprocessed(r)
  PROVE  Typed'
<1>1. SlotsOK /\ TablesOK
  BY DEF Typed
<1>2. CASE BuildMessage(r)
  <2>1. /\ built < MaxMessages /\ built' = built + 1
        /\ \E x : Becomes(r, x) /\ Continues(slots[r], x)
        /\ UNCHANGED <<tables, Counters>>
    BY <1>1, <1>2, BuildEffect DEF TablesOK
  <2>2. SlotsOK'
    BY <1>1, <2>1, NoMoreStored, TypedWriter DEF tables
  <2>3. built' \in Nat /\ built' <= MaxMessages
    BY <1>1, <2>1, MessagingAssumption DEF TablesOK
  <2> QED BY <1>1, <2>1, <2>2, <2>3 DEF Typed, TablesOK, tables, markers, Counters
<1>3. CASE InsertMessage(r)
  <2>1. PICK s, n : s = slots[r] /\ n = Call(r).id
    OBVIOUS
  <2>2. PICK m : m = [sender |-> s.sender, client |-> s.client, request |-> s.request, type |-> s.type,
                      text |-> "original", revoked |-> FALSE, deletedFor |-> {}]
    OBVIOUS
  <2>3. /\ Writes(r) /\ n \in MessageIds /\ messages' = [messages EXCEPT ![n] = m]
        /\ \E x : Becomes(r, x) /\ Continues(slots[r], x)
        /\ UNCHANGED <<built, reserved, conv, pinned, classified, markers, Counters>>
    BY <1>1, <1>3, <2>1, <2>2, InsertEffect
  <2>4. m \in Message
    <3>1. /\ s.sender \in Members /\ s.client \in ClientIds \cup {NoClientId}
          /\ s.request \in Nat \ {0} /\ s.type \in Types
      BY <2>1, <2>3, WriteShapes DEF Writes
    <3> QED BY <2>2, <3>1 DEF Message
  <2>5. messages' \in [MessageIds -> Message \cup {NoMessage}] /\ StoredIds \subseteq StoredIds'
    BY <1>1, <2>3, <2>4, RowWritten
  <2>6. SlotsOK'
    BY <1>1, <2>3, <2>5, TypedWriter
  <2> QED BY <1>1, <2>3, <2>5, <2>6 DEF Typed, TablesOK, markers, Counters
<1>4. CASE DropUnprocessed(r)
  <2>1. PICK s : s = slots[r]
    OBVIOUS
  <2>2. /\ Writes(r)
        /\ dropped' = dropped \cup {[request |-> s.request, sender |-> s.sender]}
        /\ \E x : Becomes(r, x) /\ Continues(slots[r], x)
        /\ disturbed' = disturbed + 1
        /\ UNCHANGED <<built, tables, started>>
    BY <1>1, <1>4, <2>1, DropEffect
  <2>3. SlotsOK'
    BY <1>1, <2>2, NoMoreStored, TypedWriter DEF tables
  <2>4. s.sender \in Members /\ s.request \in Nat \ {0}
    BY <2>1, <2>2, WriteShapes DEF Writes
  <2>5. dropped' \subseteq [request: Nat \ {0}, sender: Members] /\ disturbed' \in Nat
    BY <1>1, <2>2, <2>4 DEF TablesOK
  <2> QED BY <1>1, <2>2, <2>3, <2>5 DEF Typed, TablesOK, tables, markers
<1> QED BY <1>2, <1>3, <1>4

LEMMA TypedGoesOn ==
  ASSUME SlotsOK, NEW r \in Slots, GoesOn(r), messages' = messages
  PROVE  SlotsOK'
BY NoMoreStored, TypedWriter DEF GoesOn

LEMMA TypedRows ==
  ASSUME Typed, NEW r \in Slots, ReadRows(r) \/ PutRow(r)
  PROVE  Typed'
<1>1. SlotsOK /\ TablesOK
  BY DEF Typed
<1>2. CASE ReadRows(r)
  <2>1. /\ \E x : Becomes(r, x) /\ Continues(slots[r], x)
        /\ UNCHANGED <<built, tables, Counters>>
    BY <1>1, <1>2, ReadEffect
  <2>2. SlotsOK'
    BY <1>1, <2>1, NoMoreStored, TypedWriter DEF tables
  <2> QED BY <1>1, <2>1, <2>2 DEF Typed, TablesOK, tables, markers, Counters
<1>3. CASE PutRow(r)
  <2>1. PICK rows : rows = slots[r].rows
    OBVIOUS
  <2>2. /\ Writes(r) /\ \E u \in DOMAIN rows : PutsBack(u, rows[u])
        /\ GoesOn(r) \/ \E x : Becomes(r, x) /\ Continues(slots[r], x)
        /\ UNCHANGED <<built, messages, reserved, conv, Counters>>
    BY <1>1, <1>3, <2>1, PutEffect
  <2>3. SlotsOK'
    BY <1>1, <2>2, TypedGoesOn, NoMoreStored, TypedWriter
  <2>4. PICK u \in DOMAIN rows : PutsBack(u, rows[u])
    BY <2>2
  <2>5. rows \in Rows
    BY <2>1, <2>2, WriteShapes DEF Writes
  <2>6. PICK row : row = rows[u]
    OBVIOUS
  <2>7. row \in MemberRow
    BY <2>4, <2>5, <2>6 DEF Rows
  <2>8. row.unread \in Nat /\ row.seen \in Nat /\ row.delivered \in Nat /\ row.cutoffs \in Marks
    BY <2>7 DEF MemberRow
  <2>9. /\ unread' \in [Members -> Nat] /\ seen' \in [Members -> Nat] /\ delivered' \in [Members -> Nat]
        /\ cutoffs' \in [Members -> Marks]
    BY <1>1, <2>4, <2>6, <2>8 DEF PutsBack, TablesOK
  <2> QED BY <1>1, <2>2, <2>3, <2>9 DEF Typed, TablesOK, Counters
<1> QED BY <1>2, <1>3

LEMMA TypedFollowing ==
  ASSUME Typed, NEW r \in Slots,
         Classify(r) \/ SetLastMessage(r) \/ WritePinned(r) \/ IncrementUnread(r) \/ CompleteClientMessage(r)
  PROVE  Typed'
<1>1. SlotsOK /\ TablesOK
  BY DEF Typed
<1>2. CASE Classify(r) \/ WritePinned(r)
  <2>1. GoesOn(r) /\ UNCHANGED <<built, messages, reserved, conv, markers, Counters>>
    BY <1>1, <1>2, FollowEffect DEF GoesOn
  <2>2. SlotsOK'
    BY <1>1, <2>1, TypedGoesOn
  <2> QED BY <1>1, <2>1, <2>2 DEF Typed, TablesOK, markers, Counters
<1>3. CASE SetLastMessage(r)
  <2>1. /\ GoesOn(r) /\ UNCHANGED <<built, messages, reserved, markers, Counters>>
        /\ \E n \in slots[r].ids : conv' = [last |-> n, preview |-> "original"]
    BY <1>1, <1>3, FollowEffect DEF GoesOn
  <2>2. SlotsOK'
    BY <1>1, <2>1, TypedGoesOn
  <2>3. slots[r].ids \subseteq Nat
    BY <2>1, WriteShapes DEF GoesOn, Writes, MessageIds
  <2>4. conv' \in [last: Nat, preview: Previews]
    <3>1. PICK n \in slots[r].ids : conv' = [last |-> n, preview |-> "original"]
      BY <2>1
    <3>2. n \in Nat
      BY <2>3, <3>1
    <3> QED BY <3>1, <3>2 DEF Previews
  <2> QED BY <1>1, <2>1, <2>2, <2>4 DEF Typed, TablesOK, markers, Counters
<1>4. CASE IncrementUnread(r)
  <2>1. /\ Writes(r)
        /\ unread' = unread \/ \E u \in slots[r].left : unread' = [unread EXCEPT ![u] = unread[u] + 1]
        /\ GoesOn(r) \/ \E x : Becomes(r, x) /\ Continues(slots[r], x)
        /\ UNCHANGED <<built, messages, reserved, conv, seen, delivered, cutoffs, Counters>>
    BY <1>1, <1>4, CountEffect
  <2>2. SlotsOK'
    BY <1>1, <2>1, TypedGoesOn, NoMoreStored, TypedWriter
  <2>3. slots[r].left \subseteq Members
    BY <2>1, WriteShapes DEF Writes
  <2>4. unread' \in [Members -> Nat]
    BY <1>1, <2>1, <2>3 DEF TablesOK
  <2> QED BY <1>1, <2>1, <2>2, <2>4 DEF Typed, TablesOK, Counters
<1>5. CASE CompleteClientMessage(r)
  <2>1. PICK s : s = slots[r]
    OBVIOUS
  <2>2. /\ Writes(r)
        /\ \/ reserved' = reserved /\ Becomes(r, Idle)
           \/ /\ reserved' = [reserved EXCEPT ![s.sender][s.client] = [status |-> "completed", ids |-> s.ids]]
              /\ GoesOn(r)
        /\ UNCHANGED <<built, messages, conv, markers, Counters>>
    BY <1>1, <1>5, <2>1, CompleteEffect DEF GoesOn
  <2>3. SlotsOK'
    BY <1>1, <2>2, TypedGoesOn, NoMoreStored, TypedWriter
  <2>4. s.ids \in SUBSET MessageIds
    BY <2>1, <2>2, WriteShapes DEF Writes
  <2>5. [status |-> "completed", ids |-> s.ids] \in Reservation
    BY <2>4 DEF Reservation
  <2>7. reserved \in [Members -> [ClientIds -> Reservation]]
    BY <1>1 DEF TablesOK
  <2>6. reserved' \in [Members -> [ClientIds -> Reservation]]
    <3>1. CASE reserved' = reserved
      BY <2>7, <3>1
    <3>2. CASE reserved' = [reserved EXCEPT ![s.sender][s.client] = [status |-> "completed", ids |-> s.ids]]
      BY <2>5, <2>7, <3>2
    <3> QED BY <2>2, <3>1, <3>2
  <2> QED BY <1>1, <2>2, <2>3, <2>6 DEF Typed, TablesOK, markers, Counters
<1> QED BY <1>2, <1>3, <1>4, <1>5

\* A marker is a message, and a cutoff a time.
LEMMA TypedMarks ==
  ASSUME TablesOK, SlotsOK, NEW r \in Slots, AdvanceSeen(r) \/ AdvanceDelivered(r) \/ WriteCutoff(r)
  PROVE  seen' \in [Members -> Nat] /\ delivered' \in [Members -> Nat] /\ cutoffs' \in [Members -> Marks]
<1>1. seen \in [Members -> Nat] /\ delivered \in [Members -> Nat] /\ cutoffs \in [Members -> Marks]
  BY DEF TablesOK
<1>2. PICK c : c = Call(r)
  OBVIOUS
<1>3. CASE AdvanceSeen(r) \/ AdvanceDelivered(r)
  <2>1. PICK kind \in {"advanceSeen", "advanceDelivered"} : Doing(r, kind)
    BY <1>3 DEF AdvanceSeen, AdvanceDelivered
  <2>2. c \in ActionRow /\ c.kind = kind
    BY <1>2, <2>1, ActorEnds DEF ActionKinds
  <2>3. c.id \in Nat
    BY <2>2 DEF ActionRow, MessageIds
  <2>4. PICK u, n : u = c.user /\ n = c.id
    OBVIOUS
  <2>5. /\ seen' = seen \/ seen' = [seen EXCEPT ![u] = n]
        /\ delivered' = delivered \/ delivered' = [delivered EXCEPT ![u] = n]
        /\ cutoffs' = cutoffs
    BY <1>2, <1>3, <2>4 DEF AdvanceSeen, AdvanceDelivered
  <2> QED BY <1>1, <2>3, <2>4, <2>5
<1>4. CASE WriteCutoff(r)
  <2>1. PICK kind \in {"clear", "conceal"} : Doing(r, kind)
    BY <1>4 DEF WriteCutoff
  <2>2. c \in ActionRow /\ c.kind = kind
    BY <1>2, <2>1, ActorEnds DEF ActionKinds
  <2>3. PICK u, at, m : u = c.user /\ at = c.at /\ m = cutoffs[u]
    OBVIOUS
  <2>4. u \in Members /\ at \in Nat
    BY <2>2, <2>3 DEF ActionRow
  <2>5. m \in Marks
    BY <1>1, <2>3, <2>4
  <2>6. PICK d, h : d = [m EXCEPT !.deleted = at] /\ h = [m EXCEPT !.hidden = at]
    OBVIOUS
  <2>7. d \in Marks /\ h \in Marks
    BY <2>4, <2>5, <2>6 DEF Marks
  <2>8. /\ cutoffs' = [cutoffs EXCEPT ![u] = d] \/ cutoffs' = [cutoffs EXCEPT ![u] = h]
        /\ UNCHANGED <<seen, delivered>>
    BY <1>2, <1>4, <2>3, <2>6 DEF WriteCutoff
  <2> QED BY <1>1, <2>4, <2>7, <2>8
<1> QED BY <1>3, <1>4

LEMMA TypedActing ==
  ASSUME Typed, NEW r \in Slots,
         \/ UpdateText(r) \/ WriteTombstone(r) \/ Declassify(r) \/ CheckLast(r) \/ SetPreview(r)
         \/ WriteDeletedFor(r) \/ ReadLatest(r) \/ AdvanceSeen(r) \/ AdvanceDelivered(r) \/ WriteCutoff(r)
  PROVE  Typed'
<1>1. SlotsOK /\ TablesOK
  BY DEF Typed
<1>2. ASSUME NEW n, NEW m, Updates(n, m)
      PROVE  messages' \in [MessageIds -> Message \cup {NoMessage}] /\ StoredIds' = StoredIds
  BY <1>1, <1>2, RowWritten DEF Updates, StoredIds
<1>3. ASSUME NEW c \in ActionRow, c.kind \notin {"edit", "hide"}
      PROVE  [todo |-> <<c>>] \in Action /\ Targets([todo |-> <<c>>])'
  <2>1. [todo |-> <<c>>] \in Action
    BY DEF Action, ActionTodos
  <2>2. c.kind # "tombstone"
    BY DEF ActionRow
  <2>3. PICK x : x = [todo |-> <<c>>]
    OBVIOUS
  <2>4. x.todo[1] = c
    BY <2>3
  <2>5. Targets(x)'
    BY <1>3, <2>2, <2>4 DEF Targets
  <2> QED BY <2>1, <2>3, <2>5
<1>4. CASE UpdateText(r)
  <2>1. /\ Becomes(r, Idle)
        /\ UNCHANGED <<built, reserved, conv, markers, Counters>>
        /\ \E n, m : Updates(n, m)
    BY <1>1, <1>4, EditEffect, UpdateEffect
  <2>2. SlotsOK'
    BY <1>1, <1>2, <2>1, OneSlot
  <2> QED BY <1>1, <1>2, <2>1, <2>2 DEF Typed, TablesOK, markers, Counters
<1>5. CASE WriteTombstone(r)
  <2>1. /\ Call(r).id \in MessageIds
        /\ Becomes(r, [todo |-> RevokeRest(Call(r).id)])
        /\ UNCHANGED <<built, reserved, conv, markers, Counters>>
        /\ \E n, m : Updates(n, m)
    BY <1>1, <1>5, RevokeEffect, UpdateEffect
  <2>2. PICK n, x : n = Call(r).id /\ x = [todo |-> RevokeRest(n)]
    OBVIOUS
  <2>3. x \in Action
    BY <2>1, <2>2 DEF Action, ActionTodos, RevokeRest
  <2>4. x.todo[1] = [kind |-> "declassify", id |-> n]
    BY <2>2 DEF RevokeRest
  <2>5. x.todo[1].kind = "declassify"
    BY <2>4
  <2>6. Targets(x)'
    BY <2>5 DEF Targets
  <2>7. SlotsOK'
    BY <1>1, <1>2, <2>1, <2>2, <2>3, <2>6, OneSlot
  <2> QED BY <1>1, <1>2, <2>1, <2>7 DEF Typed, TablesOK, markers, Counters
<1>6. CASE Declassify(r)
  <2>1. /\ Call(r).id \in MessageIds
        /\ Becomes(r, [todo |-> <<[kind |-> "checkLast", id |-> Call(r).id]>>])
        /\ UNCHANGED <<built, messages, reserved, conv, markers, Counters>>
    BY <1>1, <1>6, RevokeEffect
  <2>2. PICK c : c = [kind |-> "checkLast", id |-> Call(r).id]
    OBVIOUS
  <2>3. c \in ActionRow /\ c.kind = "checkLast"
    BY <2>1, <2>2 DEF ActionRow
  <2>4. PICK x : x = [todo |-> <<c>>]
    OBVIOUS
  <2>5. x \in Action /\ Targets(x)'
    BY <1>3, <2>3, <2>4
  <2>6. SlotsOK'
    BY <1>1, <2>1, <2>2, <2>4, <2>5, NoMoreStored, OneSlot
  <2> QED BY <1>1, <2>1, <2>6 DEF Typed, TablesOK, markers, Counters
<1>7. CASE CheckLast(r)
  <2>1. /\ Call(r).id \in MessageIds
        /\ \/ Becomes(r, [todo |-> <<[kind |-> "setPreview", id |-> Call(r).id]>>])
           \/ Becomes(r, Idle)
        /\ UNCHANGED <<built, tables, Counters>>
    BY <1>1, <1>7, PreviewEffect
  <2>2. PICK c : c = [kind |-> "setPreview", id |-> Call(r).id]
    OBVIOUS
  <2>3. c \in ActionRow /\ c.kind = "setPreview"
    BY <2>1, <2>2 DEF ActionRow
  <2>4. PICK x : x = [todo |-> <<c>>]
    OBVIOUS
  <2>5. x \in Action /\ Targets(x)'
    BY <1>3, <2>3, <2>4
  <2>6. SlotsOK'
    BY <1>1, <2>1, <2>2, <2>4, <2>5, NoMoreStored, OneSlot DEF tables
  <2> QED BY <1>1, <2>1, <2>6 DEF Typed, TablesOK, tables, markers, Counters
<1>8. CASE SetPreview(r)
  <2>1. /\ Call(r).id \in MessageIds /\ Becomes(r, Idle)
        /\ conv' = [last |-> Call(r).id, preview |-> "tombstone"]
        /\ UNCHANGED <<built, messages, reserved, markers, Counters>>
    BY <1>1, <1>8, PreviewEffect
  <2>2. SlotsOK'
    BY <1>1, <2>1, NoMoreStored, OneSlot
  <2>3. conv' \in [last: Nat, preview: Previews]
    <3>1. PICK n : n = Call(r).id
      OBVIOUS
    <3>2. n \in Nat
      BY <2>1, <3>1 DEF MessageIds
    <3>3. conv' = [last |-> n, preview |-> "tombstone"]
      BY <2>1, <3>1
    <3> QED BY <3>2, <3>3 DEF Previews
  <2> QED BY <1>1, <2>1, <2>2, <2>3 DEF Typed, TablesOK, markers, Counters
<1>9. CASE WriteDeletedFor(r)
  <2>1. /\ Call(r).lists \in Lists /\ DOMAIN Call(r).lists \subseteq StoredIds
        /\ UNCHANGED <<built, reserved, conv, markers, Counters>>
    BY <1>1, <1>9, HideEffect
  <2>2. PICK lists : lists = Call(r).lists
    OBVIOUS
  <2>3. PICK n, m :
          /\ n \in DOMAIN lists
          /\ Updates(n, m)
          /\ \/ Becomes(r, Idle)
             \/ Becomes(r, [todo |-> <<[kind |-> "hide", lists |-> [k \in DOMAIN lists \ {n} |-> lists[k]]]>>])
    BY <1>1, <1>9, <2>2, UpdateEffect
  <2>4. PICK rest, c, x : /\ rest = [k \in DOMAIN lists \ {n} |-> lists[k]]
                          /\ c = [kind |-> "hide", lists |-> rest]
                          /\ x = [todo |-> <<c>>]
    OBVIOUS
  <2>5. rest \in Lists /\ DOMAIN rest \subseteq StoredIds
    BY <2>1, <2>2, <2>4 DEF Lists
  <2>6. c \in ActionRow /\ c.kind = "hide" /\ c.lists = rest
    BY <2>4, <2>5 DEF ActionRow
  <2>7. x \in Action /\ x.todo[1] = c
    BY <2>4, <2>6 DEF Action, ActionTodos
  <2>8. StoredIds' = StoredIds /\ messages' \in [MessageIds -> Message \cup {NoMessage}]
    BY <1>2, <2>3
  <2>9. Targets(x)'
    BY <2>5, <2>6, <2>7, <2>8 DEF Targets
  <2>10. SlotsOK'
    BY <1>1, <2>3, <2>4, <2>7, <2>8, <2>9, OneSlot
  <2> QED BY <1>1, <2>1, <2>8, <2>10 DEF Typed, TablesOK, markers, Counters
<1>10. CASE ReadLatest(r)
  <2>1. /\ \E c \in ActionRow : c.kind = "advanceSeen" /\ Becomes(r, [todo |-> <<c>>])
        /\ UNCHANGED <<built, tables, Counters>>
    BY <1>1, <1>10, MarkEffect
  <2>2. PICK c, x : c \in ActionRow /\ c.kind = "advanceSeen" /\ Becomes(r, x) /\ x = [todo |-> <<c>>]
    BY <2>1
  <2>3. x \in Action /\ Targets(x)'
    BY <1>3, <2>2
  <2>4. SlotsOK'
    BY <1>1, <2>1, <2>2, <2>3, NoMoreStored, OneSlot DEF tables
  <2> QED BY <1>1, <2>1, <2>4 DEF Typed, TablesOK, tables, markers, Counters
<1>11. CASE AdvanceSeen(r) \/ AdvanceDelivered(r) \/ WriteCutoff(r)
  <2>1. /\ Becomes(r, Idle)
        /\ unread' = unread \/ \E u \in Members : unread' = [unread EXCEPT ![u] = 0]
        /\ UNCHANGED <<built, messages, reserved, conv, Counters>>
    BY <1>1, <1>11, MarkEffect
  <2>2. SlotsOK'
    BY <1>1, <2>1, NoMoreStored, OneSlot
  <2>3. unread' \in [Members -> Nat]
    BY <1>1, <2>1 DEF TablesOK
  <2>4. seen' \in [Members -> Nat] /\ delivered' \in [Members -> Nat] /\ cutoffs' \in [Members -> Marks]
    BY <1>1, <1>11, TypedMarks
  <2> QED BY <1>1, <2>1, <2>2, <2>3, <2>4 DEF Typed, TablesOK, Counters
<1> QED BY <1>4, <1>5, <1>6, <1>7, <1>8, <1>9, <1>10, <1>11

LEMMA FailEffect ==
  ASSUME NEW r \in Slots, CallFails(r)
  PROVE  Becomes(r, Idle) /\ disturbed' = disturbed + 1 /\ UNCHANGED <<built, tables, started, dropped>>
BY DEF CallFails, Throw, Disturb, Becomes

LEMMA ExpireEffect ==
  ASSUME SlotsOK, NEW u \in Members, NEW k \in ClientIds, ExpireReservation(u, k)
  PROVE  /\ \A r \in Slots : slots[r] = Idle
         /\ reserved' = [reserved EXCEPT ![u][k] = NoReservation]
         /\ UNCHANGED <<built, messages, conv, pinned, classified, markers, slots, Counters>>
BY DEF ExpireReservation, Busy, Counters

LEMMA TypedSlotsSame ==
  ASSUME SlotsOK, slots' = slots, messages' = messages
  PROVE  SlotsOK'
BY StoredSame DEF SlotsOK, Writes, Acts, Targets

LEMMA TypedStep ==
  ASSUME Typed, [Next]_vars
  PROVE  Typed'
<1>1. SlotsOK /\ TablesOK
  BY DEF Typed
<1>2. ASSUME NEW r \in Slots, UseCase(r) PROVE Typed'
  BY <1>1, <1>2, UseCaseEffect, TypedStart
<1>3. ASSUME NEW r \in Slots, CallFails(r) PROVE Typed'
  <2>1. Becomes(r, Idle) /\ disturbed' = disturbed + 1 /\ UNCHANGED <<built, tables, started, dropped>>
    BY <1>3, FailEffect
  <2>2. SlotsOK'
    BY <1>1, <2>1, NoMoreStored, OneSlot DEF tables
  <2> QED BY <1>1, <2>1, <2>2 DEF Typed, TablesOK, tables, markers
<1>4. ASSUME NEW r \in Slots, DatabaseCall(r) PROVE Typed'
  BY <1>3, <1>4, TypedAsking, TypedWriting, TypedFollowing, TypedRows, TypedActing DEF DatabaseCall
<1>5. ASSUME NEW u \in Members, NEW k \in ClientIds, ExpireReservation(u, k) PROVE Typed'
  <2>1. /\ reserved' = [reserved EXCEPT ![u][k] = NoReservation]
        /\ UNCHANGED <<built, messages, conv, pinned, classified, markers, slots, Counters>>
    BY <1>1, <1>5, ExpireEffect
  <2>2. NoReservation \in Reservation
    BY DEF NoReservation, Reservation
  <2>3. reserved' \in [Members -> [ClientIds -> Reservation]]
    BY <1>1, <2>1, <2>2 DEF TablesOK
  <2> QED BY <1>1, <2>1, <2>3, TypedSlotsSame DEF Typed, TablesOK, markers, Counters
<1>6. CASE UNCHANGED vars
  BY <1>1, <1>6, TypedSlotsSame DEF Typed, TablesOK, vars, tables, markers
<1> QED BY <1>2, <1>4, <1>5, <1>6 DEF Next

LEMMA TypedInit ==
  ASSUME Init
  PROVE  Typed
<1>1. SlotsOK
  BY DEF Init, SlotsOK
<1>2. NoReservation \in Reservation
  BY DEF NoReservation, Reservation
<1>3. built \in Nat /\ started \in Nat /\ disturbed \in Nat /\ built <= MaxMessages
  BY MessagingAssumption DEF Init
<1>4. messages \in [MessageIds -> Message \cup {NoMessage}]
  BY DEF Init
<1>5. reserved \in [Members -> [ClientIds -> Reservation]]
  BY <1>2 DEF Init
<1>6. conv \in [last: Nat, preview: Previews]
  BY DEF Init, Previews
<1>7. /\ unread \in [Members -> Nat] /\ seen \in [Members -> Nat] /\ delivered \in [Members -> Nat]
      /\ cutoffs \in [Members -> Marks]
      /\ dropped \subseteq [request: Nat \ {0}, sender: Members]
  BY DEF Init, Marks
<1> QED BY <1>1, <1>3, <1>4, <1>5, <1>6, <1>7 DEF Typed, TablesOK

-----------------------------------------------------------------------------
(* What every step leaves in place *)

LEMMA NoWriter ==
  ASSUME NEW x, x = Idle \/ x \in Action
  PROVE  ~(x \in Write /\ Sound(x))
<1>1. WriteKinds \cap ActionKinds = {}
  BY DEF WriteKinds, ActionKinds, PlainKinds, TargetKinds, Inserts, Asking, Closing
<1>2. SUFFICES ASSUME x \in Write, Sound(x) PROVE FALSE
  OBVIOUS
<1>3. x # Idle /\ x.todo[1].kind \in WriteKinds
  BY <1>2, WriteShapes
<1>4. x.todo[1].kind \in ActionKinds
  BY <1>3, ActionShapes
<1> QED BY <1>1, <1>3, <1>4

\* What is left of a sequence of calls.
LEMMA HasTail ==
  ASSUME NEW t \in Seq(WriteRow), Len(t) # 0, NEW kinds
  PROVE  /\ Has(Tail(t), kinds) => Has(t, kinds)
         /\ Has(t, kinds) /\ t[1].kind \notin kinds => Has(Tail(t), kinds)
<1>1. /\ Len(t) \in Nat /\ DOMAIN t = 1..Len(t) /\ DOMAIN Tail(t) = 1..Len(t) - 1
      /\ \A i \in 1..Len(t) - 1 : Tail(t)[i] = t[i + 1]
  BY Tails, Indexes
<1>2. ASSUME NEW i \in DOMAIN Tail(t)
      PROVE  i + 1 \in DOMAIN t /\ Tail(t)[i] = t[i + 1]
  BY <1>1
<1>3. ASSUME NEW i \in DOMAIN t, i # 1
      PROVE  i - 1 \in DOMAIN Tail(t) /\ Tail(t)[i - 1] = t[i]
  <2>1. i - 1 \in 1..Len(t) - 1 /\ (i - 1) + 1 = i
    BY <1>1, <1>3
  <2> QED BY <1>1, <2>1
<1> QED BY <1>2, <1>3 DEF Has

LEMMA HasReplaced ==
  ASSUME NEW t \in Seq(WriteRow), Len(t) # 0, NEW c \in WriteRow, NEW kinds
  PROVE  /\ c.kind \notin kinds /\ Has(<<c>> \o Tail(t), kinds) => Has(t, kinds)
         /\ Has(t, kinds) /\ t[1].kind \notin kinds => Has(<<c>> \o Tail(t), kinds)
         /\ c.kind \in kinds => Has(<<c>> \o Tail(t), kinds)
<1>1. PICK u : u = <<c>> \o Tail(t)
  OBVIOUS
<1>2. /\ DOMAIN u = DOMAIN t /\ 1 \in DOMAIN t /\ u[1] = c
      /\ \A i \in DOMAIN t : i # 1 => u[i] = t[i]
  BY <1>1, Replaced, Indexes
<1> QED BY <1>1, <1>2 DEF Has

\* A request that is past its reservation stays so.
LEMMA StaysPast ==
  ASSUME NEW s \in Write, Sound(s), s.todo[1].kind \notin Asking
  PROVE  /\ ~Has(s.todo, Asking) /\ ~Has(Tail(s.todo), Asking)
         /\ \A c \in WriteRow : c.kind \notin Asking => ~Has(<<c>> \o Tail(s.todo), Asking)
<1>1. s.todo \in Seq(WriteRow) /\ Len(s.todo) # 0 /\ DOMAIN s.todo = 1..Len(s.todo)
  BY WriteShapes
<1>2. ~Has(s.todo, Asking)
  <2>1. SUFFICES ASSUME Has(s.todo, Asking) PROVE FALSE
    OBVIOUS
  <2>2. Len(s.todo) = 1
    BY <2>1 DEF Sound, Order
  <2>3. DOMAIN s.todo = {1}
    BY <1>1, <2>2
  <2> QED BY <2>1, <2>3 DEF Has
<1> QED BY <1>1, <1>2, HasTail, HasReplaced

\* Messages keep their sender, client id and request.
LEMMA StoredOfSame ==
  ASSUME TablesOK, messages' = messages \/ \E n, m : Updates(n, m)
  PROVE  /\ StoredIds' = StoredIds
         /\ \A n \in StoredIds : /\ messages'[n].request = messages[n].request
                                 /\ messages'[n].sender = messages[n].sender
                                 /\ messages'[n].client = messages[n].client
         /\ \A u, k : StoredOf(u, k)' = StoredOf(u, k)
<1>1. CASE messages' = messages
  BY <1>1, StoredSame DEF StoredOf
<1>2. CASE \E n, m : Updates(n, m)
  <2>1. PICK n, m : Updates(n, m)
    BY <1>2
  <2>2. /\ messages'[n] = m /\ \A k \in MessageIds : k # n => messages'[k] = messages[k]
        /\ StoredIds' = StoredIds \cup {n}
    BY <2>1, RowWritten DEF Updates
  <2>3. n \in StoredIds /\ StoredIds \subseteq MessageIds
    BY <2>1 DEF Updates, StoredIds
  <2>4. StoredIds' = StoredIds
    BY <2>2, <2>3
  <2>5. \A i \in StoredIds : /\ messages'[i].request = messages[i].request
                             /\ messages'[i].sender = messages[i].sender
                             /\ messages'[i].client = messages[i].client
    BY <2>1, <2>2, <2>3 DEF Updates
  <2> QED BY <2>4, <2>5 DEF StoredOf
<1> QED BY <1>1, <1>2

\* What a request that starts has to show: a number of its own.
Newly(x) ==
  /\ x.request = started + 1 /\ started' = started + 1
  /\ x.ids = {} /\ x.todo[1].kind \notin Inserts /\ DOMAIN x.rows = {}

\* What a call leaves of a request that writes: its number and its user, no
\* more to count than before, and what it has built or written by now.
Onward(r, x) ==
  /\ Writes(r)
  /\ x.sender = slots[r].sender /\ x.request = slots[r].request
  /\ x.left \subseteq slots[r].left
  /\ Has(x.todo, Asking \cup {"count"}) => Has(slots[r].todo, Asking \cup {"count"})
  /\ x.todo[1].kind \in Inserts => built' = built + 1 /\ x.todo[1].id = built'
  /\ \A n \in x.ids : \/ n \in slots[r].ids \/ n \in StoredIds' \ StoredIds
                      \/ [request |-> x.request, sender |-> x.sender] \in dropped'
  /\ KeepsRows(slots[r], x)

\* The numbers grow, and the only message that may be new is the request's own.
Moves(r, x) ==
  /\ Becomes(r, x)
  /\ started <= started' /\ built <= built'
  /\ dropped \subseteq dropped'
  /\ \A d \in dropped' \ dropped : Writes(r) /\ d = [request |-> slots[r].request, sender |-> slots[r].sender]
  /\ \A n \in StoredIds : n \in StoredIds' /\ messages'[n].request = messages[n].request
                                           /\ messages'[n].sender = messages[n].sender
  /\ \A n \in StoredIds' \ StoredIds :
       Writes(r) /\ Inserting(r) /\ n = Target(r) /\ messages'[n].request = slots[r].request
                                                  /\ messages'[n].sender = slots[r].sender
  /\ x \in Write /\ Sound(x) => Newly(x) \/ Onward(r, x)

LEMMA InsertingOf ==
  ASSUME SlotsOK, NEW r \in Slots
  PROVE  /\ Inserting(r) => /\ Writes(r) /\ slots[r].todo[1].kind \in Inserts
                            /\ Target(r) = slots[r].todo[1].id /\ Target(r) \in MessageIds
         /\ Writes(r) => (Inserting(r) <=> slots[r].todo[1].kind \in Inserts)
<1>1. ASSUME Inserting(r)
      PROVE  /\ Writes(r) /\ slots[r].todo[1].kind \in Inserts
             /\ Target(r) = slots[r].todo[1].id /\ Target(r) \in MessageIds
  <2>1. Writes(r) /\ Call(r) = slots[r].todo[1] /\ slots[r].todo[1].kind \in Inserts
    BY <1>1, WriterOf DEF Inserting, WriteKinds, TargetKinds, Inserts
  <2>2. slots[r].todo[1] \in WriteRow
    BY <2>1, WriteShapes DEF Writes
  <2>3. slots[r].todo[1].id \in MessageIds
    BY <2>1, <2>2 DEF WriteRow, PlainKinds, Inserts, Asking, Closing
  <2> QED BY <2>1, <2>3 DEF Target
<1>2. ASSUME Writes(r) PROVE Inserting(r) <=> slots[r].todo[1].kind \in Inserts
  <2>1. slots[r] # Idle /\ Head(slots[r].todo) = slots[r].todo[1]
    BY <1>2, WriteShapes DEF Writes
  <2> QED BY <2>1 DEF Inserting, Doing, Busy, Inserts
<1> QED BY <1>1, <1>2

\* The others are where they were.
LEMMA Elsewhere ==
  ASSUME SlotsOK, NEW r \in Slots, NEW x, Becomes(r, x)
  PROVE  /\ slots'[r] = x /\ \A y \in Slots : y # r => slots'[y] = slots[y]
         /\ Writes(r)' <=> x \in Write /\ Sound(x)
         /\ \A y \in Slots : y # r => (Writes(y)' <=> Writes(y)) /\ (Inserting(y)' <=> Inserting(y))
                                      /\ Target(y)' = Target(y)
<1>1. slots'[r] = x /\ \A y \in Slots : y # r => slots'[y] = slots[y]
  BY DEF SlotsOK, Becomes
<1>2. ASSUME NEW y \in Slots, y # r
      PROVE  (Writes(y)' <=> Writes(y)) /\ (Inserting(y)' <=> Inserting(y)) /\ Target(y)' = Target(y)
  BY <1>1, <1>2 DEF Writes, Inserting, Doing, Busy, Call, Target
<1> QED BY <1>1, <1>2 DEF Writes

LEMMA NumbersMove ==
  ASSUME Typed, Typed', Numbers, NEW r \in Slots, NEW x, Moves(r, x)
  PROVE  Numbers'
<1>1. /\ SlotsOK /\ SlotsOK' /\ Becomes(r, x)
      /\ started \in Nat /\ started' \in Nat /\ built \in Nat /\ built' \in Nat
      /\ started <= started' /\ built <= built'
  BY DEF Typed, TablesOK, Moves
<1>2. /\ slots'[r] = x /\ \A y \in Slots : y # r => slots'[y] = slots[y]
      /\ Writes(r)' <=> x \in Write /\ Sound(x)
      /\ \A y \in Slots : y # r => (Writes(y)' <=> Writes(y)) /\ (Inserting(y)' <=> Inserting(y))
                                   /\ Target(y)' = Target(y)
  BY <1>1, Elsewhere
<1>3. \A y \in Slots : Writes(y) => slots[y].request \in Nat /\ slots[y].request <= started
  BY WriteShapes DEF Numbers, Writes
<1>4. /\ \A n \in StoredIds : n <= built /\ messages[n].request <= started
                              /\ n \in Nat /\ messages[n].request \in Nat
      /\ \A d \in dropped : d.request <= started /\ d.request \in Nat
  <2>1. \A n \in StoredIds : n \in MessageIds /\ messages[n] \in Message
    BY StoredType DEF StoredIds, Typed
  <2> QED BY <2>1 DEF Numbers, Typed, TablesOK, Message, MessageIds
<1>5. \A n \in StoredIds' : n <= built' /\ messages'[n].request <= started'
  <2> SUFFICES ASSUME NEW n \in StoredIds' PROVE n <= built' /\ messages'[n].request <= started'
    OBVIOUS
  <2>1. CASE n \in StoredIds
    <3>1. messages'[n].request = messages[n].request
      BY <2>1 DEF Moves
    <3> QED BY <1>1, <1>4, <2>1, <3>1
  <2>2. CASE n \notin StoredIds
    <3>1. Writes(r) /\ Inserting(r) /\ n = Target(r) /\ messages'[n].request = slots[r].request
      BY <2>2 DEF Moves
    <3>2. n <= built /\ n \in Nat
      BY <3>1 DEF Numbers, StoredIds, MessageIds
    <3> QED BY <1>1, <1>3, <3>1, <3>2
  <2> QED BY <2>1, <2>2
<1>6. \A d \in dropped' : d.request <= started'
  <2> SUFFICES ASSUME NEW d \in dropped' PROVE d.request <= started'
    OBVIOUS
  <2>1. CASE d \in dropped
    BY <1>1, <1>4, <2>1
  <2>2. CASE d \notin dropped
    <3>1. Writes(r) /\ d.request = slots[r].request
      BY <2>2 DEF Moves
    <3> QED BY <1>1, <1>3, <3>1
  <2> QED BY <2>1, <2>2
<1>7. ASSUME x \in Write, Sound(x)
      PROVE  \/ x.request = started + 1 /\ started' = started + 1
             \/ Writes(r) /\ x.request = slots[r].request
  BY <1>7 DEF Moves, Newly, Onward
<1>8. ASSUME NEW y \in Slots, Writes(y)'
      PROVE  slots'[y].request <= started' /\ (y # r => Writes(y) /\ slots'[y].request = slots[y].request)
  <2>1. CASE y = r
    BY <1>1, <1>2, <1>3, <1>7, <1>8, <2>1
  <2>2. CASE y # r
    BY <1>1, <1>2, <1>3, <1>8, <2>2
  <2> QED BY <2>1, <2>2
<1>9. ASSUME NEW y \in Slots, y # r, Writes(y)', Writes(r)'
      PROVE  slots'[y].request # slots'[r].request
  <2>1. Writes(y) /\ slots'[y].request = slots[y].request /\ slots'[r].request = x.request
    BY <1>2, <1>8, <1>9
  <2>2. CASE x.request = started + 1
    BY <1>1, <1>3, <2>1, <2>2
  <2>3. CASE Writes(r) /\ x.request = slots[r].request
    BY <1>9, <2>1, <2>3 DEF Numbers
  <2> QED BY <1>2, <1>7, <1>9, <2>2, <2>3
<1>10. \A y, z \in Slots : Writes(y)' /\ Writes(z)' /\ slots'[y].request = slots'[z].request => y = z
  <2> SUFFICES ASSUME NEW y \in Slots, NEW z \in Slots, Writes(y)', Writes(z)', slots'[y].request = slots'[z].request
               PROVE  y = z
    OBVIOUS
  <2>1. CASE y # r /\ z # r
    BY <1>8, <2>1 DEF Numbers
  <2>2. CASE y = r \/ z = r
    BY <1>9, <2>2
  <2> QED BY <2>1, <2>2
<1>11. ASSUME Inserting(r)'
       PROVE  Target(r)' = built' /\ built' = built + 1
  <2>1. x # Idle /\ Head(x.todo).kind \in Inserts /\ Target(r)' = Head(x.todo).id
    BY <1>2, <1>11 DEF Inserting, Doing, Busy, Target, Call, Inserts
  <2>2. (x \in Write /\ Sound(x)) \/ x \in Action
    BY <1>1, <1>2, <2>1 DEF SlotsOK, Writes, Acts
  <2>3. ~(x \in Action)
    BY <2>1, ActionShapes DEF ActionKinds, Inserts
  <2>4. x \in Write /\ Sound(x) /\ Head(x.todo) = x.todo[1]
    BY <2>2, <2>3, WriteShapes
  <2> QED BY <2>1, <2>4 DEF Moves, Newly, Onward
<1>12. ASSUME NEW y \in Slots, y # r, Inserting(y)'
       PROVE  Inserting(y) /\ Target(y)' = Target(y) /\ Target(y) <= built /\ Target(y) \notin StoredIds'
              /\ Target(y) \in Nat
  <2>1. Inserting(y) /\ Target(y)' = Target(y)
    BY <1>2, <1>12
  <2>2. Target(y) <= built /\ Target(y) \notin StoredIds
    BY <2>1 DEF Numbers
  <2>4. ASSUME Inserting(r) PROVE Target(r) # Target(y)
    BY <1>12, <2>1, <2>4 DEF Numbers
  <2>5. Target(y) \notin StoredIds'
    BY <2>2, <2>4 DEF Moves
  <2>6. Target(y) \in Nat
    BY <1>1, <2>1, InsertingOf DEF MessageIds
  <2> QED BY <2>1, <2>2, <2>5, <2>6
<1>13. \A y \in Slots : Inserting(y)' => Target(y)' <= built' /\ Target(y)' \notin StoredIds'
  <2> SUFFICES ASSUME NEW y \in Slots, Inserting(y)' PROVE Target(y)' <= built' /\ Target(y)' \notin StoredIds'
    OBVIOUS
  <2>1. CASE y # r
    BY <1>1, <1>12, <2>1
  <2>2. CASE y = r
    <3>1. Target(y)' = built' /\ built' = built + 1
      BY <1>11, <2>2
    <3>2. built + 1 \notin StoredIds
      BY <1>1, <1>4
    <3>3. Inserting(r) => Target(r) # built + 1
      BY <1>1 DEF Numbers
    <3>4. built + 1 \notin StoredIds'
      BY <3>2, <3>3 DEF Moves
    <3> QED BY <1>1, <3>1, <3>4
  <2> QED BY <2>1, <2>2
<1>14. \A y, z \in Slots : Inserting(y)' /\ Inserting(z)' /\ Target(y)' = Target(z)' => y = z
  <2> SUFFICES ASSUME NEW y \in Slots, NEW z \in Slots, Inserting(y)', Inserting(z)', Target(y)' = Target(z)'
               PROVE  y = z
    OBVIOUS
  <2>1. CASE y # r /\ z # r
    BY <1>12, <2>1 DEF Numbers
  <2>2. CASE y = r \/ z = r
    BY <1>1, <1>11, <1>12, <2>2
  <2> QED BY <2>1, <2>2
<1> QED BY <1>5, <1>6, <1>8, <1>10, <1>13, <1>14 DEF Numbers

LEMMA WrittenMove ==
  ASSUME Typed, WrittenInv, NEW r \in Slots, NEW x, Moves(r, x)
  PROVE  WrittenInv'
<1>1. /\ slots'[r] = x /\ \A y \in Slots : y # r => slots'[y] = slots[y]
      /\ Writes(r)' <=> x \in Write /\ Sound(x)
      /\ \A y \in Slots : y # r => (Writes(y)' <=> Writes(y))
  BY Elsewhere DEF Typed, Moves
\* What was written before.
<1>2. ASSUME NEW y \in Slots, NEW n \in MessageIds, Written(y, n),
             slots'[y].request = slots[y].request, slots'[y].sender = slots[y].sender
      PROVE  Written(y, n)'
  <2>1. CASE [request |-> slots[y].request, sender |-> slots[y].sender] \in dropped
    BY <1>2, <2>1 DEF Written, Moves
  <2>2. CASE IsStored(n) /\ messages[n].request = slots[y].request /\ messages[n].sender = slots[y].sender
    <3>1. n \in StoredIds
      BY <2>2 DEF StoredIds
    <3>2. n \in StoredIds' /\ messages'[n].request = messages[n].request /\ messages'[n].sender = messages[n].sender
      BY <3>1 DEF Moves
    <3> QED BY <1>2, <2>2, <3>2 DEF Written, StoredIds
  <2> QED BY <1>2, <2>1, <2>2 DEF Written
<1>3. ASSUME NEW y \in Slots, Writes(y)', NEW n \in slots'[y].ids
      PROVE  Written(y, n)'
  <2>1. CASE y # r
    <3>1. Writes(y) /\ slots'[y] = slots[y]
      BY <1>1, <1>3, <2>1
    <3>2. n \in MessageIds /\ Written(y, n)
      BY <1>3, <3>1, WriteShapes DEF Writes, WrittenInv
    <3> QED BY <1>2, <3>1, <3>2
  <2>2. CASE y = r
    <3>1. Onward(r, x) /\ n \in x.ids
      BY <1>1, <1>3, <2>2 DEF Moves, Newly
    <3>2. Writes(r) /\ x.sender = slots[r].sender /\ x.request = slots[r].request
      BY <3>1 DEF Onward
    <3>3. CASE n \in slots[r].ids
      <4>1. n \in MessageIds /\ Written(r, n)
        BY <3>2, <3>3, WriteShapes DEF Writes, WrittenInv
      <4> QED BY <1>1, <1>2, <2>2, <3>2, <4>1
    <3>4. CASE n \in StoredIds' \ StoredIds
      <4>1. messages'[n].request = slots[r].request /\ messages'[n].sender = slots[r].sender
        BY <3>4 DEF Moves
      <4> QED BY <1>1, <2>2, <3>2, <3>4, <4>1 DEF Written, StoredIds
    <3>5. CASE [request |-> x.request, sender |-> x.sender] \in dropped'
      BY <1>1, <2>2, <3>5 DEF Written
    <3> QED BY <3>1, <3>3, <3>4, <3>5 DEF Onward
  <2> QED BY <2>1, <2>2
<1> QED BY <1>3 DEF WrittenInv

LEMMA SendsToMember ==
  ASSUME NEW u, NEW q
  PROVE  q \in SendsTo(u) <=> \/ \E n \in StoredIds : messages[n].sender # u /\ q = messages[n].request
                              \/ \E d \in dropped : d.sender # u /\ q = d.request
BY DEF SendsTo

\* What has been counted for a user stays counted.
LEMMA CountedStays ==
  ASSUME Typed, Numbers, NEW r \in Slots, NEW x, Moves(r, x), NEW u \in Members
  PROVE  /\ CountedFor(u) \subseteq CountedFor(u)' /\ SendsTo(u) \subseteq SendsTo(u)'
         /\ \A y \in Slots : y # r => (Uncounted(y, u)' <=> Uncounted(y, u)) /\ slots'[y] = slots[y]
<1>1. /\ slots'[r] = x /\ \A y \in Slots : y # r => slots'[y] = slots[y]
      /\ Writes(r)' <=> x \in Write /\ Sound(x)
      /\ \A y \in Slots : y # r => (Writes(y)' <=> Writes(y))
  BY Elsewhere DEF Typed, Moves
<1>2. \A y \in Slots : y # r => (Uncounted(y, u)' <=> Uncounted(y, u))
  BY <1>1 DEF Uncounted
<1>3. ASSUME NEW q \in SendsTo(u) PROVE q \in SendsTo(u)' /\ q # started + 1
  <2>1. CASE \E n \in StoredIds : messages[n].sender # u /\ q = messages[n].request
    <3>1. PICK n \in StoredIds : messages[n].sender # u /\ q = messages[n].request
      BY <2>1
    <3>2. n \in StoredIds' /\ messages'[n].request = messages[n].request /\ messages'[n].sender = messages[n].sender
      BY <3>1 DEF Moves
    <3>3. messages[n].request \in Nat /\ messages[n].request <= started /\ started \in Nat
      <4>1. n \in MessageIds /\ messages[n] \in Message
        BY StoredType DEF StoredIds, Typed
      <4> QED BY <3>1, <4>1 DEF Message, Numbers, Typed, TablesOK
    <3> QED BY <3>1, <3>2, <3>3 DEF SendsTo
  <2>2. CASE \E d \in dropped : d.sender # u /\ q = d.request
    <3>1. PICK d \in dropped : d.sender # u /\ q = d.request
      BY <2>2
    <3>2. d \in dropped'
      BY <3>1 DEF Moves
    <3>3. d.request \in Nat /\ d.request <= started /\ started \in Nat
      BY <3>1 DEF Numbers, Typed, TablesOK
    <3> QED BY <3>1, <3>2, <3>3 DEF SendsTo
  <2> QED BY <2>1, <2>2, SendsToMember
<1>4. ASSUME NEW q \in CountedFor(u) PROVE q \in CountedFor(u)'
  <2>1. q \in SendsTo(u) /\ \A y \in Slots : Uncounted(y, u) => slots[y].request # q
    BY <1>4 DEF CountedFor
  <2>2. ASSUME Uncounted(r, u)' PROVE slots'[r].request # q
    <3>1. x \in Write /\ Sound(x) /\ u \in x.left /\ Has(x.todo, Asking \cup {"count"})
      BY <1>1, <2>2 DEF Uncounted
    <3>2. CASE Newly(x)
      BY <1>1, <1>3, <2>1, <3>2 DEF Newly
    <3>3. CASE Onward(r, x)
      <4>1. Uncounted(r, u) /\ x.request = slots[r].request
        BY <3>1, <3>3 DEF Onward, Uncounted
      <4> QED BY <1>1, <2>1, <4>1
    <3> QED BY <3>1, <3>2, <3>3 DEF Moves
  <2>3. \A y \in Slots : Uncounted(y, u)' => slots'[y].request # q
    BY <1>1, <1>2, <2>1, <2>2
  <2> QED BY <1>3, <2>1, <2>3 DEF CountedFor
<1> QED BY <1>1, <1>2, <1>3, <1>4

LEMMA CountedIsFinite ==
  ASSUME Typed', Numbers', NEW u \in Members
  PROVE  IsFiniteSet(CountedFor(u)') /\ Cardinality(CountedFor(u)') \in Nat
<1>1. started' \in Nat
  BY DEF Typed, TablesOK
<1>2. \A n \in StoredIds' : messages'[n].request \in 1..started'
  <2>1. \A m \in MessageIds : messages'[m] \in Message \cup {NoMessage}
    BY DEF Typed, TablesOK
  <2>2. \A n \in StoredIds' : messages'[n] \in Message
    BY <2>1 DEF StoredIds, IsStored, NoMessage
  <2> QED BY <1>1, <2>2 DEF Numbers, Message
<1>3. \A d \in dropped' : d.request \in 1..started'
  BY <1>1 DEF Numbers, Typed, TablesOK
<1>4. CountedFor(u)' \subseteq 1..started'
  BY <1>2, <1>3 DEF CountedFor, SendsTo
<1>5. PICK c, n : c = CountedFor(u)' /\ n = started'
  OBVIOUS
<1>6. IsFiniteSet(1..n)
  BY <1>1, <1>5, FS_Interval
<1>7. IsFiniteSet(c)
  BY <1>4, <1>5, <1>6, FS_Subset
<1> QED BY <1>5, <1>7, FS_CardinalityType

\* What was not more than the sends still is not.
LEMMA CountedGrows ==
  ASSUME Typed, Typed', Numbers, Numbers', NEW r \in Slots, NEW x, Moves(r, x),
         NEW u \in Members, NEW n \in Nat, n <= Cardinality(CountedFor(u))
  PROVE  n <= Cardinality(CountedFor(u)')
<1>1. CountedFor(u) \subseteq CountedFor(u)'
  BY CountedStays
<1>2. IsFiniteSet(CountedFor(u)') /\ Cardinality(CountedFor(u)') \in Nat
  BY CountedIsFinite
<1>3. Cardinality(CountedFor(u)) <= Cardinality(CountedFor(u)') /\ Cardinality(CountedFor(u)) \in Nat
  BY <1>1, <1>2, FS_Subset, FS_CardinalityType
<1> QED BY <1>2, <1>3

\* The row of a member that a request holds.
HeldRow(r, u) == slots[r].rows[u]

LEMMA HeldIsRow ==
  ASSUME NEW r \in Slots, Writes(r), NEW u \in DOMAIN slots[r].rows
  PROVE  u \in Members /\ HeldRow(r, u) \in MemberRow /\ HeldRow(r, u).unread \in Nat
<1>1. PICK rows : rows = slots[r].rows
  OBVIOUS
<1>2. rows \in Rows
  BY <1>1, WriteShapes DEF Writes
<1>3. PICK us \in SUBSET Members : rows \in [us -> MemberRow]
  BY <1>2 DEF Rows
<1>4. u \in us
  BY <1>1, <1>3
<1>5. rows[u] \in MemberRow
  BY <1>3, <1>4
<1>6. PICK row : row = rows[u]
  OBVIOUS
<1>7. row.unread \in Nat
  BY <1>5, <1>6 DEF MemberRow
<1> QED BY <1>1, <1>3, <1>4, <1>5, <1>6, <1>7 DEF HeldRow

\* A count that is put back.
Returned(r, u) == Writes(r) /\ u \in DOMAIN slots[r].rows /\ unread'[u] = HeldRow(r, u).unread

LEMMA CountGrows ==
  ASSUME Typed, Typed', Numbers, Numbers', UnreadInv, NEW r \in Slots, NEW x, Moves(r, x),
         NEW u \in Members, unread'[u] = unread[u] \/ unread'[u] = 0 \/ Returned(r, u)
  PROVE  unread'[u] <= Cardinality(CountedFor(u)')
<1>1. unread[u] <= Cardinality(CountedFor(u)) /\ unread[u] \in Nat
  BY DEF UnreadInv, Typed, TablesOK
<1>2. Cardinality(CountedFor(u)') \in Nat
  BY CountedIsFinite
<1>3. CASE Returned(r, u)
  <2>1. HeldRow(r, u).unread <= Cardinality(CountedFor(u))
    BY <1>3 DEF UnreadInv, Returned, HeldRow
  <2>2. HeldRow(r, u).unread \in Nat
    BY <1>3, HeldIsRow DEF Returned
  <2> QED BY <1>3, <2>1, <2>2, CountedGrows DEF Returned
<1> QED BY <1>1, <1>2, <1>3, CountedGrows

\* ... and so are the counts in the rows that are held.
LEMMA HeldCounts ==
  ASSUME Typed, Typed', Numbers, Numbers', UnreadInv, NEW r \in Slots, NEW x, Moves(r, x)
  PROVE  \A y \in Slots : Writes(y)' =>
           \A u \in DOMAIN slots'[y].rows : slots'[y].rows[u].unread <= Cardinality(CountedFor(u)')
<1>1. /\ slots'[r] = x /\ \A y \in Slots : y # r => slots'[y] = slots[y]
      /\ Writes(r)' <=> x \in Write /\ Sound(x)
      /\ \A y \in Slots : y # r => (Writes(y)' <=> Writes(y))
  BY Elsewhere DEF Typed, Moves
<1>2. ASSUME NEW y \in Slots, Writes(y), NEW u \in DOMAIN slots[y].rows
      PROVE  slots[y].rows[u].unread <= Cardinality(CountedFor(u)')
  <2>1. HeldRow(y, u).unread <= Cardinality(CountedFor(u))
    BY <1>2 DEF UnreadInv, HeldRow
  <2>2. u \in Members /\ HeldRow(y, u).unread \in Nat
    BY <1>2, HeldIsRow
  <2>3. HeldRow(y, u).unread <= Cardinality(CountedFor(u)')
    BY <2>1, <2>2, CountedGrows
  <2> QED BY <2>3 DEF HeldRow
<1>3. ASSUME NEW u \in DOMAIN x.rows, x \in Write, Sound(x)
      PROVE  x.rows[u].unread <= Cardinality(CountedFor(u)')
  <2>1. KeepsRows(slots[r], x) /\ Writes(r)
    BY <1>3 DEF Moves, Newly, Onward
  <2>2. CASE u \in DOMAIN slots[r].rows /\ x.rows[u] = slots[r].rows[u]
    BY <1>2, <2>1, <2>2
  <2>3. CASE x.rows[u] = Row(u)
    <3>1. x.rows[u].unread = unread[u]
      BY <2>3 DEF Row
    <3>2. u \in Members
      <4>1. x.rows \in Rows
        BY <1>3, WriteShapes
      <4> QED BY <1>3, <4>1 DEF Rows
    <3>3. unread[u] <= Cardinality(CountedFor(u)) /\ unread[u] \in Nat
      BY <3>2 DEF UnreadInv, Typed, TablesOK
    <3>4. unread[u] <= Cardinality(CountedFor(u)')
      BY <3>2, <3>3, CountedGrows
    <3> QED BY <3>1, <3>4
  <2> QED BY <2>1, <2>2, <2>3, <1>3 DEF KeepsRows
<1>4. ASSUME NEW y \in Slots, Writes(y)', NEW u \in DOMAIN slots'[y].rows
      PROVE  slots'[y].rows[u].unread <= Cardinality(CountedFor(u)')
  <2>1. CASE y = r
    BY <1>1, <1>3, <1>4, <2>1
  <2>2. CASE y # r
    <3>1. slots'[y] = slots[y] /\ Writes(y)
      BY <1>1, <1>4, <2>2
    <3> QED BY <1>2, <1>4, <3>1
  <2> QED BY <2>1, <2>2
<1> QED BY <1>4

\* One count for a member: of a request that has written, and was not counted.
LEMMA CountIsDue ==
  ASSUME Typed, Typed', Numbers, Numbers', WrittenInv, UnreadInv, NEW r \in Slots, NEW x, Moves(r, x),
         Writes(r), slots[r].todo[1].kind = "count", NEW u \in slots[r].left,
         unread'[u] = unread[u] + 1,
         x \in Write /\ Sound(x) => u \notin x.left \/ ~Has(x.todo, Asking \cup {"count"})
  PROVE  unread'[u] <= Cardinality(CountedFor(u)')
<1>1. PICK s : s = slots[r]
  OBVIOUS
<1>2. s \in Write /\ Sound(s) /\ u \in Members /\ s.request \in Nat
  BY <1>1, WriteShapes DEF Writes
<1>3. s.todo \in Seq(WriteRow) /\ 1 \in DOMAIN s.todo /\ DOMAIN s.todo = 1..Len(s.todo) /\ Order(s.todo, s.ids)
  BY <1>2, WriteShapes DEF Sound
<1>4. \A i \in DOMAIN s.todo : s.todo[i].kind \in Closing
  <2> SUFFICES ASSUME NEW i \in DOMAIN s.todo PROVE s.todo[i].kind \in Closing
    OBVIOUS
  <2>1. CASE i = 1
    BY <1>1, <2>1 DEF Closing
  <2>2. CASE i # 1
    <3>1. 1 < i
      BY <1>3, <2>2
    <3>2. s.todo[1].kind \in Closing
      BY <1>1 DEF Closing
    <3> QED BY <1>3, <3>1, <3>2 DEF Order
  <2> QED BY <2>1, <2>2
<1>5. s.ids # {}
  <2>1. ~Has(s.todo, Asking \cup Opening)
    BY <1>4 DEF Has, Closing, Asking, Opening, Inserts
  <2> QED BY <1>3, <2>1 DEF Order
<1>6. s.sender # u
  BY <1>1, <1>2 DEF Sound
<1>7. s.request \in SendsTo(u)
  <2>1. PICK n \in s.ids : Written(r, n)
    BY <1>1, <1>5 DEF WrittenInv
  <2>2. n \in MessageIds
    BY <1>2, WriteShapes
  <2>3. CASE IsStored(n) /\ messages[n].request = s.request /\ messages[n].sender = s.sender
    BY <1>6, <2>2, <2>3 DEF SendsTo, StoredIds
  <2>4. CASE [request |-> s.request, sender |-> s.sender] \in dropped
    <3>1. PICK d : d = [request |-> s.request, sender |-> s.sender]
      OBVIOUS
    <3>2. d \in dropped /\ d.request = s.request /\ d.sender = s.sender
      BY <2>4, <3>1
    <3> QED BY <1>6, <3>2, SendsToMember
  <2> QED BY <1>1, <2>1, <2>3, <2>4 DEF Written
<1>8. s.request \notin CountedFor(u)
  <2>1. Uncounted(r, u)
    BY <1>1, <1>3 DEF Uncounted, Has
  <2> QED BY <1>1, <2>1 DEF CountedFor
<1>9. s.request \in CountedFor(u)' /\ CountedFor(u) \subseteq CountedFor(u)'
  <2>1. /\ CountedFor(u) \subseteq CountedFor(u)' /\ SendsTo(u) \subseteq SendsTo(u)'
        /\ \A y \in Slots : y # r => (Uncounted(y, u)' <=> Uncounted(y, u)) /\ slots'[y] = slots[y]
    BY <1>2, CountedStays
  <2>2. ~Uncounted(r, u)'
    <3>1. slots'[r] = x
      BY Elsewhere DEF Typed, Moves
    <3> QED BY <3>1 DEF Uncounted, Writes
  <2>3. ASSUME NEW y \in Slots, Uncounted(y, u)' PROVE slots'[y].request # s.request
    <3>1. y # r /\ Uncounted(y, u) /\ slots'[y] = slots[y]
      BY <2>1, <2>2, <2>3
    <3> QED BY <1>1, <3>1 DEF Uncounted, Numbers
  <2> QED BY <1>7, <2>1, <2>3 DEF CountedFor
<1>10. IsFiniteSet(CountedFor(u)') /\ Cardinality(CountedFor(u)') \in Nat
  BY <1>2, CountedIsFinite
<1>11. IsFiniteSet(CountedFor(u)) /\ Cardinality(CountedFor(u)) \in Nat
  BY <1>9, <1>10, FS_Subset, FS_CardinalityType
<1>12. Cardinality(CountedFor(u) \cup {s.request}) = Cardinality(CountedFor(u)) + 1
  BY <1>8, <1>11, FS_AddElement
<1>13. CountedFor(u) \cup {s.request} \subseteq CountedFor(u)'
  BY <1>9
<1>14. Cardinality(CountedFor(u)) + 1 <= Cardinality(CountedFor(u)')
  BY <1>10, <1>12, <1>13, FS_Subset
<1>15. unread[u] <= Cardinality(CountedFor(u)) /\ unread[u] \in Nat
  BY <1>2 DEF UnreadInv, Typed, TablesOK
<1> QED BY <1>10, <1>11, <1>14, <1>15

-----------------------------------------------------------------------------
(* Every step moves one request *)

LEMMA TailDoesNotInsert ==
  ASSUME NEW s \in Write, Sound(s), Len(s.todo) # 1
  PROVE  Tail(s.todo)[1].kind \notin Inserts
<1>1. /\ s.todo \in Seq(WriteRow) /\ Order(s.todo, s.ids) /\ Len(s.todo) \in Nat /\ Len(s.todo) # 0
      /\ DOMAIN s.todo = 1..Len(s.todo)
  BY WriteShapes DEF Sound
<1>2. \A i \in 1..Len(s.todo) - 1 : Tail(s.todo)[i] = s.todo[i + 1]
  BY <1>1, Tails
<1>3. 1 \in 1..Len(s.todo) - 1 /\ 2 \in DOMAIN s.todo
  <2>1. PICK k : k = Len(s.todo)
    OBVIOUS
  <2>2. k \in Nat /\ k # 0 /\ k # 1
    BY <1>1, <2>1
  <2>3. 1 \in 1..k - 1 /\ 2 \in 1..k
    BY <2>2
  <2> QED BY <1>1, <2>1, <2>3
<1>4. Tail(s.todo)[1] = s.todo[2]
  BY <1>2, <1>3
<1> QED BY <1>1, <1>3, <1>4 DEF Order

LEMMA WriterMoves ==
  ASSUME TablesOK, NEW r \in Slots, Writes(r), NEW x, Becomes(r, x),
         messages' = messages \/ (\E n, m : Updates(n, m)), UNCHANGED <<built, started, dropped>>,
         \/ x = Idle
         \/ /\ Continues(slots[r], x) /\ x.ids = slots[r].ids /\ x.todo[1].kind \notin Inserts
            /\ Has(x.todo, Asking \cup {"count"}) => Has(slots[r].todo, Asking \cup {"count"})
  PROVE  Moves(r, x)
<1>1. started <= started' /\ built <= built'
  BY DEF TablesOK
<1>2. /\ StoredIds' = StoredIds
      /\ \A n \in StoredIds : messages'[n].request = messages[n].request /\ messages'[n].sender = messages[n].sender
  BY StoredOfSame
<1>3. x \in Write /\ Sound(x) => Onward(r, x)
  BY NoWriter DEF Onward, Continues
<1> QED BY <1>1, <1>2, <1>3 DEF Moves

LEMMA ActorMoves ==
  ASSUME TablesOK, NEW r \in Slots, NEW x, Becomes(r, x), x = Idle \/ x \in Action,
         messages' = messages \/ (\E n, m : Updates(n, m)), UNCHANGED <<built, started, dropped>>
  PROVE  Moves(r, x)
<1>1. started <= started' /\ built <= built'
  BY DEF TablesOK
<1>2. /\ StoredIds' = StoredIds
      /\ \A n \in StoredIds : messages'[n].request = messages[n].request /\ messages'[n].sender = messages[n].sender
  BY StoredOfSame
<1>3. ~(x \in Write /\ Sound(x))
  BY NoWriter
<1> QED BY <1>1, <1>2, <1>3 DEF Moves

LEMMA StartMoves ==
  ASSUME TablesOK, NEW r \in Slots, NEW x, Starts(r, x), NewWrite(x) \/ NewAction(x)
  PROVE  Moves(r, x) /\ unread' = unread
<1>1. started <= started' /\ built <= built' /\ Becomes(r, x) /\ unread' = unread /\ dropped' = dropped
      /\ messages' = messages
  BY DEF TablesOK, Starts, tables, markers
<1>2. /\ StoredIds' = StoredIds
      /\ \A n \in StoredIds : messages'[n].request = messages[n].request /\ messages'[n].sender = messages[n].sender
  BY <1>1, StoredOfSame
<1>3. x \in Write /\ Sound(x) => Newly(x)
  BY NoWriter DEF NewWrite, NewAction, Newly, Starts
<1> QED BY <1>1, <1>2, <1>3 DEF Moves

\* A call that counts one for a member, or none.
UnreadStep(r, x) ==
  \/ \A u \in Members : unread'[u] = unread[u] \/ unread'[u] = 0 \/ Returned(r, u)
  \/ /\ Writes(r) /\ slots[r].todo[1].kind = "count"
     /\ \E u \in slots[r].left :
          /\ \A v \in Members : v # u => unread'[v] = unread[v]
          /\ unread'[u] = unread[u] + 1
          /\ x \in Write /\ Sound(x) => u \notin x.left \/ ~Has(x.todo, Asking \cup {"count"})

LEMMA GoesOnMoves ==
  ASSUME Typed, NEW r \in Slots, GoesOn(r), messages' = messages, built' = built
  PROVE  /\ Moves(r, Rest(slots[r]))
         /\ slots[r].todo[1].kind = "count" /\ Rest(slots[r]) # Idle =>
              ~Has(Rest(slots[r]).todo, Asking \cup {"count"})
<1>1. PICK s, x : s = slots[r] /\ x = Rest(s)
  OBVIOUS
<1>2. /\ Writes(r) /\ s \in Write /\ Sound(s) /\ Becomes(r, x) /\ UNCHANGED Counters
      /\ s.todo[1].kind \notin Opening /\ s.todo[1].kind \notin Asking
  BY <1>1 DEF GoesOn, Writes
<1>3. /\ s.todo \in Seq(WriteRow) /\ Order(s.todo, s.ids) /\ Len(s.todo) \in Nat /\ Len(s.todo) # 0
      /\ DOMAIN s.todo = 1..Len(s.todo)
  BY <1>2, WriteShapes DEF Sound
<1>4. ASSUME x # Idle
      PROVE  Len(s.todo) # 1 /\ Continues(s, x) /\ x.todo = Tail(s.todo) /\ x.ids = s.ids
  <2>1. Len(s.todo) # 1
    BY <1>1, <1>4 DEF Rest
  <2> QED BY <1>1, <1>2, <2>1, RestContinues
<1>5. Moves(r, x)
  <2>1. CASE x = Idle
    BY <1>2, <2>1, WriterMoves DEF Typed, Counters
  <2>2. CASE x # Idle
    <3>1. x.todo[1].kind \notin Inserts
      BY <1>2, <1>4, <2>2, TailDoesNotInsert
    <3>2. Has(x.todo, Asking \cup {"count"}) => Has(s.todo, Asking \cup {"count"})
      BY <1>3, <1>4, <2>2, HasTail
    <3> QED BY <1>1, <1>2, <1>4, <2>2, <3>1, <3>2, WriterMoves DEF Typed, Counters
  <2> QED BY <2>1, <2>2
<1>6. ASSUME s.todo[1].kind = "count", x # Idle
      PROVE  ~Has(x.todo, Asking \cup {"count"})
  <2>1. /\ x.todo = Tail(s.todo) /\ DOMAIN Tail(s.todo) = 1..Len(s.todo) - 1
        /\ \A i \in 1..Len(s.todo) - 1 : Tail(s.todo)[i] = s.todo[i + 1]
    BY <1>3, <1>4, <1>6, Tails
  <2>2. ASSUME NEW i \in DOMAIN x.todo PROVE x.todo[i].kind \notin Asking \cup {"count"}
    <3>1. i \in Nat \ {0} /\ 1 \in DOMAIN s.todo /\ i + 1 \in DOMAIN s.todo /\ x.todo[i] = s.todo[i + 1]
      BY <1>3, <2>1, <2>2
    <3>2. s.todo[1].kind \in Closing /\ 1 < i + 1
      BY <1>6, <3>1 DEF Closing
    <3>3. s.todo[i + 1].kind \in Closing
      BY <1>3, <3>1, <3>2 DEF Order
    <3>4. s.todo[i + 1].kind # "count"
      BY <1>3, <1>6, <3>1, <3>2 DEF Order
    <3> QED BY <3>1, <3>3, <3>4 DEF Closing, Asking
  <2> QED BY <2>2 DEF Has
<1> QED BY <1>1, <1>5, <1>6

\* A request that gets its reservation starts to build.
LEMMA ReservedFirst ==
  ASSUME NEW type
  PROVE  (WriteCalls(type) \o <<[kind |-> "complete"]>>)[1].kind \notin Inserts
<1>1. PICK b, c, f, d : /\ b = BuildCalls(type) /\ c = ClassifyCalls(type) /\ f = FollowCalls
                        /\ d = <<[kind |-> "complete"]>>
  OBVIOUS
<1>2. b \in Seq(WriteRow)
  BY <1>1, StartKinds
<1>3. f \in Seq(WriteRow)
  BY <1>1, Closings DEF Ending
<1>4. d \in Seq(WriteRow) /\ c \in Seq(WriteRow)
  <2>1. [kind |-> "complete"] \in WriteRow /\ [kind |-> "classify"] \in WriteRow
    BY Kinds DEF PlainKinds, Closing
  <2>2. d \in Seq(WriteRow)
    BY <2>1, <1>1, One
  <2>3. <<[kind |-> "classify"]>> \in Seq(WriteRow) /\ <<>> \in Seq(WriteRow)
    BY <2>1, One
  <2>4. c = <<>> \/ c = <<[kind |-> "classify"]>>
    BY <1>1 DEF ClassifyCalls
  <2> QED BY <2>2, <2>3, <2>4
<1>5. c \o f \in Seq(WriteRow) /\ (c \o f) \o d \in Seq(WriteRow)
  BY <1>3, <1>4
<1>6. ((b \o c) \o f) \o d = b \o ((c \o f) \o d)
  <2>1. \A x, y, z \in Seq(WriteRow) : (x \o y) \o z = x \o (y \o z)
    BY ConcatAssociative
  <2>2. (b \o c) \o f = b \o (c \o f)
    BY <2>1, <1>2, <1>3, <1>4, ZenonT(30)
  <2>3. \A x \in Seq(WriteRow) : (b \o x) \o d = b \o (x \o d)
    BY <2>1, <1>2, <1>4, ZenonT(30)
  <2>4. (b \o (c \o f)) \o d = b \o ((c \o f) \o d)
    BY <1>5, <2>3, ZenonT(30)
  <2> QED BY <2>2, <2>4
<1>7. (b \o ((c \o f) \o d))[1].kind = "build"
  BY <1>1, <1>5, StartKinds
<1> QED BY <1>1, <1>6, <1>7 DEF WriteCalls, Inserts

LEMMA AskingMoves ==
  ASSUME Typed, NEW r \in Slots,
         FindClientMessages(r) \/ ReserveClientMessage(r) \/ WaitForClientMessages(r) \/ GiveUpWaiting(r)
  PROVE  unread' = unread /\ \E x : Moves(r, x)
<1>1. SlotsOK /\ TablesOK
  BY DEF Typed
<1>2. PICK s : s = slots[r]
  OBVIOUS
\* The call after find and reserve: of a request that still asked.
<1>3. ASSUME NEW t, t \in Seq(WriteRow), t[1].kind \notin Inserts,
             Writes(r), Has(s.todo, Asking), Becomes(r, With(s, t)), Continues(s, With(s, t)),
             UNCHANGED <<built, messages, Counters>>
      PROVE  \E x : Moves(r, x)
  <2>1. PICK x : x = With(s, t)
    OBVIOUS
  <2>2. x.todo = t /\ x.ids = s.ids
    BY <1>2, <1>3, <2>1 DEF With, Write, Writes
  <2>3. Has(s.todo, Asking \cup {"count"})
    BY <1>3 DEF Has
  <2>4. Moves(r, x)
    BY <1>1, <1>2, <1>3, <2>1, <2>2, <2>3, WriterMoves DEF Counters
  <2> QED BY <2>4
<1>4. CASE FindClientMessages(r)
  <2>1. Writes(r) /\ Has(s.todo, Asking) /\ UNCHANGED <<built, tables, Counters>>
    BY <1>1, <1>2, <1>4, FindEffect
  <2>2. PICK kind \in {"wait", "reserve"} :
          Becomes(r, With(s, <<[kind |-> kind]>>)) /\ Continues(s, With(s, <<[kind |-> kind]>>))
    BY <1>1, <1>2, <1>4, FindEffect
  <2>3. PICK t : t = <<[kind |-> kind]>>
    OBVIOUS
  <2>4. t \in Seq(WriteRow) /\ t[1].kind = kind
    BY <2>3, OrderOfAsking DEF Asking
  <2>5. t[1].kind \notin Inserts
    BY <2>4 DEF Inserts
  <2> QED BY <1>3, <2>1, <2>2, <2>3, <2>4, <2>5 DEF tables, markers
<1>5. CASE ReserveClientMessage(r)
  <2>1. Writes(r) /\ Has(s.todo, Asking) /\ UNCHANGED <<built, messages, conv, pinned, classified, markers, Counters>>
    BY <1>1, <1>2, <1>5, ReserveEffect
  <2>2. PICK t, w : t = WriteCalls(s.type) \o <<[kind |-> "complete"]>> /\ w = <<[kind |-> "wait"]>>
    OBVIOUS
  <2>3. \/ Becomes(r, With(s, t)) /\ Continues(s, With(s, t))
        \/ Becomes(r, With(s, w)) /\ Continues(s, With(s, w))
    BY <1>1, <1>2, <1>5, <2>2, ReserveEffect
  <2>4. t \in Seq(WriteRow) /\ t[1].kind \notin Inserts
    BY <2>2, StartTodos, ReservedFirst DEF StartTodo
  <2>5. w \in Seq(WriteRow) /\ w[1].kind = "wait"
    BY <2>2, OrderOfAsking DEF Asking
  <2>6. w[1].kind \notin Inserts
    BY <2>5 DEF Inserts
  <2> QED BY <1>3, <2>1, <2>3, <2>4, <2>5, <2>6 DEF markers
<1>6. CASE WaitForClientMessages(r) \/ GiveUpWaiting(r)
  <2>1. Writes(r) /\ Becomes(r, Idle) /\ UNCHANGED <<built, tables, Counters>>
    BY <1>1, <1>6, WaitEffect
  <2> QED BY <1>1, <2>1, WriterMoves DEF tables, markers, Counters
<1> QED BY <1>4, <1>5, <1>6

LEMMA BuildMoves ==
  ASSUME Typed, NEW r \in Slots, BuildMessage(r)
  PROVE  unread' = unread /\ \E x : Moves(r, x)
<1>1. SlotsOK /\ TablesOK /\ built \in Nat
  BY DEF Typed, TablesOK
<1>2. PICK s : s = slots[r]
  OBVIOUS
<1>3. /\ Writes(r) /\ s.todo[1].kind \in {"build", "buildBatch"} /\ built' = built + 1 /\ UNCHANGED <<tables, Counters>>
      /\ \E c \in WriteRow :
           LET t == <<c>> \o Tail(s.todo)
           IN /\ c.kind \in Inserts /\ c.id = built + 1 /\ Becomes(r, With(s, t)) /\ Continues(s, With(s, t))
              /\ With(s, t).todo = t /\ With(s, t).ids = s.ids
  BY <1>1, <1>2, BuildEffect
<1>4. PICK c, t, x :
        /\ c \in WriteRow
        /\ t = <<c>> \o Tail(s.todo) /\ x = With(s, t)
        /\ c.kind \in Inserts /\ c.id = built + 1 /\ Becomes(r, x) /\ Continues(s, x) /\ x.todo = t /\ x.ids = s.ids
  BY <1>3
<1>5. s.todo \in Seq(WriteRow) /\ Len(s.todo) # 0
  BY <1>2, <1>3, WriteShapes DEF Writes
<1>6. Has(x.todo, Asking \cup {"count"}) => Has(s.todo, Asking \cup {"count"})
  <2>1. c.kind \notin Asking \cup {"count"}
    BY <1>4 DEF Inserts, Asking
  <2> QED BY <1>4, <1>5, <2>1, HasReplaced, ZenonT(40)
<1>7. x.todo[1] = c
  BY <1>4, <1>5, Replaced
<1>8. Onward(r, x)
  BY <1>2, <1>3, <1>4, <1>6, <1>7 DEF Onward, Continues
<1>9. started <= started' /\ built <= built' /\ dropped' = dropped /\ messages' = messages
  BY <1>1, <1>3 DEF TablesOK, tables, Counters
<1>10. StoredIds' = StoredIds
  BY <1>9, StoredSame
<1>11. Moves(r, x)
  BY <1>4, <1>8, <1>9, <1>10 DEF Moves
<1> QED BY <1>3, <1>11 DEF tables, markers

LEMMA InsertMoves ==
  ASSUME Typed, Numbers, NEW r \in Slots, InsertMessage(r)
  PROVE  unread' = unread /\ \E x : Moves(r, x)
<1>1. SlotsOK /\ TablesOK
  BY DEF Typed
<1>2. PICK n, s, x, m : /\ n = Call(r).id /\ s = slots[r] /\ x = Inserted(s, s.ids \cup {n})
                        /\ m = [sender |-> s.sender, client |-> s.client, request |-> s.request, type |-> s.type,
                                text |-> "original", revoked |-> FALSE, deletedFor |-> {}]
  OBVIOUS
<1>3. /\ Writes(r) /\ Inserting(r) /\ s.todo[1].kind \in Inserts /\ n \in MessageIds
      /\ messages' = [messages EXCEPT ![n] = m]
      /\ Becomes(r, x) /\ Continues(s, x) /\ x.todo = Tail(s.todo) /\ x.ids = s.ids \cup {n}
      /\ UNCHANGED <<built, reserved, conv, pinned, classified, markers, Counters>>
  BY <1>1, <1>2, InsertEffect
<1>4. s \in Write /\ Sound(s)
  BY <1>2, <1>3 DEF Writes
<1>5. s.todo \in Seq(WriteRow) /\ Len(s.todo) # 0 /\ Len(s.todo) # 1
  <2>1. s.todo \in Seq(WriteRow) /\ Len(s.todo) # 0
    BY <1>4, WriteShapes
  <2>2. Len(s.todo) # 1
    BY <1>3, <1>4, InsertedContinues
  <2> QED BY <2>1, <2>2
<1>6. m \in Message /\ m.sender = s.sender /\ m.request = s.request
  BY <1>2, <1>4, WriteShapes DEF Message
<1>7. /\ messages'[n] = m /\ \A k \in MessageIds : k # n => messages'[k] = messages[k]
      /\ StoredIds' = StoredIds \cup {n}
  BY <1>1, <1>3, <1>6, RowWritten
<1>8. n = Target(r) /\ n \notin StoredIds
  BY <1>2, <1>3 DEF Target, Numbers
<1>9. x.todo[1].kind \notin Inserts /\ (Has(x.todo, Asking \cup {"count"}) => Has(s.todo, Asking \cup {"count"}))
  BY <1>3, <1>4, <1>5, TailDoesNotInsert, HasTail
<1>10. Onward(r, x)
  BY <1>2, <1>3, <1>7, <1>8, <1>9 DEF Onward, Continues
<1>11. started <= started' /\ built <= built' /\ dropped' = dropped
  BY <1>1, <1>3 DEF TablesOK, Counters
<1>12. \A i \in StoredIds : i \in MessageIds /\ i # n
  BY <1>8 DEF StoredIds
<1>13. Moves(r, x)
  BY <1>2, <1>3, <1>6, <1>7, <1>8, <1>10, <1>11, <1>12 DEF Moves
<1> QED BY <1>3, <1>13 DEF markers

LEMMA DropMoves ==
  ASSUME Typed, NEW r \in Slots, DropUnprocessed(r)
  PROVE  unread' = unread /\ \E x : Moves(r, x)
<1>1. SlotsOK /\ TablesOK
  BY DEF Typed
<1>2. PICK n, s, x, d : /\ n = Call(r).id /\ s = slots[r] /\ x = Inserted(s, {n})
                        /\ d = [request |-> s.request, sender |-> s.sender]
  OBVIOUS
<1>3. /\ Writes(r) /\ s.todo[1].kind \in Inserts /\ n \in MessageIds
      /\ dropped' = dropped \cup {d}
      /\ Becomes(r, x) /\ Continues(s, x) /\ x.todo = Tail(s.todo) /\ x.ids = {n}
      /\ UNCHANGED <<built, tables, started>>
  BY <1>1, <1>2, DropEffect
<1>4. s \in Write /\ Sound(s)
  BY <1>2, <1>3 DEF Writes
<1>5. s.todo \in Seq(WriteRow) /\ Len(s.todo) # 0 /\ Len(s.todo) # 1
  <2>1. s.todo \in Seq(WriteRow) /\ Len(s.todo) # 0
    BY <1>4, WriteShapes
  <2>2. Len(s.todo) # 1
    BY <1>3, <1>4, InsertedContinues
  <2> QED BY <2>1, <2>2
<1>6. x.todo[1].kind \notin Inserts /\ (Has(x.todo, Asking \cup {"count"}) => Has(s.todo, Asking \cup {"count"}))
  BY <1>3, <1>4, <1>5, TailDoesNotInsert, HasTail
<1>7. [request |-> x.request, sender |-> x.sender] \in dropped'
  BY <1>2, <1>3 DEF Continues
<1>8. Onward(r, x)
  BY <1>2, <1>3, <1>6, <1>7 DEF Onward, Continues
<1>9. started <= started' /\ built <= built' /\ messages' = messages /\ unread' = unread
  BY <1>1, <1>3 DEF TablesOK, tables, markers
<1>10. StoredIds' = StoredIds
  BY <1>9, StoredSame
<1>11. Moves(r, x)
  BY <1>2, <1>3, <1>8, <1>9, <1>10 DEF Moves
<1> QED BY <1>9, <1>11

LEMMA FollowMoves ==
  ASSUME Typed, NEW r \in Slots,
         \/ Classify(r) \/ SetLastMessage(r) \/ WritePinned(r) \/ IncrementUnread(r) \/ CompleteClientMessage(r)
  PROVE  \E x : Moves(r, x) /\ UnreadStep(r, x)
<1>1. SlotsOK /\ TablesOK
  BY DEF Typed
<1>2. CASE Classify(r) \/ SetLastMessage(r) \/ WritePinned(r)
  <2>1. GoesOn(r) /\ UNCHANGED <<built, messages, unread>>
    BY <1>1, <1>2, FollowEffect DEF markers
  <2>2. PICK x : x = Rest(slots[r])
    OBVIOUS
  <2> QED BY <2>1, <2>2, GoesOnMoves DEF UnreadStep
<1>3. CASE CompleteClientMessage(r)
  <2>1. Writes(r) /\ UNCHANGED <<built, messages, unread>>
    BY <1>1, <1>3, CompleteEffect DEF markers
  <2>2. (Becomes(r, Idle) /\ UNCHANGED Counters) \/ GoesOn(r)
    BY <1>1, <1>3, CompleteEffect
  <2>3. CASE Becomes(r, Idle) /\ UNCHANGED Counters
    BY <1>1, <2>1, <2>3, WriterMoves DEF UnreadStep, Counters
  <2>4. CASE GoesOn(r)
    BY <2>1, <2>4, GoesOnMoves DEF UnreadStep
  <2> QED BY <2>2, <2>3, <2>4
<1>4. CASE IncrementUnread(r)
  <2>1. PICK s : s = slots[r]
    OBVIOUS
  <2>2. Writes(r) /\ s.todo[1].kind = "count" /\ UNCHANGED <<built, messages, Counters>>
    BY <1>1, <1>4, <2>1, CountEffect
  <2>3. s \in Write /\ Sound(s) /\ s.left \subseteq Members
    BY <2>1, <2>2, WriteShapes DEF Writes
  <2>4. CASE unread' = unread /\ GoesOn(r)
    BY <2>2, <2>4, GoesOnMoves DEF UnreadStep
  <2>5. ASSUME NEW u \in s.left, unread' = [unread EXCEPT ![u] = unread[u] + 1]
        PROVE  unread'[u] = unread[u] + 1 /\ \A v \in Members : v # u => unread'[v] = unread[v]
    BY <1>1, <2>3, <2>5 DEF TablesOK
  <2>6. ASSUME NEW u \in s.left, unread' = [unread EXCEPT ![u] = unread[u] + 1], GoesOn(r)
        PROVE  \E x : Moves(r, x) /\ UnreadStep(r, x)
    <3>1. PICK x : x = Rest(s)
      OBVIOUS
    <3>2. Moves(r, x) /\ (x # Idle => ~Has(x.todo, Asking \cup {"count"}))
      BY <2>1, <2>2, <2>6, <3>1, GoesOnMoves
    <3>3. x \in Write /\ Sound(x) => ~Has(x.todo, Asking \cup {"count"})
      BY <3>2, WriteShapes
    <3>4. UnreadStep(r, x)
      BY <2>1, <2>2, <2>5, <2>6, <3>3 DEF UnreadStep
    <3> QED BY <3>2, <3>4
  <2>7. ASSUME NEW u \in s.left, unread' = [unread EXCEPT ![u] = unread[u] + 1],
               Becomes(r, Counted(s, u)), Continues(s, Counted(s, u)), Counted(s, u).todo = s.todo,
               Counted(s, u).ids = s.ids, Counted(s, u).left = s.left \ {u}
        PROVE  \E x : Moves(r, x) /\ UnreadStep(r, x)
    <3>1. PICK x : x = Counted(s, u)
      OBVIOUS
    <3>2. x.todo[1].kind \notin Inserts
      BY <2>2, <2>7, <3>1 DEF Inserts
    <3>3. Moves(r, x)
      BY <1>1, <2>1, <2>2, <2>7, <3>1, <3>2, WriterMoves DEF Counters
    <3>4. UnreadStep(r, x)
      BY <2>1, <2>2, <2>5, <2>7, <3>1 DEF UnreadStep
    <3> QED BY <3>3, <3>4
  <2>8. \/ unread' = unread /\ GoesOn(r)
        \/ \E u \in s.left :
             /\ unread' = [unread EXCEPT ![u] = unread[u] + 1]
             /\ \/ GoesOn(r)
                \/ /\ Becomes(r, Counted(s, u)) /\ Continues(s, Counted(s, u))
                   /\ Counted(s, u).todo = s.todo /\ Counted(s, u).ids = s.ids
                   /\ Counted(s, u).left = s.left \ {u}
    BY <1>1, <1>4, <2>1, CountEffect
  <2> QED BY <2>4, <2>6, <2>7, <2>8
<1> QED BY <1>2, <1>3, <1>4

LEMMA RowsMove ==
  ASSUME Typed, NEW r \in Slots, ReadRows(r) \/ PutRow(r)
  PROVE  \E x : Moves(r, x) /\ UnreadStep(r, x)
<1>1. SlotsOK /\ TablesOK
  BY DEF Typed
<1>2. PICK s : s = slots[r]
  OBVIOUS
<1>3. CASE ReadRows(r)
  <2>1. /\ Writes(r) /\ Len(s.todo) # 1 /\ s.todo[1].kind = "readRows"
        /\ UNCHANGED <<built, tables, Counters>>
        /\ \E x : Becomes(r, x) /\ Continues(s, x) /\ x.todo = Tail(s.todo) /\ x.ids = s.ids
    BY <1>1, <1>2, <1>3, ReadEffect
  <2>2. PICK x : Becomes(r, x) /\ Continues(s, x) /\ x.todo = Tail(s.todo) /\ x.ids = s.ids
    BY <2>1
  <2>3. s \in Write /\ Sound(s) /\ s.todo \in Seq(WriteRow) /\ Len(s.todo) # 0
    BY <1>2, <2>1, WriteShapes DEF Writes
  <2>4. x.todo[1].kind \notin Inserts /\ (Has(x.todo, Asking \cup {"count"}) => Has(s.todo, Asking \cup {"count"}))
    BY <2>1, <2>2, <2>3, TailDoesNotInsert, HasTail
  <2>5. UNCHANGED <<messages, unread, built, started, dropped>>
    BY <2>1 DEF tables, markers, Counters
  <2>6. Moves(r, x)
    BY <1>1, <1>2, <2>1, <2>2, <2>4, <2>5, WriterMoves
  <2> QED BY <2>5, <2>6 DEF UnreadStep
<1>4. CASE PutRow(r)
  <2>1. /\ Writes(r) /\ s.todo[1].kind = "putRows" /\ UNCHANGED <<built, messages, Counters>>
        /\ \E u \in DOMAIN s.rows : PutsBack(u, s.rows[u])
        /\ GoesOn(r) \/ \E x : Becomes(r, x) /\ Continues(s, x) /\ x.todo = s.todo /\ x.ids = s.ids
    BY <1>1, <1>2, <1>4, PutEffect
  <2>2. PICK u \in DOMAIN s.rows : unread' = [unread EXCEPT ![u] = s.rows[u].unread]
    BY <2>1 DEF PutsBack
  <2>3. \A v \in Members : unread'[v] = unread[v] \/ Returned(r, v)
    BY <1>1, <1>2, <2>1, <2>2 DEF TablesOK, Returned, HeldRow
  <2>4. CASE GoesOn(r)
    BY <2>1, <2>3, <2>4, GoesOnMoves DEF UnreadStep
  <2>5. CASE \E x : Becomes(r, x) /\ Continues(s, x) /\ x.todo = s.todo /\ x.ids = s.ids
    <3>1. PICK x : Becomes(r, x) /\ Continues(s, x) /\ x.todo = s.todo /\ x.ids = s.ids
      BY <2>5
    <3>2. x.todo[1].kind \notin Inserts
      BY <2>1, <3>1 DEF Inserts
    <3>3. Moves(r, x)
      BY <1>1, <1>2, <2>1, <3>1, <3>2, WriterMoves DEF Counters
    <3> QED BY <2>3, <3>3 DEF UnreadStep
  <2> QED BY <2>1, <2>4, <2>5
<1> QED BY <1>3, <1>4

\* A message action, or the update of a marker.
LEMMA ActionMoves ==
  ASSUME Typed, Typed', NEW r \in Slots,
         \/ UpdateText(r) \/ WriteTombstone(r) \/ Declassify(r) \/ CheckLast(r) \/ SetPreview(r)
         \/ WriteDeletedFor(r) \/ ReadLatest(r) \/ AdvanceSeen(r) \/ AdvanceDelivered(r) \/ WriteCutoff(r)
  PROVE  /\ \A u \in Members : unread'[u] = unread[u] \/ unread'[u] = 0
         /\ messages' = messages \/ (\E n, m : Updates(n, m))
         /\ UNCHANGED <<built, reserved, Counters>>
         /\ \E x : Becomes(r, x) /\ (x = Idle \/ x \in Action)
<1>1. SlotsOK /\ TablesOK
  BY DEF Typed
<1>2. CASE UpdateText(r)
  <2>1. Becomes(r, Idle) /\ UNCHANGED <<built, reserved, unread, Counters>>
    BY <1>1, <1>2, EditEffect DEF markers
  <2>2. \E m : Updates(Call(r).id, m)
    BY <1>1, <1>2, UpdateEffect
  <2> QED BY <2>1, <2>2
<1>3. CASE WriteTombstone(r)
  <2>1. /\ Call(r).id \in MessageIds /\ Becomes(r, [todo |-> RevokeRest(Call(r).id)])
        /\ UNCHANGED <<built, reserved, unread, Counters>>
    BY <1>1, <1>3, RevokeEffect DEF markers
  <2>2. \E m : Updates(Call(r).id, m)
    BY <1>1, <1>3, UpdateEffect
  <2>3. [todo |-> RevokeRest(Call(r).id)] \in Action
    BY <2>1 DEF Action, ActionTodos, RevokeRest
  <2> QED BY <2>1, <2>2, <2>3
<1>4. CASE Declassify(r)
  <2>1. /\ Call(r).id \in MessageIds /\ Becomes(r, [todo |-> <<[kind |-> "checkLast", id |-> Call(r).id]>>])
        /\ UNCHANGED <<built, messages, reserved, unread, Counters>>
    BY <1>1, <1>4, RevokeEffect DEF markers
  <2>2. PICK c : c = [kind |-> "checkLast", id |-> Call(r).id]
    OBVIOUS
  <2>3. c \in ActionRow
    BY <2>1, <2>2 DEF ActionRow
  <2>4. [todo |-> <<c>>] \in Action
    BY <2>3 DEF Action, ActionTodos
  <2> QED BY <2>1, <2>2, <2>4
<1>5. CASE CheckLast(r)
  <2>1. /\ Call(r).id \in MessageIds
        /\ Becomes(r, [todo |-> <<[kind |-> "setPreview", id |-> Call(r).id]>>]) \/ Becomes(r, Idle)
        /\ UNCHANGED <<built, messages, reserved, unread, Counters>>
    BY <1>1, <1>5, PreviewEffect DEF tables, markers
  <2>2. PICK c : c = [kind |-> "setPreview", id |-> Call(r).id]
    OBVIOUS
  <2>3. c \in ActionRow
    BY <2>1, <2>2 DEF ActionRow
  <2>4. [todo |-> <<c>>] \in Action
    BY <2>3 DEF Action, ActionTodos
  <2> QED BY <2>1, <2>2, <2>4
<1>6. CASE SetPreview(r)
  <2>1. Becomes(r, Idle) /\ UNCHANGED <<built, messages, reserved, unread, Counters>>
    BY <1>1, <1>6, PreviewEffect DEF markers
  <2> QED BY <2>1
<1>7. CASE WriteDeletedFor(r)
  <2>1. UNCHANGED <<built, reserved, unread, Counters>>
    BY <1>1, <1>7, HideEffect DEF markers
  <2>2. \E n, m : Updates(n, m)
    BY <1>1, <1>7, UpdateEffect
  <2>3. PICK x : Becomes(r, x) /\ (x = Idle \/ \E l : x = [todo |-> <<[kind |-> "hide", lists |-> l]>>])
    BY <1>1, <1>7, HideEffect
  <2>4. x = Idle \/ x \in Action
    <3>1. CASE \E l : x = [todo |-> <<[kind |-> "hide", lists |-> l]>>]
      <4>1. PICK l : x = [todo |-> <<[kind |-> "hide", lists |-> l]>>]
        BY <3>1
      <4>2. PICK c : c = [kind |-> "hide", lists |-> l]
        OBVIOUS
      <4>3. slots'[r] = x
        BY <1>1, <2>3 DEF SlotsOK, Becomes
      <4>4. x = Idle \/ (x \in Write /\ Sound(x)) \/ x \in Action
        BY <4>3 DEF Typed, SlotsOK, Writes, Acts
      <4>5. x.todo[1].kind = "hide"
        BY <4>1
      <4>6. ~(x \in Write /\ Sound(x))
        BY <4>5, WriteShapes DEF WriteKinds, PlainKinds, TargetKinds, Inserts, Asking, Closing
      <4> QED BY <4>4, <4>6
    <3> QED BY <2>3, <3>1
  <2> QED BY <2>1, <2>2, <2>3, <2>4
<1>8. CASE ReadLatest(r)
  <2>1. /\ UNCHANGED <<built, messages, reserved, unread, Counters>>
        /\ \E c \in ActionRow : Becomes(r, [todo |-> <<c>>])
    BY <1>1, <1>8, MarkEffect DEF tables, markers
  <2>2. \A c \in ActionRow : [todo |-> <<c>>] \in Action
    BY DEF Action, ActionTodos
  <2> QED BY <2>1, <2>2
<1>9. CASE AdvanceSeen(r) \/ AdvanceDelivered(r) \/ WriteCutoff(r)
  <2>1. /\ Becomes(r, Idle) /\ UNCHANGED <<built, messages, reserved, Counters>>
        /\ unread' = unread \/ \E u \in Members : unread' = [unread EXCEPT ![u] = 0]
    BY <1>1, <1>9, MarkEffect
  <2>2. \A u \in Members : unread'[u] = unread[u] \/ unread'[u] = 0
    BY <1>1, <2>1 DEF TablesOK
  <2> QED BY <2>1, <2>2
<1> QED BY <1>2, <1>3, <1>4, <1>5, <1>6, <1>7, <1>8, <1>9

\* A step moves one request, or takes away a reservation when there is none.
LEMMA StepMoves ==
  ASSUME Typed, Typed', Numbers, [Next]_vars
  PROVE  \/ \E r \in Slots : \E x : Moves(r, x) /\ UnreadStep(r, x)
         \/ UNCHANGED <<built, messages, slots, started, dropped, unread>>
<1>1. SlotsOK /\ TablesOK
  BY DEF Typed
<1>2. ASSUME NEW r \in Slots, UseCase(r) PROVE \E x : Moves(r, x) /\ UnreadStep(r, x)
  BY <1>1, <1>2, UseCaseEffect, StartMoves DEF UnreadStep
<1>3. ASSUME NEW r \in Slots, CallFails(r) PROVE \E x : Moves(r, x) /\ UnreadStep(r, x)
  <2>1. Becomes(r, Idle) /\ UNCHANGED <<built, tables, started, dropped>>
    BY <1>3, FailEffect
  <2> QED BY <1>1, <2>1, ActorMoves DEF UnreadStep, tables, markers
<1>4. ASSUME NEW r \in Slots,
             \/ UpdateText(r) \/ WriteTombstone(r) \/ Declassify(r) \/ CheckLast(r) \/ SetPreview(r)
             \/ WriteDeletedFor(r) \/ ReadLatest(r) \/ AdvanceSeen(r) \/ AdvanceDelivered(r) \/ WriteCutoff(r)
      PROVE  \E x : Moves(r, x) /\ UnreadStep(r, x)
  BY <1>1, <1>4, ActionMoves, ActorMoves DEF UnreadStep, Counters
<1>5. ASSUME NEW r \in Slots, DatabaseCall(r) PROVE \E x : Moves(r, x) /\ UnreadStep(r, x)
  <2>1. CASE \/ FindClientMessages(r) \/ ReserveClientMessage(r) \/ WaitForClientMessages(r) \/ GiveUpWaiting(r)
             \/ BuildMessage(r) \/ InsertMessage(r) \/ DropUnprocessed(r)
    BY <2>1, AskingMoves, BuildMoves, InsertMoves, DropMoves DEF UnreadStep
  <2>2. CASE \/ Classify(r) \/ SetLastMessage(r) \/ WritePinned(r) \/ IncrementUnread(r) \/ CompleteClientMessage(r)
    BY <2>2, FollowMoves
  <2>3. CASE ReadRows(r) \/ PutRow(r)
    BY <2>3, RowsMove
  <2> QED BY <1>3, <1>4, <1>5, <2>1, <2>2, <2>3 DEF DatabaseCall
<1>6. ASSUME NEW u \in Members, NEW k \in ClientIds, ExpireReservation(u, k)
      PROVE  UNCHANGED <<built, messages, slots, started, dropped, unread>>
  BY <1>1, <1>6, ExpireEffect DEF markers, Counters
<1>7. CASE UNCHANGED vars
  BY <1>7 DEF vars, tables, markers
<1> QED BY <1>2, <1>5, <1>6, <1>7 DEF Next

-----------------------------------------------------------------------------
(* Unread counts: each step *)

LEMMA StillCounted ==
  ASSUME Numbers, WrittenInv, UnreadInv, UNCHANGED <<built, messages, slots, started, dropped, unread>>
  PROVE  Numbers' /\ WrittenInv' /\ UnreadInv'
<1>1. StoredIds' = StoredIds
  BY StoredSame
<1>2. Numbers'
  BY <1>1 DEF Numbers, Writes, Inserting, Doing, Busy, Target, Call
<1>3. WrittenInv'
  BY DEF WrittenInv, Written, Writes, IsStored
<1>4. ASSUME NEW u PROVE CountedFor(u)' = CountedFor(u)
  BY <1>1 DEF CountedFor, SendsTo, Uncounted, Writes
<1>5. UnreadInv'
  BY <1>4 DEF UnreadInv, Writes
<1> QED BY <1>2, <1>3, <1>5

LEMMA UnreadKept ==
  ASSUME Typed, Typed', Numbers, WrittenInv, UnreadInv, [Next]_vars
  PROVE  Numbers' /\ WrittenInv' /\ UnreadInv'
<1>1. ASSUME NEW r \in Slots, NEW x, Moves(r, x), UnreadStep(r, x)
      PROVE  Numbers' /\ WrittenInv' /\ UnreadInv'
  <2>1. Numbers' /\ WrittenInv'
    BY <1>1, NumbersMove, WrittenMove
  <2>4. \A y \in Slots : Writes(y)' =>
          \A u \in DOMAIN slots'[y].rows : slots'[y].rows[u].unread <= Cardinality(CountedFor(u)')
    BY <1>1, <2>1, HeldCounts
  <2>2. CASE \A u \in Members : unread'[u] = unread[u] \/ unread'[u] = 0 \/ Returned(r, u)
    <3>1. \A u \in Members : unread'[u] <= Cardinality(CountedFor(u)')
      BY <1>1, <2>1, <2>2, CountGrows
    <3> QED BY <2>1, <2>4, <3>1 DEF UnreadInv
  <2>3. CASE /\ Writes(r) /\ slots[r].todo[1].kind = "count"
             /\ \E u \in slots[r].left :
                  /\ \A v \in Members : v # u => unread'[v] = unread[v]
                  /\ unread'[u] = unread[u] + 1
                  /\ x \in Write /\ Sound(x) => u \notin x.left \/ ~Has(x.todo, Asking \cup {"count"})
    <3>1. PICK u \in slots[r].left :
                  /\ \A v \in Members : v # u => unread'[v] = unread[v]
                  /\ unread'[u] = unread[u] + 1
                  /\ x \in Write /\ Sound(x) => u \notin x.left \/ ~Has(x.todo, Asking \cup {"count"})
      BY <2>3
    <3>2. unread'[u] <= Cardinality(CountedFor(u)')
      BY <1>1, <2>1, <2>3, <3>1, CountIsDue
    <3>3. \A v \in Members : v # u => unread'[v] <= Cardinality(CountedFor(v)')
      BY <1>1, <2>1, <3>1, CountGrows
    <3> QED BY <2>1, <2>4, <3>2, <3>3 DEF UnreadInv
  <2> QED BY <1>1, <2>2, <2>3 DEF UnreadStep
<1> QED BY <1>1, StepMoves, StillCounted

LEMMA UnreadStart ==
  ASSUME Init
  PROVE  Numbers /\ WrittenInv /\ UnreadInv
<1>1. \A r \in Slots : slots[r] = Idle
  BY DEF Init
<1>2. \A r \in Slots : ~Writes(r) /\ ~Inserting(r)
  BY <1>1, NoWriter DEF Writes, Inserting, Doing, Busy
<1>3. StoredIds = {} /\ dropped = {}
  BY DEF Init, StoredIds, IsStored
<1>4. Numbers /\ WrittenInv
  BY <1>2, <1>3 DEF Numbers, WrittenInv
<1>5. ASSUME NEW u \in Members PROVE unread[u] <= Cardinality(CountedFor(u))
  <2>1. CountedFor(u) = {}
    BY <1>3 DEF CountedFor, SendsTo
  <2>2. Cardinality({}) = 0
    BY FS_EmptySet
  <2> QED BY <2>1, <2>2 DEF Init
<1> QED BY <1>2, <1>4, <1>5 DEF UnreadInv

\* What has been counted for a member are sends of others.
LEMMA CountedAreSends ==
  ASSUME Typed, Numbers, UnreadInv
  PROVE  UnreadIsBounded
<1>1. ASSUME NEW u \in Members PROVE unread[u] <= Cardinality(SendsTo(u))
  <2>1. started \in Nat
    BY DEF Typed, TablesOK
  <2>2. \A n \in StoredIds : messages[n].request \in 1..started
    <3>1. \A n \in StoredIds : messages[n] \in Message
      BY StoredType DEF Typed, StoredIds
    <3> QED BY <2>1, <3>1 DEF Numbers, Message
  <2>3. \A d \in dropped : d.request \in 1..started
    BY <2>1 DEF Numbers, Typed, TablesOK
  <2>4. SendsTo(u) \subseteq 1..started
    BY <2>2, <2>3 DEF SendsTo
  <2>5. IsFiniteSet(1..started)
    BY <2>1, FS_Interval
  <2>6. IsFiniteSet(SendsTo(u))
    BY <2>4, <2>5, FS_Subset
  <2>7. CountedFor(u) \subseteq SendsTo(u)
    BY DEF CountedFor
  <2>8. /\ Cardinality(CountedFor(u)) <= Cardinality(SendsTo(u))
        /\ Cardinality(CountedFor(u)) \in Nat /\ Cardinality(SendsTo(u)) \in Nat
    BY <2>6, <2>7, FS_Subset, FS_CardinalityType
  <2> QED BY <2>8 DEF UnreadInv, Typed, TablesOK
<1> QED BY <1>1 DEF UnreadIsBounded, SendsTo

\* A member's unread count never exceeds the sends of others, for any members,
\* client ids and bounds: a request is counted for him once, after it has
\* written, whichever retries, overlaps and failures there are.
THEOREM UnreadNeverExceedsSends == Spec => []UnreadIsBounded
<1>1. Init => Typed /\ Numbers /\ WrittenInv /\ UnreadInv
  BY TypedInit, UnreadStart
<1>2. Typed /\ Numbers /\ WrittenInv /\ UnreadInv /\ [Next]_vars
        => (Typed /\ Numbers /\ WrittenInv /\ UnreadInv)'
  BY TypedStep, UnreadKept
<1>3. Typed /\ Numbers /\ WrittenInv /\ UnreadInv => UnreadIsBounded
  BY CountedAreSends
<1> QED BY <1>1, <1>2, <1>3, PTL DEF Spec

-----------------------------------------------------------------------------
(* Sent once: each step *)

\* What the new state of a request may be, if it does not get its reservation.
NoNewHolder(r, x) ==
  x \in Write /\ Sound(x) /\ x.client \in ClientIds =>
    /\ ~Has(x.todo, Asking) =>
         /\ Writes(r) /\ ~Has(slots[r].todo, Asking)
         /\ slots[r].sender = x.sender /\ slots[r].client = x.client /\ slots[r].request = x.request
    /\ x.todo[1].kind = "reserve" => StoredOf(x.sender, x.client) = {}

LEMMA SentKept ==
  ASSUME SlotsOK, SentInv, NEW r \in Slots, NEW x, slots'[r] = x, NoNewHolder(r, x),
         \A y \in Slots : y # r => slots'[y] = slots[y],
         NEW u \in Members, NEW k \in ClientIds,
         StoredOf(u, k)' = StoredOf(u, k),
         \A n \in StoredOf(u, k) : messages'[n].request = messages[n].request,
         reserved[u][k] # NoReservation => reserved'[u][k] # NoReservation
  PROVE  SentOf(u, k)'
<1>1. SentOf(u, k)
  BY DEF SentInv
<1>2. ASSUME NEW y \in Slots, Holds(y, u, k)'
      PROVE  Holds(y, u, k) /\ slots'[y].request = slots[y].request
  <2>1. CASE y = r
    <3>1. x \in Write /\ Sound(x) /\ x.sender = u /\ x.client = k /\ ~Has(x.todo, Asking)
      BY <1>2, <2>1 DEF Holds, SendsAs, Writes
    <3> QED BY <2>1, <3>1 DEF NoNewHolder, Holds, SendsAs
  <2>2. CASE y # r
    BY <1>2, <2>2 DEF Holds, SendsAs, Writes
  <2> QED BY <2>1, <2>2
<1>3. \A y \in Slots : Holds(y, u, k)' =>
        /\ reserved'[u][k] # NoReservation
        /\ \A n \in StoredOf(u, k)' : messages'[n].request = slots'[y].request
  BY <1>1, <1>2 DEF SentOf
<1>4. \A y, z \in Slots : Holds(y, u, k)' /\ Holds(z, u, k)' => y = z
  BY <1>1, <1>2 DEF SentOf
<1>5. ASSUME NEW y \in Slots, SendsAs(y, u, k)', slots'[y].todo[1].kind = "reserve"
      PROVE  reserved'[u][k] # NoReservation \/ StoredOf(u, k)' = {}
  <2>1. CASE y = r
    <3>1. x \in Write /\ Sound(x) /\ x.sender = u /\ x.client = k /\ x.todo[1].kind = "reserve"
      BY <1>5, <2>1 DEF SendsAs, Writes
    <3> QED BY <3>1 DEF NoNewHolder
  <2>2. CASE y # r
    <3>1. SendsAs(y, u, k) /\ slots[y].todo[1].kind = "reserve"
      BY <1>5, <2>2 DEF SendsAs, Writes
    <3> QED BY <1>1, <3>1 DEF SentOf
  <2> QED BY <2>1, <2>2
<1>6. \A m, n \in StoredOf(u, k)' : messages'[m].request = messages'[n].request
  BY <1>1 DEF SentOf
<1> QED BY <1>3, <1>4, <1>5, <1>6 DEF SentOf

\* A request that goes on or ends gets no reservation by that.
LEMMA HoldsOn ==
  ASSUME NEW r \in Slots, Writes(r), NEW x,
         \/ x = Idle
         \/ Continues(slots[r], x) /\ ~Has(slots[r].todo, Asking) /\ ~Has(x.todo, Asking)
         \/ Continues(slots[r], x) /\ Has(x.todo, Asking) /\ x.todo[1].kind # "reserve"
  PROVE  NoNewHolder(r, x)
<1>1. CASE x = Idle
  BY <1>1, NoWriter DEF NoNewHolder
<1>2. CASE Continues(slots[r], x) /\ ~Has(slots[r].todo, Asking) /\ ~Has(x.todo, Asking)
  <2>1. 1 \in DOMAIN x.todo
    BY <1>2, WriteShapes DEF Continues
  <2>2. x.todo[1].kind # "reserve"
    BY <1>2, <2>1 DEF Has, Asking
  <2> QED BY <1>2, <2>2 DEF NoNewHolder, Continues
<1>3. CASE Continues(slots[r], x) /\ Has(x.todo, Asking) /\ x.todo[1].kind # "reserve"
  BY <1>3 DEF NoNewHolder, Continues
<1> QED BY <1>1, <1>2, <1>3

LEMMA SentStep ==
  ASSUME Typed, SentInv, NEW r \in Slots, NEW x, Becomes(r, x), NoNewHolder(r, x),
         messages' = messages \/ (\E n, m : Updates(n, m)),
         \A u \in Members, k \in ClientIds : reserved[u][k] # NoReservation => reserved'[u][k] # NoReservation
  PROVE  SentInv'
<1>1. slots'[r] = x /\ \A y \in Slots : y # r => slots'[y] = slots[y]
  BY DEF Typed, SlotsOK, Becomes
<1>2. /\ \A n \in StoredIds : messages'[n].request = messages[n].request
      /\ \A u, k : StoredOf(u, k)' = StoredOf(u, k)
  BY StoredOfSame DEF Typed
<1>3. \A u, k : StoredOf(u, k) \subseteq StoredIds
  BY DEF StoredOf
<1>4. ASSUME NEW u \in Members, NEW k \in ClientIds
      PROVE  SentOf(u, k)'
  <2>1. \A n \in StoredOf(u, k) : messages'[n].request = messages[n].request
    BY <1>2, <1>3
  <2> QED BY <1>1, <1>2, <2>1, SentKept DEF Typed
<1> QED BY <1>4 DEF SentInv

LEMMA GoesOnHolding ==
  ASSUME NEW r \in Slots, GoesOn(r)
  PROVE  NoNewHolder(r, Rest(slots[r]))
<1>1. slots[r] \in Write /\ Sound(slots[r]) /\ slots[r].todo[1].kind \notin Asking
  BY DEF GoesOn, Writes
<1>2. ~Has(slots[r].todo, Asking) /\ ~Has(Tail(slots[r].todo), Asking)
  BY <1>1, StaysPast
<1>3. Rest(slots[r]) = Idle \/ Rest(slots[r]).todo = Tail(slots[r].todo)
  BY <1>1, RestContinues DEF GoesOn, Rest
<1>4. PICK x : x = Rest(slots[r])
  OBVIOUS
<1>5. x = Idle \/ (Continues(slots[r], x) /\ ~Has(slots[r].todo, Asking) /\ ~Has(x.todo, Asking))
  BY <1>2, <1>3, <1>4 DEF GoesOn
<1>6. NoNewHolder(r, x)
  BY <1>5, HoldsOn DEF GoesOn
<1> QED BY <1>4, <1>6

LEMMA ActorHolds ==
  ASSUME NEW r \in Slots, NEW x, x = Idle \/ x \in Action
  PROVE  NoNewHolder(r, x)
BY NoWriter DEF NoNewHolder

LEMMA AskingSent ==
  ASSUME Typed, SentInv, NEW r \in Slots,
         FindClientMessages(r) \/ WaitForClientMessages(r) \/ GiveUpWaiting(r)
  PROVE  SentInv'
<1>1. SlotsOK /\ TablesOK
  BY DEF Typed
<1>2. CASE FindClientMessages(r)
  <2>1. PICK s : s = slots[r]
    OBVIOUS
  <2>2. PICK kind \in {"wait", "reserve"} :
              /\ Becomes(r, With(s, <<[kind |-> kind]>>))
              /\ Continues(s, With(s, <<[kind |-> kind]>>))
              /\ kind = "reserve" => FindByClientMessageId(s.sender, s.client) = {}
    BY <1>1, <1>2, <2>1, FindEffect
  <2>3. Writes(r) /\ UNCHANGED <<built, tables, Counters>>
    BY <1>1, <1>2, FindEffect
  <2>4. PICK t, x : t = <<[kind |-> kind]>> /\ x = With(s, t)
    OBVIOUS
  <2>5. kind \in Asking
    BY DEF Asking
  <2>6. Has(t, Asking) /\ t[1].kind = kind
    BY <2>4, <2>5, OrderOfAsking
  <2>7. x.todo = t /\ x.sender = s.sender /\ x.client = s.client
    BY <2>1, <2>2, <2>3, <2>4 DEF With, Continues, Write, Writes
  <2>8. ASSUME kind = "reserve", s.client \in ClientIds
        PROVE  StoredOf(s.sender, s.client) = {}
    <3>1. FindByClientMessageId(s.sender, s.client) = {}
      BY <2>2, <2>8
    <3> QED BY <3>1 DEF FindByClientMessageId, StoredOf
  <2>9. NoNewHolder(r, x)
    BY <2>6, <2>7, <2>8 DEF NoNewHolder
  <2> QED BY <2>2, <2>3, <2>4, <2>9, SentStep DEF tables
<1>3. CASE WaitForClientMessages(r) \/ GiveUpWaiting(r)
  <2>1. Becomes(r, Idle) /\ UNCHANGED <<built, tables, Counters>>
    BY <1>1, <1>3, WaitEffect
  <2>2. NoNewHolder(r, Idle)
    BY ActorHolds
  <2> QED BY <2>1, <2>2, SentStep DEF tables
<1> QED BY <1>2, <1>3

\* The reservation is put on the condition that there is none: nobody else
\* writes, and nothing has been written.
LEMMA ReserveSent ==
  ASSUME Typed, SentInv, NEW r \in Slots, ReserveClientMessage(r)
  PROVE  SentInv'
<1>1. SlotsOK /\ TablesOK
  BY DEF Typed
<1>2. PICK s : s = slots[r]
  OBVIOUS
<1>3. Writes(r) /\ s \in Write /\ Sound(s) /\ s.todo[1].kind = "reserve"
  BY <1>1, <1>2, WriterOf DEF ReserveClientMessage, WriteKinds, PlainKinds, Asking
<1>4. messages' = messages
  BY <1>1, ReserveEffect
<1>5. ASSUME NEW t, s.sender \in Members, s.client \in ClientIds,
             t = WriteCalls(s.type) \o <<[kind |-> "complete"]>>,
             reserved[s.sender][s.client] = NoReservation,
             reserved' = [reserved EXCEPT ![s.sender][s.client].status = "pending"],
             Becomes(r, With(s, t)), Continues(s, With(s, t)), With(s, t).todo = t
      PROVE  SentInv'
  <2>1. PICK u, k, x : u = s.sender /\ k = s.client /\ x = With(s, t)
    OBVIOUS
  <2>2. slots'[r] = x /\ \A y \in Slots : y # r => slots'[y] = slots[y]
    BY <1>1, <1>5, <2>1 DEF SlotsOK, Becomes
  <2>3. reserved \in [Members -> [ClientIds -> Reservation]]
    BY <1>1 DEF TablesOK
  <2>4. /\ reserved'[u][k] # NoReservation
        /\ \A v \in Members, l \in ClientIds : v # u \/ l # k => reserved'[v][l] = reserved[v][l]
    <3>1. PICK w : w = [reserved[u][k] EXCEPT !.status = "pending"]
      OBVIOUS
    <3>2. reserved' = [reserved EXCEPT ![u] = [reserved[u] EXCEPT ![k] = w]]
      BY <1>5, <2>1, <3>1
    <3>3. w.status = "pending"
      BY <1>5, <2>1, <2>3, <3>1 DEF Reservation
    <3>4. w # NoReservation
      BY <3>3 DEF NoReservation
    <3>5. reserved[u] \in [ClientIds -> Reservation]
      BY <1>5, <2>1, <2>3
    <3>6. reserved'[u] = [reserved[u] EXCEPT ![k] = w] /\ \A v \in Members : v # u => reserved'[v] = reserved[v]
      BY <1>5, <2>1, <2>3, <3>2
    <3>7. reserved'[u][k] = w /\ \A l \in ClientIds : l # k => reserved'[u][l] = reserved[u][l]
      BY <1>5, <2>1, <3>5, <3>6
    <3> QED BY <3>4, <3>6, <3>7
  <2>5. x \in Write /\ Sound(x) /\ x.sender = u /\ x.client = k /\ x.request = s.request /\ x.todo = t
    BY <1>5, <2>1 DEF Continues
  <2>6. ~Has(t, Asking)
    BY <1>5, StartTodos
  <2>7. x.todo[1].kind # "reserve"
    <3>1. 1 \in DOMAIN x.todo
      BY <2>5, WriteShapes
    <3> QED BY <2>5, <2>6, <3>1 DEF Has, Asking
  <2>8. SentOf(u, k)
    BY <1>5, <2>1 DEF SentInv
  <2>9. StoredOf(u, k) = {} /\ \A y \in Slots : ~Holds(y, u, k)
    BY <1>2, <1>3, <1>5, <2>1, <2>8 DEF SentOf, SendsAs
  <2>10. StoredOf(u, k)' = {}
    BY <1>4, <2>9, StoredSame DEF StoredOf
  <2>11. \A y \in Slots : Holds(y, u, k)' => y = r
    BY <2>2, <2>9 DEF Holds, SendsAs, Writes
  <2>12. SentOf(u, k)'
    BY <2>4, <2>10, <2>11 DEF SentOf
  <2>13. ASSUME NEW v \in Members, NEW l \in ClientIds, v # u \/ l # k
         PROVE  SentOf(v, l)'
    <3>1. SentOf(v, l)
      BY DEF SentInv
    <3>2. reserved'[v][l] = reserved[v][l] /\ StoredOf(v, l)' = StoredOf(v, l) /\ messages' = messages
      BY <1>4, <2>4, <2>13, StoredSame DEF StoredOf
    <3>3. \A y \in Slots : SendsAs(y, v, l)' => y # r /\ SendsAs(y, v, l) /\ slots'[y] = slots[y]
      BY <2>2, <2>5, <2>13 DEF SendsAs, Writes
    <3> QED BY <3>1, <3>2, <3>3 DEF SentOf, Holds
  <2> QED BY <2>1, <2>12, <2>13 DEF SentInv
<1>6. CASE s.client \notin ClientIds
  <2>1. \E x : Becomes(r, x) /\ Continues(s, x)
    BY <1>1, <1>2, ReserveEffect
  <2>2. PICK x : Becomes(r, x) /\ Continues(s, x)
    BY <2>1
  <2>3. NoNewHolder(r, x)
    BY <1>6, <2>2 DEF NoNewHolder, Continues
  <2>4. \A u \in Members, k \in ClientIds : reserved'[u][k] = reserved[u][k]
    <3>1. \/ reserved' = reserved
          \/ reserved' = [reserved EXCEPT ![s.sender][s.client].status = "pending"]
      BY <1>1, <1>2, ReserveEffect
    <3>2. reserved \in [Members -> [ClientIds -> Reservation]]
      BY <1>1 DEF TablesOK
    <3>3. CASE reserved' = [reserved EXCEPT ![s.sender][s.client].status = "pending"]
      <4>1. PICK u, k, w : u = s.sender /\ k = s.client /\ w = [reserved[u][k] EXCEPT !.status = "pending"]
        OBVIOUS
      <4>2. reserved' = [reserved EXCEPT ![u] = [reserved[u] EXCEPT ![k] = w]]
        BY <3>3, <4>1
      <4>3. u \in Members
        BY <1>3, <4>1, WriteShapes
      <4>4. reserved'[u] = [reserved[u] EXCEPT ![k] = w] /\ \A v \in Members : v # u => reserved'[v] = reserved[v]
        BY <3>2, <4>2, <4>3
      <4>5. \A l \in ClientIds : reserved'[u][l] = reserved[u][l]
        BY <1>6, <3>2, <4>1, <4>3, <4>4
      <4> QED BY <4>4, <4>5
    <3> QED BY <3>1, <3>3
  <2> QED BY <1>4, <2>2, <2>3, <2>4, SentStep
<1>7. CASE s.client \in ClientIds
  <2>1. s.sender \in Members
    BY <1>3, WriteShapes
  <2>2. CASE /\ reserved' = reserved
             /\ Becomes(r, With(s, <<[kind |-> "wait"]>>))
             /\ Continues(s, With(s, <<[kind |-> "wait"]>>))
    <3>1. PICK t, x : t = <<[kind |-> "wait"]>> /\ x = With(s, t)
      OBVIOUS
    <3>2. Has(t, Asking) /\ t[1].kind = "wait"
      BY <3>1, OrderOfAsking DEF Asking
    <3>3. x.todo = t
      BY <1>3, <3>1 DEF With, Write
    <3>4. NoNewHolder(r, x)
      BY <1>2, <1>3, <2>2, <3>1, <3>2, <3>3, HoldsOn
    <3> QED BY <1>4, <2>2, <3>1, <3>4, SentStep
  <2>3. CASE LET t == WriteCalls(s.type) \o <<[kind |-> "complete"]>>
             IN /\ reserved[s.sender][s.client] = NoReservation
                /\ reserved' = [reserved EXCEPT ![s.sender][s.client].status = "pending"]
                /\ Becomes(r, With(s, t))
                /\ Continues(s, With(s, t)) /\ With(s, t).todo = t
    BY <1>5, <1>7, <2>1, <2>3
  <2> QED BY <1>1, <1>2, <2>2, <2>3, ReserveEffect
<1> QED BY <1>6, <1>7

\* A call after the reservation, that changes nothing of the messages.
LEMMA GoesOnSent ==
  ASSUME Typed, SentInv, NEW r \in Slots, GoesOn(r), messages' = messages, reserved' = reserved
  PROVE  SentInv'
<1>1. NoNewHolder(r, Rest(slots[r])) /\ Becomes(r, Rest(slots[r]))
  BY GoesOnHolding DEF GoesOn
<1> QED BY <1>1, SentStep

LEMMA BuildSent ==
  ASSUME Typed, SentInv, NEW r \in Slots, BuildMessage(r)
  PROVE  SentInv'
<1>1. SlotsOK /\ built \in Nat
  BY DEF Typed, TablesOK
<1>2. PICK s : s = slots[r]
  OBVIOUS
<1>3. /\ Writes(r) /\ s.todo[1].kind \in {"build", "buildBatch"} /\ UNCHANGED tables
      /\ \E c \in WriteRow :
           LET t == <<c>> \o Tail(s.todo)
           IN c.kind \in Inserts /\ Becomes(r, With(s, t)) /\ Continues(s, With(s, t)) /\ With(s, t).todo = t
  BY <1>1, <1>2, BuildEffect
<1>4. PICK c, t, x :
        /\ c \in WriteRow
        /\ t = <<c>> \o Tail(s.todo) /\ x = With(s, t)
        /\ c.kind \in Inserts /\ Becomes(r, x) /\ Continues(s, x) /\ x.todo = t
  BY <1>3
<1>5. s \in Write /\ Sound(s) /\ s.todo[1].kind \notin Asking /\ c.kind \notin Asking
  BY <1>2, <1>3, <1>4 DEF Writes, Asking, Inserts
<1>6. ~Has(s.todo, Asking) /\ ~Has(t, Asking)
  BY <1>4, <1>5, StaysPast
<1>7. NoNewHolder(r, x)
  BY <1>2, <1>3, <1>4, <1>6, HoldsOn
<1> QED BY <1>3, <1>4, <1>7, SentStep DEF tables

\* A message is inserted by the request that has the reservation.
LEMMA InsertSent ==
  ASSUME Typed, Numbers, SentInv, NEW r \in Slots, InsertMessage(r)
  PROVE  SentInv'
<1>1. SlotsOK /\ TablesOK
  BY DEF Typed
<1>2. PICK n, s, x, m : /\ n = Call(r).id /\ s = slots[r] /\ x = Inserted(s, s.ids \cup {n})
                        /\ m = [sender |-> s.sender, client |-> s.client, request |-> s.request, type |-> s.type,
                                text |-> "original", revoked |-> FALSE, deletedFor |-> {}]
  OBVIOUS
<1>3. /\ Writes(r) /\ s.todo[1].kind \in Inserts /\ n \in MessageIds
      /\ messages' = [messages EXCEPT ![n] = m]
      /\ Becomes(r, x) /\ Continues(s, x) /\ x.todo = Tail(s.todo)
      /\ reserved' = reserved
  BY <1>1, <1>2, InsertEffect
<1>4. s \in Write /\ Sound(s) /\ s.todo[1].kind \notin Asking
  BY <1>2, <1>3 DEF Writes, Asking, Inserts
<1>5. ~Has(s.todo, Asking) /\ ~Has(x.todo, Asking)
  BY <1>3, <1>4, StaysPast
<1>6. NoNewHolder(r, x)
  BY <1>2, <1>3, <1>5, HoldsOn
<1>7. slots'[r] = x /\ \A y \in Slots : y # r => slots'[y] = slots[y]
  BY <1>1, <1>3 DEF SlotsOK, Becomes
<1>8. m \in Message
  BY <1>2, <1>4, WriteShapes DEF Message
<1>9. /\ messages'[n] = m /\ \A k \in MessageIds : k # n => messages'[k] = messages[k]
      /\ StoredIds' = StoredIds \cup {n}
  BY <1>1, <1>3, <1>8, RowWritten
<1>10. m.sender = s.sender /\ m.client = s.client /\ m.request = s.request
  BY <1>2
<1>11. \A i \in StoredIds : i \in MessageIds
  BY DEF StoredIds
<1>12. ASSUME NEW u \in Members, NEW k \in ClientIds
       PROVE  SentOf(u, k)'
  <2>1. SentOf(u, k)
    BY DEF SentInv
  <2>2. CASE s.sender = u /\ s.client = k
    <3>1. Holds(r, u, k)
      BY <1>2, <1>3, <1>5, <2>2 DEF Holds, SendsAs
    <3>2. \A i \in StoredOf(u, k)' : messages'[i].request = s.request
      BY <1>2, <1>9, <1>10, <1>11, <2>1, <3>1 DEF StoredOf, SentOf
    <3>3. ASSUME NEW y \in Slots, Holds(y, u, k)'
          PROVE  Holds(y, u, k) /\ slots'[y].request = slots[y].request
      <4>1. CASE y = r
        BY <1>2, <1>3, <1>7, <3>1, <4>1 DEF Continues
      <4>2. CASE y # r
        BY <1>7, <3>3, <4>2 DEF Holds, SendsAs, Writes
      <4> QED BY <4>1, <4>2
    <3>4. \A y \in Slots : Holds(y, u, k)' => y = r /\ slots'[y].request = s.request
      BY <1>2, <2>1, <3>1, <3>3 DEF SentOf
    <3>5. reserved'[u][k] # NoReservation
      BY <1>3, <2>1, <3>1 DEF SentOf
    <3> QED BY <3>2, <3>4, <3>5 DEF SentOf
  <2>3. CASE ~(s.sender = u /\ s.client = k)
    <3>1. n \notin StoredIds /\ n \notin StoredOf(u, k)'
      <4>1. Target(r) = n /\ Inserting(r)
        BY <1>1, <1>2, InsertEffect DEF Target
      <4> QED BY <1>9, <1>10, <2>3, <4>1 DEF Numbers, StoredOf
    <3>2. StoredOf(u, k)' = StoredOf(u, k)
      BY <1>9, <1>11, <3>1 DEF StoredOf
    <3>3. \A i \in StoredOf(u, k) : messages'[i].request = messages[i].request
      BY <1>9, <1>11, <3>1 DEF StoredOf
    <3> QED BY <1>1, <1>3, <1>6, <1>7, <3>2, <3>3, SentKept
  <2> QED BY <2>2, <2>3
<1> QED BY <1>12 DEF SentInv

LEMMA DropSent ==
  ASSUME Typed, SentInv, NEW r \in Slots, DropUnprocessed(r)
  PROVE  SentInv'
<1>1. SlotsOK /\ TablesOK
  BY DEF Typed
<1>2. PICK s, x : s = slots[r] /\ x = Inserted(s, {Call(r).id})
  OBVIOUS
<1>3. /\ Writes(r) /\ s.todo[1].kind \in Inserts /\ Becomes(r, x) /\ Continues(s, x) /\ x.todo = Tail(s.todo)
      /\ UNCHANGED tables
  BY <1>1, <1>2, DropEffect
<1>4. s \in Write /\ Sound(s) /\ s.todo[1].kind \notin Asking
  BY <1>2, <1>3 DEF Writes, Asking, Inserts
<1>5. ~Has(s.todo, Asking) /\ ~Has(x.todo, Asking)
  BY <1>3, <1>4, StaysPast
<1>6. NoNewHolder(r, x)
  BY <1>2, <1>3, <1>5, HoldsOn
<1> QED BY <1>3, <1>6, SentStep DEF tables

LEMMA FollowSent ==
  ASSUME Typed, SentInv, NEW r \in Slots,
         \/ Classify(r) \/ SetLastMessage(r) \/ WritePinned(r) \/ IncrementUnread(r) \/ CompleteClientMessage(r)
  PROVE  SentInv'
<1>1. SlotsOK /\ TablesOK
  BY DEF Typed
<1>2. PICK s : s = slots[r]
  OBVIOUS
<1>3. CASE Classify(r) \/ SetLastMessage(r) \/ WritePinned(r)
  <2>1. GoesOn(r) /\ UNCHANGED <<messages, reserved>>
    BY <1>1, <1>3, FollowEffect
  <2> QED BY <2>1, GoesOnSent
<1>4. CASE IncrementUnread(r)
  <2>1. Writes(r) /\ s.todo[1].kind = "count" /\ UNCHANGED <<messages, reserved>>
    BY <1>1, <1>2, <1>4, CountEffect
  <2>2. GoesOn(r) \/ \E u : /\ Becomes(r, Counted(s, u)) /\ Continues(s, Counted(s, u))
                            /\ Counted(s, u).todo = s.todo
    BY <1>1, <1>2, <1>4, CountEffect
  <2>3. CASE \E u : Becomes(r, Counted(s, u)) /\ Continues(s, Counted(s, u)) /\ Counted(s, u).todo = s.todo
    <3>1. PICK x : Becomes(r, x) /\ Continues(s, x) /\ x.todo = s.todo
      BY <2>3
    <3>2. ~Has(s.todo, Asking)
      BY <1>2, <2>1, StaysPast DEF Writes, Asking
    <3>3. NoNewHolder(r, x)
      BY <1>2, <2>1, <3>1, <3>2, HoldsOn
    <3> QED BY <2>1, <3>1, <3>3, SentStep
  <2> QED BY <2>1, <2>2, <2>3, GoesOnSent
<1>5. CASE CompleteClientMessage(r)
  <2>1. Writes(r) /\ s.todo[1].kind = "complete" /\ messages' = messages
    BY <1>1, <1>2, <1>5, CompleteEffect
  <2>2. CASE reserved' = reserved /\ Becomes(r, Idle)
    <3>1. NoNewHolder(r, Idle)
      BY ActorHolds
    <3> QED BY <2>1, <2>2, <3>1, SentStep
  <2>3. CASE /\ reserved' = [reserved EXCEPT ![s.sender][s.client] = [status |-> "completed", ids |-> s.ids]]
             /\ GoesOn(r)
    <3>1. PICK v, l, w : v = s.sender /\ l = s.client /\ w = [status |-> "completed", ids |-> s.ids]
      OBVIOUS
    <3>2. reserved' = [reserved EXCEPT ![v] = [reserved[v] EXCEPT ![l] = w]]
      BY <2>3, <3>1
    <3>3. w # NoReservation
      BY <3>1 DEF NoReservation
    <3>4. reserved \in [Members -> [ClientIds -> Reservation]] /\ v \in Members
      BY <1>1, <1>2, <2>1, <3>1, WriteShapes DEF TablesOK, Writes
    <3>5. \A u \in Members, k \in ClientIds : reserved'[u][k] = reserved[u][k] \/ reserved'[u][k] = w
      BY <3>2, <3>4
    <3>6. \A u \in Members, k \in ClientIds : reserved[u][k] # NoReservation => reserved'[u][k] # NoReservation
      BY <3>3, <3>5
    <3>7. NoNewHolder(r, Rest(s)) /\ Becomes(r, Rest(s))
      BY <1>2, <2>3, GoesOnHolding DEF GoesOn
    <3> QED BY <2>1, <3>6, <3>7, SentStep
  <2> QED BY <1>1, <1>2, <1>5, <2>2, <2>3, CompleteEffect
<1> QED BY <1>3, <1>4, <1>5

LEMMA RowsSent ==
  ASSUME Typed, SentInv, NEW r \in Slots, ReadRows(r) \/ PutRow(r)
  PROVE  SentInv'
<1>1. SlotsOK /\ TablesOK
  BY DEF Typed
<1>2. PICK s : s = slots[r]
  OBVIOUS
<1>3. /\ Writes(r) /\ s.todo[1].kind \in {"readRows", "putRows"} /\ UNCHANGED <<messages, reserved>>
      /\ \/ GoesOn(r)
         \/ \E x : Becomes(r, x) /\ Continues(s, x) /\ (x.todo = s.todo \/ x.todo = Tail(s.todo))
  BY <1>1, <1>2, ReadEffect, PutEffect DEF tables
<1>4. CASE GoesOn(r)
  BY <1>3, <1>4, GoesOnSent
<1>5. CASE ~GoesOn(r)
  <2>1. PICK x : Becomes(r, x) /\ Continues(s, x) /\ (x.todo = s.todo \/ x.todo = Tail(s.todo))
    BY <1>3, <1>5
  <2>2. ~Has(s.todo, Asking) /\ ~Has(Tail(s.todo), Asking)
    BY <1>2, <1>3, StaysPast DEF Writes, Asking
  <2>3. ~Has(x.todo, Asking)
    BY <2>1, <2>2
  <2>4. NoNewHolder(r, x)
    BY <1>2, <1>3, <2>1, <2>2, <2>3, HoldsOn
  <2> QED BY <1>3, <2>1, <2>4, SentStep
<1> QED BY <1>4, <1>5

LEMMA StartSent ==
  ASSUME Typed, SentInv, NEW r \in Slots, NEW x, Starts(r, x), NewWrite(x) \/ NewAction(x)
  PROVE  SentInv'
<1>1. Becomes(r, x) /\ messages' = messages /\ reserved' = reserved
  BY DEF Starts, tables
<1>2. CASE NewWrite(x)
  <2>1. x.client \in ClientIds => Has(x.todo, Asking) /\ x.todo[1].kind # "reserve"
    BY <1>2, MessagingAssumption DEF NewWrite
  <2> QED BY <1>1, <2>1, SentStep DEF NoNewHolder
<1>3. CASE NewAction(x)
  BY <1>1, <1>3, ActorHolds, SentStep DEF NewAction
<1> QED BY <1>2, <1>3

LEMMA SentStays ==
  ASSUME Typed, Typed', Numbers, SentInv, [Next]_vars
  PROVE  SentInv'
<1>1. SlotsOK /\ TablesOK
  BY DEF Typed
<1>2. ASSUME NEW r \in Slots, UseCase(r) PROVE SentInv'
  BY <1>1, <1>2, UseCaseEffect, StartSent
<1>3. ASSUME NEW r \in Slots, CallFails(r) PROVE SentInv'
  <2>1. Becomes(r, Idle) /\ messages' = messages /\ reserved' = reserved
    BY <1>3, FailEffect DEF tables
  <2> QED BY <2>1, ActorHolds, SentStep
<1>4. ASSUME NEW r \in Slots,
             \/ UpdateText(r) \/ WriteTombstone(r) \/ Declassify(r) \/ CheckLast(r) \/ SetPreview(r)
             \/ WriteDeletedFor(r) \/ ReadLatest(r) \/ AdvanceSeen(r) \/ AdvanceDelivered(r) \/ WriteCutoff(r)
      PROVE  SentInv'
  <2>1. /\ messages' = messages \/ (\E n, m : Updates(n, m))
        /\ reserved' = reserved
        /\ \E x : Becomes(r, x) /\ (x = Idle \/ x \in Action)
    BY <1>4, ActionMoves
  <2> QED BY <2>1, ActorHolds, SentStep
<1>5. ASSUME NEW r \in Slots, DatabaseCall(r) PROVE SentInv'
  <2>1. CASE \/ FindClientMessages(r) \/ ReserveClientMessage(r) \/ WaitForClientMessages(r) \/ GiveUpWaiting(r)
             \/ BuildMessage(r) \/ InsertMessage(r) \/ DropUnprocessed(r)
    BY <2>1, AskingSent, ReserveSent, BuildSent, InsertSent, DropSent
  <2>2. CASE \/ Classify(r) \/ SetLastMessage(r) \/ WritePinned(r) \/ IncrementUnread(r) \/ CompleteClientMessage(r)
    BY <2>2, FollowSent
  <2>3. CASE ReadRows(r) \/ PutRow(r)
    BY <2>3, RowsSent
  <2> QED BY <1>3, <1>4, <1>5, <2>1, <2>2, <2>3 DEF DatabaseCall
<1>6. ASSUME NEW u \in Members, NEW k \in ClientIds, ExpireReservation(u, k)
      PROVE  SentInv'
  <2>1. (\A r \in Slots : slots[r] = Idle) /\ messages' = messages /\ slots' = slots
    BY <1>1, <1>6, ExpireEffect
  <2>2. \A r \in Slots : ~Writes(r)'
    BY <2>1, NoWriter DEF Writes
  <2>3. \A v, l : StoredOf(v, l)' = StoredOf(v, l)
    BY <2>1, StoredSame DEF StoredOf
  <2>4. ASSUME NEW v \in Members, NEW l \in ClientIds PROVE SentOf(v, l)'
    <3>1. SentOf(v, l)
      BY DEF SentInv
    <3> QED BY <2>1, <2>2, <2>3, <3>1 DEF SentOf, Holds, SendsAs
  <2> QED BY <2>4 DEF SentInv
<1>7. CASE UNCHANGED vars
  <2>1. messages' = messages /\ slots' = slots /\ reserved' = reserved
    BY <1>7 DEF vars, tables
  <2>2. \A v, l : StoredOf(v, l)' = StoredOf(v, l)
    BY <2>1, StoredSame DEF StoredOf
  <2>3. ASSUME NEW v \in Members, NEW l \in ClientIds PROVE SentOf(v, l)'
    <3>1. SentOf(v, l)
      BY DEF SentInv
    <3> QED BY <2>1, <2>2, <3>1 DEF SentOf, Holds, SendsAs, Writes
  <2> QED BY <2>3 DEF SentInv
<1> QED BY <1>2, <1>5, <1>6, <1>7 DEF Next

LEMMA SentStart ==
  ASSUME Init
  PROVE  SentInv
<1>1. \A r \in Slots : ~Writes(r)
  BY NoWriter DEF Init, Writes
<1>2. StoredIds = {}
  BY DEF Init, StoredIds, IsStored
<1> QED BY <1>1, <1>2 DEF SentInv, SentOf, Holds, SendsAs, StoredOf

\* The messages with one client id of a sender are of one request: the holder of
\* the reservation writes alone, and the reservation is given only while nothing
\* is stored.  It holds for any number of requests, retries and failures.
THEOREM MessagesAreSentOnce == Spec => []SentOnce
<1>1. Init => Typed /\ Numbers /\ WrittenInv /\ UnreadInv /\ SentInv
  BY TypedInit, UnreadStart, SentStart
<1>2. Typed /\ Numbers /\ WrittenInv /\ UnreadInv /\ SentInv /\ [Next]_vars
        => (Typed /\ Numbers /\ WrittenInv /\ UnreadInv /\ SentInv)'
  BY TypedStep, UnreadKept, SentStays
<1>3. Typed /\ SentInv => SentOnce
  <2> SUFFICES ASSUME Typed, SentInv, NEW m \in StoredIds, NEW n \in StoredIds,
                      messages[m].client # NoClientId, messages[m].client = messages[n].client,
                      messages[m].sender = messages[n].sender
               PROVE  messages[m].request = messages[n].request
    BY DEF SentOnce
  <2>1. PICK u, k : u = messages[m].sender /\ k = messages[m].client
    OBVIOUS
  <2>2. messages[m] \in Message
    BY StoredType DEF Typed, StoredIds
  <2>3. u \in Members /\ k \in ClientIds
    BY <2>1, <2>2 DEF Message
  <2>4. SentOf(u, k) /\ m \in StoredOf(u, k) /\ n \in StoredOf(u, k)
    BY <2>1, <2>3 DEF SentInv, StoredOf
  <2> QED BY <2>4 DEF SentOf
<1> QED BY <1>1, <1>2, <1>3, PTL DEF Spec

-----------------------------------------------------------------------------
(* One request at a time: each step *)

LEMMA SoleBusy ==
  ASSUME NEW r \in Slots, slots[r] # Idle, Calm
  PROVE  CalmFor(slots[r]) /\ \A y \in Slots : y # r => slots[y] = Idle
BY DEF Calm, Sole

LEMMA SoleIdle ==
  ASSUME \A r \in Slots : slots[r] = Idle, Calm
  PROVE  CalmFor(Idle)
BY DEF Calm, Sole

LEMMA SoleNext ==
  ASSUME SlotsOK, NEW r \in Slots, NEW x, Becomes(r, x), \A y \in Slots : y # r => slots[y] = Idle,
         CalmFor(x)'
  PROVE  Calm'
<1>1. slots'[r] = x /\ \A y \in Slots : y # r => slots'[y] = Idle
  BY DEF SlotsOK, Becomes
<1> QED BY <1>1 DEF Calm, Sole

LEMMA IdleIsNothing ==
  /\ ~IsWrite(Idle) /\ Idle \notin Action
  /\ \A s : IsWrite(s) => s \notin Action /\ s # Idle
BY NoWriter, ActionShapes, WriteShapes DEF IsWrite

LEMMA CalmStart ==
  ASSUME Typed, CalmFor(Idle), NEW r \in Slots, NEW x, Starts(r, x), NewWrite(x) \/ NewAction(x)
  PROVE  CalmFor(x)'
<1>1. messages' = messages /\ built' = built /\ conv' = conv /\ classified' = classified
  BY DEF Starts, tables
<1>2. \A n : IsStored(n)' <=> IsStored(n)
  BY <1>1, StoredSame
<1>3. \A n : ~AboutToInsert(Idle, n) /\ ~AboutToInsert(x, n)
  BY IdleIsNothing DEF AboutToInsert, NewWrite, NewAction, IsWrite
<1>4. AllStored(x)'
  BY <1>1, <1>2, <1>3 DEF CalmFor, AllStored, AboutToInsert
<1>5. Owns(x)'
  BY IdleIsNothing DEF Owns, NewWrite, NewAction
<1>6. Fresh(x)'
  <2>1. CASE NewWrite(x)
    BY <2>1, IdleIsNothing DEF NewWrite, IsWrite, Fresh
  <2>2. CASE NewAction(x)
    BY <1>1, <2>2 DEF NewAction, Fresh
  <2> QED BY <2>1, <2>2
<1>7. Revoking(x)'
  BY <1>1, <1>2, IdleIsNothing DEF CalmFor, Revoking, Pending
<1>8. LastFollows(x)'
  BY <1>1, <1>2, IdleIsNothing DEF CalmFor, LastFollows
<1> QED BY <1>4, <1>5, <1>6, <1>7, <1>8 DEF CalmFor

\* A call of a request that writes, and that stores no message.
LEMMA CalmWriter ==
  ASSUME Typed, NEW s, IsWrite(s), CalmFor(s), s.todo[1].kind \notin Opening,
         NEW x, x = Idle \/ (Continues(s, x) /\ x.ids = s.ids /\ x.todo[1].kind \notin Inserts),
         messages' = messages, built' = built, classified' \subseteq classified \cup s.ids,
         \/ conv' = conv /\ (Has(s.todo, {"setLast"}) => x # Idle /\ Has(x.todo, {"setLast"}))
         \/ \E n \in s.ids : conv' = [last |-> n, preview |-> "original"]
  PROVE  CalmFor(x)'
<1>1. \A n : IsStored(n)' <=> IsStored(n)
  BY StoredSame
<1>2. \A n : ~AboutToInsert(s, n) /\ ~AboutToInsert(x, n)
  BY IdleIsNothing DEF AboutToInsert, Opening
<1>3. /\ \A n \in s.ids : n \in MessageIds /\ IsStored(n) /\ ~messages[n].revoked /\ messages[n].request = s.request
      /\ s.ids # {} => built \in s.ids
  BY <1>2, WriteShapes DEF CalmFor, Owns, IsWrite
<1>4. AllStored(x)'
  BY <1>1, <1>2 DEF CalmFor, AllStored, AboutToInsert
<1>5. Owns(x)'
  BY <1>1, <1>3, IdleIsNothing DEF Owns, Continues, IsWrite
<1>6. Fresh(x)'
  BY IdleIsNothing DEF Fresh, Continues, IsWrite
<1>7. Revoking(x)'
  <2> SUFFICES ASSUME NEW n \in MessageIds, IsStored(n), messages[n].revoked
               PROVE  messages[n].text = "tombstone" /\ n \notin classified' /\ (conv'.last = n => conv'.preview = "tombstone")
    BY <1>1 DEF Revoking
  <2>1. n \notin s.ids
    BY <1>3
  <2>2. messages[n].text = "tombstone" /\ n \notin classified /\ (conv.last = n => conv.preview = "tombstone")
    BY IdleIsNothing DEF CalmFor, Revoking, Pending
  <2> QED BY <2>1, <2>2
<1>8. LastFollows(x)'
  <2>1. CASE conv' = conv /\ (Has(s.todo, {"setLast"}) => x # Idle /\ Has(x.todo, {"setLast"}))
    <3>1. ~(IsWrite(x) /\ Has(x.todo, {"setLast"})) => ~(IsWrite(s) /\ Has(s.todo, {"setLast"}))
      BY <2>1 DEF Continues, IsWrite
    <3> QED BY <1>1, <2>1, <3>1 DEF CalmFor, LastFollows
  <2>2. CASE \E n \in s.ids : conv' = [last |-> n, preview |-> "original"]
    <3>1. PICK n \in s.ids : conv'.last = n
      BY <2>2
    <3> QED BY <1>1, <1>3, <3>1 DEF LastFollows
  <2> QED BY <2>1, <2>2
<1> QED BY <1>4, <1>5, <1>6, <1>7, <1>8 DEF CalmFor

LEMMA CalmBuild ==
  ASSUME Typed, NEW s, IsWrite(s), CalmFor(s), s.todo[1].kind \in {"build", "buildBatch"},
         NEW x, Continues(s, x), x.ids = s.ids, x.todo[1].kind \in Inserts, x.todo[1].id = built + 1,
         Has(x.todo, {"setLast"}),
         built' = built + 1, UNCHANGED tables
  PROVE  CalmFor(x)'
<1>1. messages' = messages /\ conv' = conv /\ classified' = classified /\ \A n : IsStored(n)' <=> IsStored(n)
  BY StoredSame DEF tables
<1>2. \A n : ~AboutToInsert(s, n)
  BY DEF AboutToInsert, Inserts
<1>3. IsWrite(x) /\ \A n : AboutToInsert(x, n) <=> n = built + 1
  BY DEF AboutToInsert, IsWrite, Continues
<1>4. built \in Nat /\ \A n \in MessageIds : n \in Nat
  BY DEF Typed, TablesOK, MessageIds
<1>5. AllStored(x)'
  <2> SUFFICES ASSUME NEW n \in MessageIds
               PROVE  /\ IsStored(n) <=> n <= built + 1 /\ n # built + 1
                      /\ n = built + 1 => n = built'
    BY <1>1, <1>3 DEF AllStored, AboutToInsert
  <2>1. IsStored(n) <=> n <= built
    BY <1>2 DEF CalmFor, AllStored
  <2> QED BY <1>4, <2>1
<1>6. Owns(x)'
  <2>1. AboutToInsert(x, built')
    BY <1>3
  <2> QED BY <1>1, <2>1 DEF CalmFor, Owns, Continues, AboutToInsert
<1>7. Fresh(x)'
  BY <1>3, IdleIsNothing DEF Fresh
<1>8. Revoking(x)'
  BY <1>1, IdleIsNothing DEF CalmFor, Revoking, Pending
<1>9. LastFollows(x)'
  BY <1>3 DEF LastFollows
<1> QED BY <1>5, <1>6, <1>7, <1>8, <1>9 DEF CalmFor

LEMMA CalmInsert ==
  ASSUME Typed, NEW s, IsWrite(s), CalmFor(s), s.todo[1].kind \in Inserts, NEW n \in MessageIds, n = s.todo[1].id,
         NEW m \in Message, messages' = [messages EXCEPT ![n] = m], ~m.revoked, m.request = s.request,
         NEW x, Continues(s, x), x.ids = s.ids \cup {n}, x.todo[1].kind \notin Inserts,
         Has(x.todo, {"setLast"}),
         UNCHANGED <<built, conv, classified>>
  PROVE  CalmFor(x)'
<1>1. /\ messages'[n] = m /\ \A k \in MessageIds : k # n => messages'[k] = messages[k]
      /\ IsStored(n)' /\ \A k \in MessageIds : k # n => (IsStored(k)' <=> IsStored(k))
  BY RowWritten DEF Typed
<1>2. \A k : AboutToInsert(s, k) <=> k = n
  BY DEF AboutToInsert
<1>3. IsWrite(x) /\ \A k : ~AboutToInsert(x, k)
  BY DEF AboutToInsert, IsWrite, Continues
<1>4. n = built /\ \A k \in MessageIds : k # n => (IsStored(k) <=> k <= built)
  BY <1>2 DEF CalmFor, AllStored
<1>5. AllStored(x)'
  <2> SUFFICES ASSUME NEW k \in MessageIds PROVE IsStored(k)' <=> k <= built
    BY <1>3 DEF AllStored, AboutToInsert
  <2> QED BY <1>1, <1>4 DEF MessageIds
<1>6. Owns(x)'
  <2>1. \A k \in s.ids : k \in MessageIds /\ IsStored(k) /\ ~messages[k].revoked /\ messages[k].request = s.request
    BY WriteShapes DEF CalmFor, Owns, IsWrite
  <2>2. \A k \in x.ids : IsStored(k)' /\ ~messages'[k].revoked /\ messages'[k].request = s.request
    BY <1>1, <2>1
  <2> QED BY <1>4, <2>2 DEF Owns, Continues
<1>7. Fresh(x)'
  BY <1>3, IdleIsNothing DEF Fresh
<1>8. Revoking(x)'
  BY <1>1, IdleIsNothing DEF CalmFor, Revoking, Pending
<1>9. LastFollows(x)'
  BY <1>3 DEF LastFollows
<1> QED BY <1>5, <1>6, <1>7, <1>8, <1>9 DEF CalmFor

\* A call of a message action or of a marker: what it changes of a message is
\* not its request, and not which messages there are.
LEMMA CalmActor ==
  ASSUME Typed, NEW s \in Action, CalmFor(s), NEW x, x = Idle \/ x \in Action,
         messages' = messages \/ (\E n, m : Updates(n, m)), built' = built, conv'.last = conv.last,
         Fresh(x)', Revoking(x)'
  PROVE  CalmFor(x)'
<1>1. /\ StoredIds' = StoredIds
      /\ \A n \in StoredIds : messages'[n].request = messages[n].request
  BY StoredOfSame DEF Typed
<1>2. \A n \in MessageIds : (IsStored(n)' <=> IsStored(n)) /\ (IsStored(n) => messages'[n].request = messages[n].request)
  BY <1>1 DEF StoredIds
<1>3. ~IsWrite(s) /\ ~IsWrite(x)
  BY NoWriter DEF IsWrite
<1>4. AllStored(x)'
  BY <1>2, <1>3 DEF CalmFor, AllStored, AboutToInsert
<1>5. Owns(x)'
  BY <1>3 DEF Owns
<1>6. LastFollows(x)'
  <2> SUFFICES ASSUME built > 0
               PROVE  /\ conv.last \in MessageIds /\ IsStored(conv.last)'
                      /\ messages'[conv.last].request = messages'[built].request
    BY <1>3 DEF LastFollows
  <2>1. conv.last \in MessageIds /\ IsStored(conv.last) /\ messages[conv.last].request = messages[built].request
    BY <1>3 DEF CalmFor, LastFollows
  <2>2. built \in MessageIds
    BY MessagingAssumption DEF Typed, TablesOK, MessageIds
  <2>3. IsStored(built)
    BY <1>3, <2>2 DEF CalmFor, AllStored, AboutToInsert, MessageIds
  <2> QED BY <1>2, <2>1, <2>2, <2>3
<1> QED BY <1>4, <1>5, <1>6 DEF CalmFor

\* One action of one call, and what is pending of it.
LEMMA PendingOf ==
  ASSUME NEW c, NEW n, NEW kinds
  PROVE  /\ Pending([todo |-> <<c>>], n, kinds) => c.kind \in kinds /\ c.id = n
         /\ [todo |-> <<c>>] \in Action /\ c.kind \in kinds /\ c.id = n => Pending([todo |-> <<c>>], n, kinds)
<1>1. PICK x, t : t = <<c>> /\ x = [todo |-> t]
  OBVIOUS
<1>2. x.todo = t /\ DOMAIN t = {1} /\ t[1] = c
  BY <1>1
<1>3. /\ Pending(x, n, kinds) => c.kind \in kinds /\ c.id = n
      /\ x \in Action /\ c.kind \in kinds /\ c.id = n => Pending(x, n, kinds)
  BY <1>2 DEF Pending
<1> QED BY <1>1, <1>3

LEMMA PendingRevoke ==
  ASSUME NEW k \in MessageIds
  PROVE  /\ [todo |-> RevokeRest(k)] \in Action
         /\ Pending([todo |-> RevokeRest(k)], k, {"declassify"})
         /\ Pending([todo |-> RevokeRest(k)], k, {"checkLast", "setPreview"})
         /\ \A n, kinds : n # k => ~Pending([todo |-> RevokeRest(k)], n, kinds)
         /\ \A n, kinds : n # k => ~Pending([todo |-> RevokeCalls(k)], n, kinds)
<1>1. PICK a, b, c : /\ a = [kind |-> "tombstone", id |-> k] /\ b = [kind |-> "declassify", id |-> k]
                     /\ c = [kind |-> "checkLast", id |-> k]
  OBVIOUS
<1>2. PICK x, y, t, u : /\ t = RevokeRest(k) /\ u = RevokeCalls(k) /\ x = [todo |-> t] /\ y = [todo |-> u]
  OBVIOUS
<1>3. t = <<b, c>> /\ u = <<a, b, c>>
  BY <1>1, <1>2 DEF RevokeRest, RevokeCalls
<1>4. /\ DOMAIN t = {1, 2} /\ t[1] = b /\ t[2] = c
      /\ DOMAIN u = {1, 2, 3} /\ u[1] = a /\ u[2] = b /\ u[3] = c
  BY <1>3
<1>5. x \in Action /\ x.todo = t /\ y.todo = u
  BY <1>2 DEF Action, ActionTodos, RevokeRest
<1>6. /\ Pending(x, k, {"declassify"}) /\ Pending(x, k, {"checkLast", "setPreview"})
      /\ \A n, kinds : n # k => ~Pending(x, n, kinds) /\ ~Pending(y, n, kinds)
  BY <1>1, <1>4, <1>5 DEF Pending
<1> QED BY <1>2, <1>5, <1>6

LEMMA CalmTombstone ==
  ASSUME Typed, NEW r \in Slots, Doing(r, "tombstone"), CalmFor(slots[r]), WriteTombstone(r)
  PROVE  \E x : Becomes(r, x) /\ CalmFor(x)'
<1>1. SlotsOK /\ TablesOK
  BY DEF Typed
<1>2. PICK k, s, x : k = Call(r).id /\ s = slots[r] /\ x = [todo |-> RevokeRest(k)]
  OBVIOUS
<1>3. /\ Acts(r) /\ k \in MessageIds /\ s = [todo |-> RevokeCalls(k)] /\ Becomes(r, x)
      /\ UNCHANGED <<built, conv, classified>>
  BY <1>1, <1>2, RevokeEffect
<1>4. PICK m : Updates(k, m) /\ m.text = "tombstone" /\ m.revoked
  BY <1>1, <1>2, UpdateEffect
<1>5. messages'[k] = m /\ \A n \in MessageIds : n # k => messages'[n] = messages[n] /\ (IsStored(n)' <=> IsStored(n))
  BY <1>1, <1>4, RowWritten DEF Updates
<1>6. x \in Action /\ Fresh(x)'
  <2>1. x \in Action /\ x.todo[1].kind = "declassify"
    BY <1>2, <1>3, PendingRevoke DEF RevokeRest
  <2> QED BY <2>1 DEF Fresh
<1>7. Revoking(x)'
  <2> SUFFICES ASSUME NEW n \in MessageIds, IsStored(n)', messages'[n].revoked
               PROVE  /\ messages'[n].text = "tombstone"
                      /\ n \notin classified \/ Pending(x, n, {"declassify"})
                      /\ conv.last = n => conv.preview = "tombstone" \/ Pending(x, n, {"checkLast", "setPreview"})
    BY <1>3 DEF Revoking, Pending
  <2>1. CASE n = k
    BY <1>2, <1>3, <1>4, <1>5, <2>1, PendingRevoke
  <2>2. CASE n # k
    <3>1. IsStored(n) /\ messages[n].revoked /\ messages'[n].text = messages[n].text
      BY <1>5, <2>2
    <3>2. \A kinds : ~Pending(s, n, kinds)
      BY <1>3, <2>2, PendingRevoke
    <3> QED BY <1>2, <3>1, <3>2 DEF CalmFor, Revoking
  <2> QED BY <2>1, <2>2
<1> QED BY <1>2, <1>3, <1>4, <1>6, <1>7, CalmActor DEF Acts

LEMMA CalmDeclassify ==
  ASSUME Typed, NEW r \in Slots, CalmFor(slots[r]), Declassify(r)
  PROVE  \E x : Becomes(r, x) /\ CalmFor(x)'
<1>1. SlotsOK /\ TablesOK
  BY DEF Typed
<1>2. PICK k, c, s, x : /\ k = Call(r).id /\ c = [kind |-> "checkLast", id |-> k]
                        /\ s = slots[r] /\ x = [todo |-> <<c>>]
  OBVIOUS
<1>3. /\ Acts(r) /\ k \in MessageIds /\ s = [todo |-> RevokeRest(k)] /\ Becomes(r, x)
      /\ classified' = classified \ {k} /\ UNCHANGED <<built, messages, conv>>
  BY <1>1, <1>2, RevokeEffect
<1>4. c \in ActionRow
  BY <1>2, <1>3 DEF ActionRow
<1>5. x \in Action /\ x.todo[1].kind = "checkLast"
  BY <1>2, <1>4 DEF Action, ActionTodos
<1>6. Fresh(x)'
  BY <1>5 DEF Fresh
<1>7. Revoking(x)'
  <2> SUFFICES ASSUME NEW n \in MessageIds, IsStored(n), messages[n].revoked
               PROVE  /\ messages[n].text = "tombstone"
                      /\ n \notin classified'
                      /\ conv.last = n => conv.preview = "tombstone" \/ Pending(x, n, {"checkLast", "setPreview"})
    BY <1>3 DEF Revoking, Pending, IsStored
  <2>0. /\ messages[n].text = "tombstone"
        /\ n \notin classified \/ Pending(s, n, {"declassify"})
        /\ conv.last = n => conv.preview = "tombstone" \/ Pending(s, n, {"checkLast", "setPreview"})
    BY <1>2 DEF CalmFor, Revoking
  <2>1. CASE n = k
    BY <1>2, <1>3, <1>5, <2>0, <2>1, PendingOf
  <2>2. CASE n # k
    BY <1>3, <2>0, <2>2, PendingRevoke
  <2> QED BY <2>1, <2>2
<1> QED BY <1>2, <1>3, <1>5, <1>6, <1>7, CalmActor DEF Acts

LEMMA CalmPreview ==
  ASSUME Typed, NEW r \in Slots, CalmFor(slots[r]), CheckLast(r) \/ SetPreview(r)
  PROVE  \E x : Becomes(r, x) /\ CalmFor(x)'
<1>1. SlotsOK /\ TablesOK
  BY DEF Typed
<1>2. PICK k, s, d : k = Call(r).id /\ s = slots[r] /\ d = Call(r)
  OBVIOUS
<1>3. ASSUME NEW n, NEW kinds, Pending(s, n, kinds), s = [todo |-> <<d>>]
      PROVE  d.kind \in kinds /\ n = k
  BY <1>2, <1>3, PendingOf
<1>4. CASE CheckLast(r)
  <2>1. /\ Acts(r) /\ k \in MessageIds /\ s = [todo |-> <<d>>] /\ d.kind = "checkLast"
        /\ \/ conv.last = k /\ Becomes(r, [todo |-> <<[kind |-> "setPreview", id |-> k]>>])
           \/ conv.last # k /\ Becomes(r, Idle)
        /\ UNCHANGED <<built, messages, conv, classified>>
    BY <1>1, <1>2, <1>4, PreviewEffect DEF tables
  <2>2. PICK c, y : c = [kind |-> "setPreview", id |-> k] /\ y = [todo |-> <<c>>]
    OBVIOUS
  <2>3. c \in ActionRow
    BY <2>1, <2>2 DEF ActionRow
  <2>4. y \in Action /\ y.todo[1] = c
    BY <2>2, <2>3 DEF Action, ActionTodos
  <2>5. ASSUME NEW n \in MessageIds, IsStored(n), messages[n].revoked
        PROVE  messages[n].text = "tombstone" /\ n \notin classified
               /\ (conv.last = n => conv.preview = "tombstone" \/ n = k)
    <3>1. /\ messages[n].text = "tombstone"
          /\ n \notin classified \/ Pending(s, n, {"declassify"})
          /\ conv.last = n => conv.preview = "tombstone" \/ Pending(s, n, {"checkLast", "setPreview"})
      BY <1>2, <2>5 DEF CalmFor, Revoking
    <3> QED BY <1>3, <2>1, <3>1
  <2>6. CASE conv.last = k /\ Becomes(r, y)
    <3>1. Fresh(y)'
      BY <2>1, <2>2, <2>4, <2>6 DEF Fresh
    <3>2. Pending(y, k, {"checkLast", "setPreview"})
      BY <2>2, <2>4, PendingOf
    <3>3. Revoking(y)'
      BY <2>1, <2>5, <3>2 DEF Revoking, IsStored, Pending
    <3> QED BY <1>2, <2>1, <2>4, <2>6, <3>1, <3>3, CalmActor DEF Acts
  <2>7. CASE conv.last # k /\ Becomes(r, Idle)
    <3>1. Fresh(Idle)'
      BY IdleIsNothing DEF Fresh
    <3>2. Revoking(Idle)'
      BY <2>1, <2>5, <2>7 DEF Revoking, IsStored
    <3> QED BY <1>2, <2>1, <2>7, <3>1, <3>2, CalmActor DEF Acts
  <2> QED BY <2>1, <2>2, <2>6, <2>7
<1>5. CASE SetPreview(r)
  <2>1. /\ Acts(r) /\ k \in MessageIds /\ s = [todo |-> <<d>>] /\ d.kind = "setPreview"
        /\ conv' = [last |-> k, preview |-> "tombstone"] /\ Becomes(r, Idle)
        /\ UNCHANGED <<built, messages, classified>>
    BY <1>1, <1>2, <1>5, PreviewEffect
  <2>2. conv.last = k
    <3>1. s \in Action /\ s.todo[1] = d
      BY <1>2, <2>1 DEF Acts
    <3> QED BY <1>2, <2>1, <3>1 DEF CalmFor, Fresh
  <2>3. Fresh(Idle)'
    BY IdleIsNothing DEF Fresh
  <2>4. Revoking(Idle)'
    <3> SUFFICES ASSUME NEW n \in MessageIds, IsStored(n), messages[n].revoked
                 PROVE  messages[n].text = "tombstone" /\ n \notin classified
      BY <2>1 DEF Revoking, IsStored
    <3>1. messages[n].text = "tombstone" /\ (n \notin classified \/ Pending(s, n, {"declassify"}))
      BY <1>2 DEF CalmFor, Revoking
    <3> QED BY <1>3, <2>1, <3>1
  <2> QED BY <1>2, <2>1, <2>2, <2>3, <2>4, CalmActor DEF Acts
<1> QED BY <1>4, <1>5

\* A call that is the last of its action, or one of a bulk, and revokes nothing.
LEMMA CalmSingle ==
  ASSUME Typed, NEW s \in Action, CalmFor(s), NEW c, s = [todo |-> <<c>>],
         c.kind \notin {"declassify", "checkLast", "setPreview"},
         NEW x, x = Idle \/ x \in Action,
         \/ messages' = messages
         \/ \E n, m : /\ Updates(n, m) /\ m.revoked = messages[n].revoked
                      /\ m.revoked => m.text = messages[n].text,
         UNCHANGED <<built, conv, classified>>, Fresh(x)'
  PROVE  CalmFor(x)'
<1>1. \A n, kinds : kinds \subseteq {"declassify", "checkLast", "setPreview"} => ~Pending(s, n, kinds)
  BY PendingOf
<1>2. \A n \in MessageIds : IsStored(n) /\ messages[n].revoked =>
        messages[n].text = "tombstone" /\ n \notin classified /\ (conv.last = n => conv.preview = "tombstone")
  <2>1. \A n : ~Pending(s, n, {"declassify"}) /\ ~Pending(s, n, {"checkLast", "setPreview"})
    BY <1>1
  <2> QED BY <2>1 DEF CalmFor, Revoking
<1>3. \A n \in MessageIds : IsStored(n)' /\ messages'[n].revoked =>
        IsStored(n) /\ messages[n].revoked /\ messages'[n].text = messages[n].text
  <2>1. CASE messages' = messages
    BY <2>1, StoredSame
  <2>2. CASE \E n, m : /\ Updates(n, m) /\ m.revoked = messages[n].revoked
                       /\ m.revoked => m.text = messages[n].text
    <3>1. PICK k, m : /\ Updates(k, m) /\ m.revoked = messages[k].revoked
                      /\ m.revoked => m.text = messages[k].text
      BY <2>2
    <3>2. /\ k \in MessageIds /\ IsStored(k) /\ messages'[k] = m
          /\ \A n \in MessageIds : n # k => messages'[n] = messages[n] /\ (IsStored(n)' <=> IsStored(n))
      BY <3>1, RowWritten DEF Updates, Typed
    <3> QED BY <3>1, <3>2
  <2> QED BY <2>1, <2>2
<1>4. Revoking(x)'
  BY <1>2, <1>3 DEF Revoking
<1>5. messages' = messages \/ (\E n, m : Updates(n, m))
  OBVIOUS
<1> QED BY <1>4, <1>5, CalmActor

LEMMA CalmEdit ==
  ASSUME Typed, NEW r \in Slots, CalmFor(slots[r]), UpdateText(r)
  PROVE  \E x : Becomes(r, x) /\ CalmFor(x)'
<1>1. SlotsOK /\ TablesOK
  BY DEF Typed
<1>2. /\ Acts(r) /\ Call(r).id \in MessageIds /\ IsStored(Call(r).id) /\ Doing(r, "edit") /\ Becomes(r, Idle)
      /\ UNCHANGED <<built, conv, classified>>
  BY <1>1, EditEffect
<1>3. PICK s, c : s = slots[r] /\ c = Call(r)
  OBVIOUS
<1>4. s \in Action /\ s = [todo |-> <<c>>] /\ c.kind = "edit" /\ c = s.todo[1]
  BY <1>1, <1>2, <1>3, ActorEnds DEF ActionKinds, Acts
<1>5. ~messages[c.id].revoked
  BY <1>3, <1>4 DEF CalmFor, Fresh
<1>6. PICK m : Updates(c.id, m) /\ m.revoked = messages[c.id].revoked
  BY <1>1, <1>3, UpdateEffect
<1>7. Fresh(Idle)'
  BY IdleIsNothing DEF Fresh
<1>8. CalmFor(Idle)'
  BY <1>2, <1>3, <1>4, <1>5, <1>6, <1>7, CalmSingle
<1> QED BY <1>2, <1>8

LEMMA CalmHide ==
  ASSUME Typed, Typed', NEW r \in Slots, CalmFor(slots[r]), WriteDeletedFor(r)
  PROVE  \E x : Becomes(r, x) /\ CalmFor(x)'
<1>1. SlotsOK /\ TablesOK
  BY DEF Typed
<1>2. PICK s, c, lists : s = slots[r] /\ c = Call(r) /\ lists = c.lists
  OBVIOUS
<1>3. /\ s \in Action /\ s = [todo |-> <<c>>] /\ c.kind = "hide" /\ s.todo[1] = c
      /\ DOMAIN lists \subseteq StoredIds
      /\ UNCHANGED <<built, conv, classified>>
  BY <1>1, <1>2, HideEffect DEF Acts
<1>4. \A n \in DOMAIN lists : messages[n].deletedFor \subseteq lists[n]
  BY <1>2, <1>3 DEF CalmFor, Fresh
<1>5. PICK n, m : /\ n \in DOMAIN lists
                  /\ Updates(n, m) /\ m.deletedFor = lists[n]
                  /\ m.text = messages[n].text /\ m.revoked = messages[n].revoked
                  /\ \/ Becomes(r, Idle)
                     \/ Becomes(r, [todo |-> <<[kind |-> "hide", lists |-> [k \in DOMAIN lists \ {n} |-> lists[k]]]>>])
  BY <1>1, <1>2, UpdateEffect
<1>6. CASE Becomes(r, Idle)
  <2>1. Fresh(Idle)'
    BY IdleIsNothing DEF Fresh
  <2>2. CalmFor(Idle)'
    BY <1>2, <1>3, <1>5, <2>1, CalmSingle
  <2> QED BY <1>6, <2>2
<1>7. CASE Becomes(r, [todo |-> <<[kind |-> "hide", lists |-> [k \in DOMAIN lists \ {n} |-> lists[k]]]>>])
  <2>1. PICK d, x, l : l = [k \in DOMAIN lists \ {n} |-> lists[k]] /\ d = [kind |-> "hide", lists |-> l] /\ x = [todo |-> <<d>>]
    OBVIOUS
  <2>2. x.todo[1] = d /\ d.kind = "hide" /\ d.lists = l /\ Becomes(r, x)
    BY <1>7, <2>1
  <2>3. x \in Action
    <3>1. slots'[r] = x
      BY <1>1, <2>2 DEF SlotsOK, Becomes
    <3>2. x = Idle \/ (x \in Write /\ Sound(x)) \/ x \in Action
      BY <3>1 DEF Typed, SlotsOK, Writes, Acts
    <3>3. ~(x \in Write /\ Sound(x))
      BY <2>2, WriteShapes DEF WriteKinds, PlainKinds, TargetKinds, Inserts, Asking, Closing
    <3>4. x # Idle
      BY <2>1 DEF Idle
    <3> QED BY <3>2, <3>3, <3>4
  <2>4. \A k \in MessageIds : k # n => messages'[k] = messages[k]
    BY <1>1, <1>5, RowWritten DEF Updates
  <2>5. \A k \in DOMAIN l : k \in MessageIds /\ k # n /\ l[k] = lists[k] /\ k \in DOMAIN lists
    BY <1>3, <2>1 DEF StoredIds
  <2>6. Fresh(x)'
    BY <1>4, <2>2, <2>4, <2>5 DEF Fresh
  <2>7. CalmFor(x)'
    BY <1>2, <1>3, <1>5, <2>3, <2>6, CalmSingle
  <2> QED BY <2>2, <2>7
<1> QED BY <1>5, <1>6, <1>7

LEMMA CalmMark ==
  ASSUME Typed, NEW r \in Slots, CalmFor(slots[r]),
         ReadLatest(r) \/ AdvanceSeen(r) \/ AdvanceDelivered(r) \/ WriteCutoff(r)
  PROVE  \E x : Becomes(r, x) /\ CalmFor(x)'
<1>1. SlotsOK /\ TablesOK
  BY DEF Typed
<1>2. PICK kind \in {"latest", "advanceSeen", "advanceDelivered", "clear", "conceal"} : Doing(r, kind)
  BY DEF ReadLatest, AdvanceSeen, AdvanceDelivered, WriteCutoff
<1>3. PICK s, c : s = slots[r] /\ c = Call(r)
  OBVIOUS
<1>4. s \in Action /\ s = [todo |-> <<c>>] /\ c.kind = kind
  BY <1>1, <1>2, <1>3, ActorEnds DEF ActionKinds, Acts
<1>5. PICK x : /\ Becomes(r, x) /\ (x = Idle \/ (x \in Action /\ x.todo[1].kind = "advanceSeen"))
               /\ UNCHANGED <<built, messages, conv, classified>>
  <2>1. CASE ReadLatest(r)
    <3>1. PICK d \in ActionRow : d.kind = "advanceSeen" /\ Becomes(r, [todo |-> <<d>>])
      BY <1>1, <2>1, MarkEffect
    <3>2. [todo |-> <<d>>] \in Action /\ [todo |-> <<d>>].todo[1] = d
      BY DEF Action, ActionTodos
    <3>3. UNCHANGED <<built, messages, conv, classified>>
      BY <1>1, <2>1, MarkEffect DEF tables
    <3> QED BY <3>1, <3>2, <3>3
  <2>2. CASE AdvanceSeen(r) \/ AdvanceDelivered(r) \/ WriteCutoff(r)
    BY <1>1, <2>2, MarkEffect
  <2> QED BY <2>1, <2>2
<1>6. Fresh(x)'
  BY <1>5, IdleIsNothing DEF Fresh
<1>7. CalmFor(x)'
  BY <1>3, <1>4, <1>5, <1>6, CalmSingle
<1> QED BY <1>5, <1>7

\* The calls of a request that writes.
LEMMA CalmGoesOn ==
  ASSUME Typed, NEW r \in Slots, CalmFor(slots[r]), GoesOn(r), messages' = messages, built' = built,
         classified' \subseteq classified \cup slots[r].ids,
         \/ conv' = conv /\ slots[r].todo[1].kind # "setLast"
         \/ \E n \in slots[r].ids : conv' = [last |-> n, preview |-> "original"]
  PROVE  \E x : Becomes(r, x) /\ CalmFor(x)'
<1>1. PICK s, x : s = slots[r] /\ x = Rest(s) /\ Becomes(r, x)
  BY DEF GoesOn
<1>2. IsWrite(s) /\ s.todo[1].kind \notin Opening
  BY <1>1 DEF GoesOn, Writes, IsWrite
<1>3. s.todo \in Seq(WriteRow) /\ Len(s.todo) # 0 /\ Len(s.todo) \in Nat /\ DOMAIN s.todo = 1..Len(s.todo)
  BY <1>2, WriteShapes DEF IsWrite
<1>4. CASE Len(s.todo) = 1
  <2>1. x = Idle
    BY <1>1, <1>4 DEF Rest
  <2>2. Has(s.todo, {"setLast"}) => s.todo[1].kind = "setLast"
    <3>1. DOMAIN s.todo = {1}
      BY <1>3, <1>4
    <3> QED BY <3>1 DEF Has
  <2>3. CalmFor(x)'
    BY <1>1, <1>2, <2>1, <2>2, CalmWriter
  <2> QED BY <1>1, <2>3 DEF Becomes
<1>5. CASE Len(s.todo) # 1
  <2>1. Continues(s, x) /\ x.todo = Tail(s.todo) /\ x.ids = s.ids
    BY <1>1, <1>2, <1>5, RestContinues DEF IsWrite
  <2>2. x.todo[1].kind \notin Inserts
    BY <1>2, <1>5, <2>1, TailDoesNotInsert DEF IsWrite
  <2>3. s.todo[1].kind # "setLast" /\ Has(s.todo, {"setLast"}) => Has(x.todo, {"setLast"})
    BY <1>3, <2>1, HasTail
  <2>4. x # Idle
    BY <2>1, WriteShapes DEF Continues
  <2>5. CalmFor(x)'
    BY <1>1, <1>2, <2>1, <2>2, <2>3, <2>4, CalmWriter
  <2> QED BY <1>1, <2>5 DEF Becomes
<1> QED BY <1>4, <1>5

LEMMA CalmAsking ==
  ASSUME Typed, NEW r \in Slots, CalmFor(slots[r]),
         FindClientMessages(r) \/ ReserveClientMessage(r) \/ WaitForClientMessages(r) \/ GiveUpWaiting(r)
  PROVE  \E x : Becomes(r, x) /\ CalmFor(x)'
<1>1. SlotsOK /\ TablesOK
  BY DEF Typed
<1>2. PICK s : s = slots[r]
  OBVIOUS
<1>3. PICK kind \in Asking : Doing(r, kind)
  BY DEF FindClientMessages, ReserveClientMessage, WaitForClientMessages, GiveUpWaiting, Asking
<1>4. Writes(r) /\ IsWrite(s) /\ s.todo[1].kind = kind
  BY <1>1, <1>2, <1>3, WriterOf DEF WriteKinds, PlainKinds, IsWrite
<1>5. kind \notin Opening /\ kind # "setLast"
  BY DEF Asking, Opening, Inserts
<1>6. ~Has(s.todo, {"setLast"})
  <2>1. Len(s.todo) = 1 /\ s.todo = <<s.todo[1]>>
    BY <1>4, AsksAlone DEF IsWrite
  <2>2. DOMAIN s.todo = {1}
    BY <2>1
  <2> QED BY <1>4, <1>5, <2>2 DEF Has
<1>7. ASSUME NEW t, t[1].kind \notin Inserts, Becomes(r, With(s, t)), Continues(s, With(s, t)),
             UNCHANGED <<built, messages, conv, classified>>
      PROVE  \E x : Becomes(r, x) /\ CalmFor(x)'
  <2>1. PICK x : x = With(s, t)
    OBVIOUS
  <2>2. x.todo = t /\ x.ids = s.ids
    BY <1>4, <2>1 DEF With, Write, IsWrite
  <2>3. CalmFor(x)'
    BY <1>2, <1>4, <1>5, <1>6, <1>7, <2>1, <2>2, CalmWriter
  <2> QED BY <1>7, <2>1, <2>3
<1>8. CASE FindClientMessages(r)
  <2>1. UNCHANGED <<built, tables>>
    BY <1>1, <1>8, FindEffect
  <2>2. PICK next \in {"wait", "reserve"} :
          Becomes(r, With(s, <<[kind |-> next]>>)) /\ Continues(s, With(s, <<[kind |-> next]>>))
    BY <1>1, <1>2, <1>8, FindEffect
  <2>3. PICK t : t = <<[kind |-> next]>>
    OBVIOUS
  <2>4. t[1].kind = next
    BY <2>3
  <2>5. t[1].kind \notin Inserts
    BY <2>4 DEF Inserts
  <2> QED BY <1>7, <2>1, <2>2, <2>3, <2>5 DEF tables
<1>9. CASE ReserveClientMessage(r)
  <2>1. UNCHANGED <<built, messages, conv, classified>>
    BY <1>1, <1>9, ReserveEffect
  <2>2. PICK t, w : t = WriteCalls(s.type) \o <<[kind |-> "complete"]>> /\ w = <<[kind |-> "wait"]>>
    OBVIOUS
  <2>3. \/ Becomes(r, With(s, t)) /\ Continues(s, With(s, t))
        \/ Becomes(r, With(s, w)) /\ Continues(s, With(s, w))
    BY <1>1, <1>2, <1>9, <2>2, ReserveEffect
  <2>4. t[1].kind \notin Inserts
    BY <2>2, ReservedFirst
  <2>5. w[1].kind = "wait"
    BY <2>2
  <2>6. w[1].kind \notin Inserts
    BY <2>5 DEF Inserts
  <2> QED BY <1>7, <2>1, <2>3, <2>4, <2>6
<1>10. CASE WaitForClientMessages(r) \/ GiveUpWaiting(r)
  <2>1. Becomes(r, Idle) /\ UNCHANGED <<built, messages, conv, classified>>
    BY <1>1, <1>10, WaitEffect DEF tables
  <2>2. CalmFor(Idle)'
    BY <1>2, <1>4, <1>5, <1>6, <2>1, CalmWriter
  <2> QED BY <2>1, <2>2
<1> QED BY <1>8, <1>9, <1>10

LEMMA CalmWriting ==
  ASSUME Typed, NEW r \in Slots, CalmFor(slots[r]), BuildMessage(r) \/ InsertMessage(r)
  PROVE  \E x : Becomes(r, x) /\ CalmFor(x)'
<1>1. SlotsOK /\ TablesOK /\ built \in Nat
  BY DEF Typed, TablesOK
<1>2. PICK s : s = slots[r]
  OBVIOUS
\* Messages are still to be stored, so that the last message is still to be set.
<1>3. ASSUME IsWrite(s), s.todo[1].kind \in Opening
      PROVE  /\ s.todo \in Seq(WriteRow) /\ Len(s.todo) # 0
             /\ Has(s.todo, {"setLast"}) /\ s.todo[1].kind \notin {"setLast"}
  <2>1. s.todo \in Seq(WriteRow) /\ Len(s.todo) # 0 /\ 1 \in DOMAIN s.todo
    BY <1>3, WriteShapes DEF IsWrite
  <2>2. Has(s.todo, Opening)
    BY <1>3, <2>1 DEF Has
  <2> QED BY <1>3, <2>1, <2>2 DEF IsWrite, Sound, Order, Opening, Inserts
<1>4. CASE BuildMessage(r)
  <2>1. /\ Writes(r) /\ s.todo[1].kind \in {"build", "buildBatch"} /\ built' = built + 1 /\ UNCHANGED tables
        /\ \E c \in WriteRow :
             LET t == <<c>> \o Tail(s.todo)
             IN /\ c.kind \in Inserts /\ c.id = built + 1 /\ Becomes(r, With(s, t)) /\ Continues(s, With(s, t))
                /\ With(s, t).todo = t /\ With(s, t).ids = s.ids
    BY <1>1, <1>2, <1>4, BuildEffect
  <2>2. PICK c, t, x :
          /\ c \in WriteRow
          /\ t = <<c>> \o Tail(s.todo) /\ x = With(s, t)
          /\ c.kind \in Inserts /\ c.id = built + 1 /\ Becomes(r, x) /\ Continues(s, x) /\ x.todo = t /\ x.ids = s.ids
    BY <2>1
  <2>3. IsWrite(s) /\ s.todo[1].kind \in Opening
    BY <1>2, <2>1 DEF Writes, IsWrite, Opening
  <2>4. Has(t, {"setLast"})
    BY <1>3, <2>2, <2>3, HasReplaced
  <2>5. t[1] = c
    BY <1>3, <2>2, <2>3, Replaced
  <2>6. CalmFor(x)'
    BY <1>2, <2>1, <2>2, <2>3, <2>4, <2>5, CalmBuild
  <2> QED BY <2>2, <2>6
<1>5. CASE InsertMessage(r)
  <2>1. PICK n, x, m : /\ n = Call(r).id /\ x = Inserted(s, s.ids \cup {n})
                       /\ m = [sender |-> s.sender, client |-> s.client, request |-> s.request, type |-> s.type,
                               text |-> "original", revoked |-> FALSE, deletedFor |-> {}]
    OBVIOUS
  <2>2. /\ Writes(r) /\ s.todo[1].kind \in Inserts /\ n \in MessageIds /\ n = s.todo[1].id
        /\ messages' = [messages EXCEPT ![n] = m]
        /\ Becomes(r, x) /\ Continues(s, x) /\ x.todo = Tail(s.todo) /\ x.ids = s.ids \cup {n}
        /\ UNCHANGED <<built, conv, classified>>
    BY <1>1, <1>2, <1>5, <2>1, InsertEffect
  <2>3. IsWrite(s) /\ s.todo[1].kind \in Opening
    BY <1>2, <2>2 DEF Writes, IsWrite, Opening
  <2>4. m \in Message /\ ~m.revoked /\ m.request = s.request
    BY <2>1, <2>3, WriteShapes DEF Message, IsWrite
  <2>5. Len(s.todo) # 1
    BY <2>2, <2>3, InsertedContinues DEF IsWrite
  <2>6. x.todo[1].kind \notin Inserts /\ Has(x.todo, {"setLast"})
    BY <1>3, <2>2, <2>3, <2>5, TailDoesNotInsert, HasTail DEF IsWrite
  <2>7. CalmFor(x)'
    BY <1>2, <2>2, <2>3, <2>4, <2>6, CalmInsert
  <2> QED BY <2>2, <2>7
<1> QED BY <1>4, <1>5

LEMMA CalmFollowing ==
  ASSUME Typed, NEW r \in Slots, CalmFor(slots[r]),
         \/ Classify(r) \/ SetLastMessage(r) \/ WritePinned(r) \/ IncrementUnread(r) \/ CompleteClientMessage(r)
  PROVE  \E x : Becomes(r, x) /\ CalmFor(x)'
<1>1. SlotsOK /\ TablesOK
  BY DEF Typed
<1>2. PICK s : s = slots[r]
  OBVIOUS
<1>4. CASE Classify(r) \/ SetLastMessage(r) \/ WritePinned(r)
  <2>1. /\ GoesOn(r) /\ UNCHANGED <<built, messages>> /\ classified' \subseteq classified \cup s.ids
        /\ \/ conv' = conv /\ s.todo[1].kind # "setLast"
           \/ \E n \in s.ids : conv' = [last |-> n, preview |-> "original"]
    BY <1>1, <1>2, <1>4, FollowEffect
  <2> QED BY <1>2, <2>1, CalmGoesOn
<1>5. CASE IncrementUnread(r)
  <2>1. Writes(r) /\ s.todo[1].kind = "count" /\ UNCHANGED <<built, messages, conv, classified>>
    BY <1>1, <1>2, <1>5, CountEffect
  <2>2. CASE GoesOn(r)
    BY <1>2, <2>1, <2>2, CalmGoesOn
  <2>3. CASE ~GoesOn(r)
    <3>1. PICK u \in s.left : /\ Becomes(r, Counted(s, u)) /\ Continues(s, Counted(s, u))
                              /\ Counted(s, u).todo = s.todo /\ Counted(s, u).ids = s.ids
      BY <1>1, <1>2, <1>5, <2>3, CountEffect
    <3>2. PICK x : x = Counted(s, u)
      OBVIOUS
    <3>3. x # Idle
      BY <3>1, <3>2, WriteShapes DEF Continues
    <3>4. IsWrite(s) /\ s.todo[1].kind \notin Opening /\ s.todo[1].kind \notin Inserts
      BY <1>2, <2>1 DEF Writes, IsWrite, Opening, Inserts
    <3>5. CalmFor(x)'
      BY <1>2, <2>1, <3>1, <3>2, <3>3, <3>4, CalmWriter
    <3> QED BY <3>1, <3>2, <3>5
  <2> QED BY <2>2, <2>3
<1>6. CASE CompleteClientMessage(r)
  <2>1. Writes(r) /\ s.todo[1].kind = "complete" /\ UNCHANGED <<built, messages, conv, classified>>
    BY <1>1, <1>2, <1>6, CompleteEffect
  <2>2. CASE GoesOn(r)
    BY <1>2, <2>1, <2>2, CalmGoesOn
  <2>3. CASE Becomes(r, Idle)
    <3>1. IsWrite(s) /\ s.todo[1].kind \notin Opening
      BY <1>2, <2>1 DEF Writes, IsWrite, Opening, Inserts
    <3>2. ~Has(s.todo, {"setLast"})
      <4>1. s.todo \in Seq(WriteRow) /\ 1 \in DOMAIN s.todo /\ DOMAIN s.todo = 1..Len(s.todo) /\ Order(s.todo, s.ids)
        BY <3>1, WriteShapes DEF IsWrite, Sound
      <4>2. Len(s.todo) = 1
        BY <2>1, <4>1 DEF Order
      <4>3. DOMAIN s.todo = {1}
        BY <4>1, <4>2
      <4> QED BY <2>1, <4>3 DEF Has
    <3>3. CalmFor(Idle)'
      BY <1>2, <2>1, <3>1, <3>2, CalmWriter
    <3> QED BY <2>3, <3>3
  <2> QED BY <1>1, <1>6, <2>2, <2>3, CompleteEffect
<1> QED BY <1>4, <1>5, <1>6

LEMMA CalmRows ==
  ASSUME Typed, NEW r \in Slots, CalmFor(slots[r]), ReadRows(r) \/ PutRow(r)
  PROVE  \E x : Becomes(r, x) /\ CalmFor(x)'
<1>1. SlotsOK /\ TablesOK
  BY DEF Typed
<1>2. PICK s : s = slots[r]
  OBVIOUS
<1>3. /\ Writes(r) /\ s.todo[1].kind \in {"readRows", "putRows"}
      /\ UNCHANGED <<built, messages, conv, classified>>
  BY <1>1, <1>2, ReadEffect, PutEffect DEF tables
<1>4. /\ IsWrite(s) /\ s.todo[1].kind \notin Opening /\ s.todo[1].kind \notin Inserts
      /\ s.todo[1].kind # "setLast"
  BY <1>2, <1>3 DEF Writes, IsWrite, Opening, Inserts
<1>5. s \in Write /\ Sound(s) /\ s.todo \in Seq(WriteRow) /\ Len(s.todo) # 0
  BY <1>4, WriteShapes DEF IsWrite
<1>6. ASSUME NEW x, Becomes(r, x), Continues(s, x), x.ids = s.ids, x.todo[1].kind \notin Inserts,
             Has(s.todo, {"setLast"}) => Has(x.todo, {"setLast"})
      PROVE  \E y : Becomes(r, y) /\ CalmFor(y)'
  <2>1. x # Idle
    BY <1>6, WriteShapes DEF Continues
  <2>2. CalmFor(x)'
    BY <1>2, <1>3, <1>4, <1>6, <2>1, CalmWriter
  <2> QED BY <1>6, <2>2
<1>7. CASE ReadRows(r)
  <2>1. PICK x : Becomes(r, x) /\ Continues(s, x) /\ x.todo = Tail(s.todo) /\ x.ids = s.ids
    BY <1>1, <1>2, <1>7, ReadEffect
  <2>2. x.todo[1].kind \notin Inserts
    BY <1>1, <1>2, <1>5, <1>7, <2>1, ReadEffect, TailDoesNotInsert
  <2>3. Has(s.todo, {"setLast"}) => Has(x.todo, {"setLast"})
    BY <1>4, <1>5, <2>1, HasTail
  <2> QED BY <1>6, <2>1, <2>2, <2>3
<1>8. CASE PutRow(r)
  <2>1. CASE GoesOn(r)
    BY <1>2, <1>3, <1>4, <2>1, CalmGoesOn
  <2>2. CASE ~GoesOn(r)
    <3>1. PICK x : Becomes(r, x) /\ Continues(s, x) /\ x.todo = s.todo /\ x.ids = s.ids
      BY <1>1, <1>2, <1>8, <2>2, PutEffect
    <3> QED BY <1>4, <1>6, <3>1
  <2> QED BY <2>1, <2>2
<1> QED BY <1>7, <1>8

\* A call that throws and one that drops messages are counted, and no other call is.
LEMMA CallIsCounted ==
  ASSUME Typed, Typed', NEW r \in Slots, DatabaseCall(r)
  PROVE  /\ slots[r] # Idle
         /\ \/ disturbed' = disturbed + 1
            \/ disturbed' = disturbed /\ ~DropUnprocessed(r) /\ ~CallFails(r)
<1>1. SlotsOK /\ TablesOK
  BY DEF Typed
<1>2. slots[r] # Idle
  BY DEF DatabaseCall, Doing, Busy, FindClientMessages, ReserveClientMessage, WaitForClientMessages,
    GiveUpWaiting, BuildMessage, InsertMessage, DropUnprocessed, Classify, SetLastMessage, WritePinned,
    IncrementUnread, CompleteClientMessage, UpdateText, WriteTombstone, Declassify, CheckLast, SetPreview,
    ReadRows, PutRow, WriteDeletedFor, ReadLatest, AdvanceSeen, AdvanceDelivered, WriteCutoff, CallFails
<1>3. CASE DropUnprocessed(r) \/ CallFails(r)
  BY <1>2, <1>3 DEF DropUnprocessed, CallFails, Disturb
<1>4. CASE ~DropUnprocessed(r) /\ ~CallFails(r)
  <2>1. \/ FindClientMessages(r) \/ ReserveClientMessage(r) \/ WaitForClientMessages(r) \/ GiveUpWaiting(r)
        \/ BuildMessage(r) \/ InsertMessage(r)
        \/ Classify(r) \/ SetLastMessage(r) \/ WritePinned(r) \/ IncrementUnread(r) \/ CompleteClientMessage(r)
        \/ ReadRows(r) \/ PutRow(r)
        \/ UpdateText(r) \/ WriteTombstone(r) \/ Declassify(r) \/ CheckLast(r) \/ SetPreview(r)
        \/ WriteDeletedFor(r) \/ ReadLatest(r) \/ AdvanceSeen(r) \/ AdvanceDelivered(r) \/ WriteCutoff(r)
    BY <1>4 DEF DatabaseCall
  <2>2. CASE \/ FindClientMessages(r) \/ ReserveClientMessage(r) \/ WaitForClientMessages(r) \/ GiveUpWaiting(r)
             \/ BuildMessage(r) \/ InsertMessage(r)
    BY <1>1, <1>2, <1>4, <2>2, FindEffect, ReserveEffect, WaitEffect, BuildEffect, InsertEffect DEF Counters, TablesOK
  <2>3. CASE \/ Classify(r) \/ SetLastMessage(r) \/ WritePinned(r) \/ IncrementUnread(r) \/ CompleteClientMessage(r)
    BY <1>1, <1>2, <1>4, <2>3, FollowEffect, CountEffect, CompleteEffect DEF GoesOn, Counters
  <2>4. CASE ReadRows(r) \/ PutRow(r)
    BY <1>1, <1>2, <1>4, <2>4, ReadEffect, PutEffect DEF Counters
  <2>5. CASE \/ UpdateText(r) \/ WriteTombstone(r) \/ Declassify(r) \/ CheckLast(r) \/ SetPreview(r)
             \/ WriteDeletedFor(r) \/ ReadLatest(r) \/ AdvanceSeen(r) \/ AdvanceDelivered(r) \/ WriteCutoff(r)
    BY <1>1, <1>2, <1>4, <2>5, ActionMoves DEF Counters
  <2> QED BY <2>1, <2>2, <2>3, <2>4, <2>5
<1> QED BY <1>3, <1>4

\* Nothing throws and nothing is dropped while all is calm, and a request starts
\* only when none is in flight.
LEMMA CalmStep ==
  ASSUME Typed, CalmInv, [Next]_vars
  PROVE  CalmInv'
<1>1. SlotsOK /\ TablesOK /\ Typed'
  BY TypedStep DEF Typed
<1>2. SUFFICES ASSUME disturbed' = 0 PROVE Calm'
  BY DEF CalmInv, calm
<1>3. disturbed \in Nat /\ disturbed + 1 # 0
  BY <1>1 DEF TablesOK
<1>4. ASSUME disturbed' = disturbed PROVE Calm
  BY <1>2, <1>4 DEF CalmInv, calm
<1>5. ASSUME NEW r \in Slots, UseCase(r) PROVE Calm'
  <2>1. PICK x : Starts(r, x) /\ (NewWrite(x) \/ NewAction(x))
    BY <1>1, <1>5, UseCaseEffect
  <2>2. disturbed' = disturbed /\ (\A y \in Slots : slots[y] = Idle) /\ Becomes(r, x)
    BY <1>2, <1>3, <2>1 DEF Starts
  <2>3. CalmFor(Idle)
    BY <1>4, <2>2, SoleIdle
  <2>4. CalmFor(x)'
    BY <2>1, <2>3, CalmStart
  <2> QED BY <1>1, <2>2, <2>4, SoleNext
<1>6. ASSUME NEW r \in Slots, DatabaseCall(r) PROVE Calm'
  <2>1. ~DropUnprocessed(r) /\ ~CallFails(r)
    BY <1>1, <1>2, <1>3, <1>6, CallIsCounted
  <2>2. disturbed' = disturbed
    BY <1>1, <1>2, <1>3, <1>6, CallIsCounted
  <2>3. slots[r] # Idle
    BY <1>1, <1>6, CallIsCounted
  <2>4. CalmFor(slots[r]) /\ \A y \in Slots : y # r => slots[y] = Idle
    BY <1>4, <2>2, <2>3, SoleBusy
  <2>5. \E x : Becomes(r, x) /\ CalmFor(x)'
    BY <1>1, <1>6, <2>1, <2>4, CalmAsking, CalmWriting, CalmFollowing, CalmRows, CalmEdit, CalmTombstone, CalmDeclassify,
       CalmPreview, CalmHide, CalmMark DEF DatabaseCall, WriteTombstone
  <2> QED BY <1>1, <2>4, <2>5, SoleNext
<1>7. CASE UNCHANGED <<built, messages, conv, classified, slots, disturbed>>
  <2>1. PICK s : Sole(s) /\ CalmFor(s) /\ s \in {Idle} \cup {slots[r] : r \in Slots}
    BY <1>4, <1>7 DEF Calm
  <2>2. Sole(s)' /\ s \in {Idle} \cup {slots'[r] : r \in Slots}
    BY <1>7, <2>1 DEF Sole
  <2>3. \A n : IsStored(n)' <=> IsStored(n)
    BY <1>7, StoredSame
  <2>4. CalmFor(s)'
    BY <1>7, <2>1, <2>3 DEF CalmFor, AllStored, Owns, Fresh, Revoking, Pending, LastFollows
  <2> QED BY <2>2, <2>4 DEF Calm
<1>8. ASSUME NEW u \in Members, NEW k \in ClientIds, ExpireReservation(u, k) PROVE Calm'
  BY <1>1, <1>7, <1>8, ExpireEffect DEF Counters
<1>9. CASE UNCHANGED vars
  BY <1>7, <1>9 DEF vars, tables
<1> QED BY <1>5, <1>6, <1>8, <1>9 DEF Next

LEMMA CalmInit ==
  ASSUME Init
  PROVE  CalmInv
<1>1. Sole(Idle)
  BY DEF Init, Sole
<1>2. /\ built = 0 /\ \A n \in MessageIds : ~IsStored(n) /\ n \in Nat /\ n > 0
  BY DEF Init, IsStored, MessageIds
<1>3. \A n : ~AboutToInsert(Idle, n)
  BY IdleIsNothing DEF AboutToInsert
<1>4. CalmFor(Idle)
  BY <1>2, <1>3, IdleIsNothing DEF CalmFor, AllStored, Owns, Fresh, Revoking, LastFollows
<1> QED BY <1>1, <1>4 DEF CalmInv, Calm

\* With no request in flight, everything that was built is stored.
LEMMA QuietCalm ==
  ASSUME Typed, CalmInv, Quiet, calm
  PROVE  /\ \A n \in MessageIds : IsStored(n) <=> n <= built
         /\ Revoking(Idle) /\ LastFollows(Idle)
         /\ \A n, kinds : ~Pending(Idle, n, kinds)
<1>1. CalmFor(Idle)
  BY SoleIdle DEF CalmInv, Quiet, Busy
<1>2. \A n : ~AboutToInsert(Idle, n)
  BY IdleIsNothing DEF AboutToInsert
<1>3. \A n, kinds : ~Pending(Idle, n, kinds)
  BY IdleIsNothing DEF Pending
<1> QED BY <1>1, <1>2, <1>3 DEF CalmFor, AllStored

LEMMA NewestIs ==
  ASSUME NEW ids \in SUBSET Nat, NEW n \in ids, \A m \in ids : m <= n
  PROVE  Newest(ids) = n
<1>1. \A k \in ids : (\A m \in ids : m <= k) => k = n
  BY SMT
<1> QED BY <1>1 DEF Newest

\* What a revoked message said is gone when no request is left: until then the
\* request that revokes has still to take it away.
THEOREM RevokedTextIsGone == Spec => []RevokedIsGone
<1>1. Init => Typed /\ CalmInv
  BY TypedInit, CalmInit
<1>2. Typed /\ CalmInv /\ [Next]_vars => (Typed /\ CalmInv)'
  BY TypedStep, CalmStep
<1>3. Typed /\ CalmInv => RevokedIsGone
  BY QuietCalm DEF RevokedIsGone, Revoking, StoredIds
<1> QED BY <1>1, <1>2, <1>3, PTL DEF Spec

\* The last message is of the newest send when no request is left: until then the
\* request that sends has still to set it.
THEOREM LastMessageFollows == Spec => []LastIsNewest
<1>1. Init => Typed /\ CalmInv
  BY TypedInit, CalmInit
<1>2. Typed /\ CalmInv /\ [Next]_vars => (Typed /\ CalmInv)'
  BY TypedStep, CalmStep
<1>3. Typed /\ CalmInv => LastIsNewest
  <2> SUFFICES ASSUME Typed, CalmInv, Quiet, calm, StoredIds # {}
               PROVE  conv.last # 0 /\ messages[conv.last].request = messages[Newest(StoredIds)].request
    BY DEF LastIsNewest
  <2>1. built \in Nat /\ built <= MaxMessages /\ MaxMessages \in Nat
    BY MessagingAssumption DEF Typed, TablesOK
  <2>2. PICK n \in MessageIds : IsStored(n)
    BY DEF StoredIds
  <2>3. built > 0 /\ built \in MessageIds
    BY <2>1, <2>2, QuietCalm DEF MessageIds
  <2>4. built \in StoredIds /\ StoredIds \in SUBSET Nat /\ \A m \in StoredIds : m <= built
    BY <2>1, <2>3, QuietCalm DEF StoredIds, MessageIds
  <2>5. Newest(StoredIds) = built
    BY <2>4, NewestIs
  <2>6. conv.last \in MessageIds /\ messages[conv.last].request = messages[built].request
    BY <2>3, QuietCalm, IdleIsNothing DEF LastFollows
  <2>7. conv.last # 0
    BY <2>6 DEF MessageIds
  <2> QED BY <2>5, <2>6, <2>7
<1> QED BY <1>1, <1>2, <1>3, PTL DEF Spec

\* A step adds to the lists of those a message is hidden for.
LEMMA HiddenStep ==
  ASSUME Typed, CalmInv, [Next]_vars, calm', NEW n \in StoredIds
  PROVE  messages[n].deletedFor \subseteq messages'[n].deletedFor
<1>1. SlotsOK /\ TablesOK /\ Typed' /\ n \in MessageIds
  BY TypedStep DEF Typed, StoredIds
<1>2. disturbed \in Nat /\ disturbed + 1 # 0 /\ disturbed' = 0
  BY <1>1 DEF TablesOK, calm
<1>3. ASSUME NEW r \in Slots, slots[r] # Idle, disturbed' = disturbed PROVE CalmFor(slots[r])
  BY <1>2, <1>3, SoleBusy DEF CalmInv, calm
<1>4. ASSUME NEW k, NEW m, Updates(k, m), m.deletedFor = messages[k].deletedFor
      PROVE  messages[n].deletedFor \subseteq messages'[n].deletedFor
  BY <1>1, <1>4, RowWritten DEF Updates
<1>5. CASE messages' = messages
  BY <1>5
<1>6. ASSUME NEW r \in Slots, InsertMessage(r)
      PROVE  messages[n].deletedFor \subseteq messages'[n].deletedFor
  <2>1. PICK k, s, m : /\ k = Call(r).id /\ s = slots[r]
                       /\ m = [sender |-> s.sender, client |-> s.client, request |-> s.request, type |-> s.type,
                               text |-> "original", revoked |-> FALSE, deletedFor |-> {}]
    OBVIOUS
  <2>2. /\ Writes(r) /\ s.todo[1].kind \in Inserts /\ k \in MessageIds /\ k = s.todo[1].id
        /\ messages' = [messages EXCEPT ![k] = m] /\ UNCHANGED Counters
    BY <1>1, <1>6, <2>1, InsertEffect
  <2>3. s # Idle /\ AboutToInsert(s, k)
    BY <2>1, <2>2, WriteShapes DEF Writes, AboutToInsert, IsWrite
  <2>4. ~IsStored(k)
    BY <1>3, <2>1, <2>2, <2>3 DEF CalmFor, AllStored, Counters
  <2>5. n # k
    BY <2>4 DEF StoredIds
  <2> QED BY <1>1, <2>2, <2>5 DEF TablesOK
<1>7. ASSUME NEW r \in Slots, UpdateText(r) \/ WriteTombstone(r)
      PROVE  messages[n].deletedFor \subseteq messages'[n].deletedFor
  BY <1>1, <1>4, <1>7, UpdateEffect
<1>8. ASSUME NEW r \in Slots, WriteDeletedFor(r)
      PROVE  messages[n].deletedFor \subseteq messages'[n].deletedFor
  <2>1. PICK s, lists : s = slots[r] /\ lists = Call(r).lists
    OBVIOUS
  <2>2. PICK k, m : k \in DOMAIN lists /\ Updates(k, m) /\ m.deletedFor = lists[k]
    BY <1>1, <1>8, <2>1, UpdateEffect
  <2>3. Acts(r) /\ s.todo[1].kind = "hide" /\ s.todo[1].lists = lists /\ slots[r] # Idle /\ UNCHANGED Counters
    BY <1>1, <1>8, <2>1, HideEffect, WhoseCall DEF ActionKinds
  <2>4. messages[k].deletedFor \subseteq lists[k]
    BY <1>3, <2>1, <2>2, <2>3 DEF CalmFor, Fresh, Acts, Counters
  <2>5. messages'[k] = m /\ \A i \in MessageIds : i # k => messages'[i] = messages[i]
    BY <1>1, <2>2, RowWritten DEF Updates
  <2> QED BY <1>1, <2>2, <2>4, <2>5
<1>9. ASSUME NEW r \in Slots, UseCase(r) PROVE messages' = messages
  BY <1>1, <1>9, UseCaseEffect DEF Starts, tables
<1>10. ASSUME NEW r \in Slots, DatabaseCall(r)
       PROVE  messages[n].deletedFor \subseteq messages'[n].deletedFor
  <2>1. CASE \/ FindClientMessages(r) \/ ReserveClientMessage(r) \/ WaitForClientMessages(r) \/ GiveUpWaiting(r)
             \/ BuildMessage(r) \/ DropUnprocessed(r) \/ Classify(r) \/ SetLastMessage(r) \/ IncrementUnread(r)
             \/ CompleteClientMessage(r) \/ Declassify(r) \/ CheckLast(r) \/ SetPreview(r) \/ WritePinned(r)
             \/ ReadRows(r) \/ PutRow(r)
             \/ ReadLatest(r) \/ AdvanceSeen(r) \/ AdvanceDelivered(r) \/ WriteCutoff(r) \/ CallFails(r)
    <3>1. messages' = messages
      BY <2>1 DEF tables, FindClientMessages, ReserveClientMessage, WaitForClientMessages, GiveUpWaiting, BuildMessage,
         DropUnprocessed, Classify, SetLastMessage, IncrementUnread, CompleteClientMessage, Declassify, CheckLast,
         SetPreview, WritePinned, ReadRows, PutRow, ReadLatest, AdvanceSeen, AdvanceDelivered, WriteCutoff, CallFails
    <3> QED BY <1>5, <3>1
  <2> QED BY <1>6, <1>7, <1>8, <1>10, <2>1 DEF DatabaseCall
<1>11. ASSUME NEW u \in Members, NEW k \in ClientIds, ExpireReservation(u, k) PROVE messages' = messages
  BY <1>11 DEF ExpireReservation
<1>12. CASE UNCHANGED vars
  BY <1>5, <1>12 DEF vars, tables
<1> QED BY <1>5, <1>9, <1>10, <1>11, <1>12 DEF Next

\* A message that is hidden for a member stays hidden: the list that is written
\* back is still the one that was read, and nothing stored is inserted again.
THEOREM HiddenMessagesStayHidden == Spec => HiddenStaysHidden
<1>1. Init => Typed /\ CalmInv
  BY TypedInit, CalmInit
<1>2. Typed /\ CalmInv /\ [Next]_vars => (Typed /\ CalmInv)'
  BY TypedStep, CalmStep
<1>3. Typed /\ CalmInv /\ [Next]_vars =>
        (calm' => \A n \in StoredIds : messages[n].deletedFor \subseteq messages'[n].deletedFor)
  BY HiddenStep
<1> QED BY <1>1, <1>2, <1>3, PTL DEF Spec, HiddenStaysHidden

-----------------------------------------------------------------------------
(* Markers *)

\* While all is calm, the rows that a request holds are as they were read.
RowIsFresh(r, u) == HeldRow(r, u).seen = seen[u] /\ HeldRow(r, u).delivered = delivered[u]
RowsAreFresh == calm => \A r \in Slots : Writes(r) => \A u \in DOMAIN slots[r].rows : RowIsFresh(r, u)

\* A step that changes no marker.
LEMMA FreshUnmoved ==
  ASSUME Typed, calm, RowsAreFresh, NEW r \in Slots, NEW x, Moves(r, x), UNCHANGED <<seen, delivered>>
  PROVE  RowsAreFresh'
<1>1. /\ slots'[r] = x /\ \A y \in Slots : y # r => slots'[y] = slots[y]
      /\ Writes(r)' <=> x \in Write /\ Sound(x)
      /\ \A y \in Slots : y # r => (Writes(y)' <=> Writes(y))
  BY Elsewhere DEF Typed, Moves
<1>2. SUFFICES ASSUME NEW y \in Slots, Writes(y)', NEW u \in DOMAIN slots'[y].rows
               PROVE  RowIsFresh(y, u)'
  BY DEF RowsAreFresh
<1>3. CASE y # r
  BY <1>1, <1>2, <1>3 DEF RowsAreFresh, RowIsFresh, HeldRow
<1>4. CASE y = r
  <2>1. Newly(x) \/ Onward(r, x)
    BY <1>1, <1>2, <1>4 DEF Moves
  <2>2. u \in DOMAIN x.rows
    BY <1>1, <1>2, <1>4
  <2>3. Writes(r) /\ KeepsRows(slots[r], x)
    BY <2>1, <2>2 DEF Newly, Onward
  <2>4. CASE x.rows[u] = Row(u)
    BY <1>1, <1>4, <2>4 DEF RowIsFresh, HeldRow, Row
  <2>5. CASE u \in DOMAIN slots[r].rows /\ x.rows[u] = HeldRow(r, u)
    <3>1. RowIsFresh(r, u)
      BY <2>3, <2>5 DEF RowsAreFresh
    <3> QED BY <1>1, <1>4, <2>5, <3>1 DEF RowIsFresh, HeldRow
  <2> QED BY <2>2, <2>3, <2>4, <2>5 DEF KeepsRows, HeldRow
<1> QED BY <1>3, <1>4

\* What is put back is what is there.
LEMMA FreshReturns ==
  ASSUME Typed, calm, RowsAreFresh, NEW r \in Slots, PutRow(r)
  PROVE  UNCHANGED <<seen, delivered>>
<1>1. SlotsOK /\ DOMAIN seen = Members /\ DOMAIN delivered = Members
  BY DEF Typed, TablesOK
<1>2. Writes(r) /\ \E u \in DOMAIN slots[r].rows : PutsBack(u, slots[r].rows[u])
  BY <1>1, PutEffect
<1>3. PICK u \in DOMAIN slots[r].rows : PutsBack(u, slots[r].rows[u])
  BY <1>2
<1>4. RowIsFresh(r, u) /\ u \in Members
  BY <1>2, <1>3, HeldIsRow DEF RowsAreFresh
<1>5. PICK i, j : i = HeldRow(r, u).seen /\ j = HeldRow(r, u).delivered
  OBVIOUS
<1>6. seen' = [seen EXCEPT ![u] = i] /\ delivered' = [delivered EXCEPT ![u] = j]
  BY <1>3, <1>5 DEF PutsBack, HeldRow
<1>7. i = seen[u] /\ j = delivered[u] /\ seen \in [Members -> Nat] /\ delivered \in [Members -> Nat]
  BY <1>4, <1>5 DEF RowIsFresh, Typed, TablesOK
<1> QED BY <1>6, <1>7

LEMMA FreshStep ==
  ASSUME Typed, Typed', Numbers, CalmInv, RowsAreFresh, [Next]_vars, calm'
  PROVE  RowsAreFresh' /\ (MarkersStep \/ UNCHANGED <<seen, delivered>>)
<1>1. SlotsOK /\ TablesOK /\ MarkerRows
  BY DEF Typed, TablesOK, MarkerRows
<1>2. disturbed \in Nat /\ disturbed + 1 # 0 /\ disturbed' = 0
  BY <1>1 DEF TablesOK, calm
<1>3. calm
  <2>1. ASSUME NEW r \in Slots, UseCase(r) PROVE disturbed' = disturbed \/ disturbed' = disturbed + 1
    BY <1>1, <2>1, UseCaseEffect DEF Starts
  <2>2. ASSUME NEW r \in Slots, DatabaseCall(r) PROVE disturbed' = disturbed \/ disturbed' = disturbed + 1
    BY <2>2, CallIsCounted
  <2>3. ASSUME NEW u \in Members, NEW k \in ClientIds, ExpireReservation(u, k) PROVE disturbed' = disturbed
    BY <2>3 DEF ExpireReservation
  <2>4. CASE UNCHANGED vars
    BY <1>2, <2>4 DEF vars, calm
  <2> QED BY <1>2, <2>1, <2>2, <2>3, <2>4 DEF Next, calm
<1>4. CASE UNCHANGED <<seen, delivered>>
  <2>1. CASE \E r \in Slots : \E x : Moves(r, x)
    BY <1>3, <1>4, <2>1, FreshUnmoved
  <2>2. CASE slots' = slots
    BY <1>3, <1>4, <2>2 DEF RowsAreFresh, RowIsFresh, HeldRow, Writes
  <2>3. (\E r \in Slots : \E x : Moves(r, x)) \/ slots' = slots
    BY StepMoves
  <2> QED BY <1>4, <2>1, <2>2, <2>3
<1>5. ASSUME NEW r \in Slots, AdvanceSeen(r) \/ AdvanceDelivered(r)
      PROVE  RowsAreFresh' /\ MarkersStep
  <2>1. Becomes(r, Idle)
    BY <1>1, <1>5, MarkEffect
  <2>2. DatabaseCall(r) /\ slots[r] # Idle
    BY <1>5, CallIsCounted DEF DatabaseCall
  <2>3. \A y \in Slots : y # r => slots[y] = Idle
    BY <1>3, <2>2, SoleBusy DEF CalmInv
  <2>4. \A y \in Slots : slots'[y] = Idle
    BY <1>1, <2>1, <2>3, Elsewhere
  <2>5. \A y \in Slots : ~Writes(y)'
    BY <2>4, NoWriter DEF Writes
  <2>6. ~PutRow(r)
    BY <1>5 DEF AdvanceSeen, AdvanceDelivered, PutRow, Doing
  <2>7. MarkersStep
    BY <1>1, <2>2, <2>6, CallMovesForward
  <2> QED BY <2>5, <2>7 DEF RowsAreFresh
<1>6. ASSUME NEW r \in Slots, DatabaseCall(r), ~AdvanceSeen(r), ~AdvanceDelivered(r)
      PROVE  UNCHANGED <<seen, delivered>>
  <2>1. CASE PutRow(r)
    BY <1>3, <2>1, FreshReturns
  <2>2. CASE ~PutRow(r)
    BY <1>6, <2>2, CallKeepsMarkers
  <2> QED BY <2>1, <2>2
<1>7. ASSUME NEW r \in Slots, UseCase(r) PROVE UNCHANGED <<seen, delivered>>
  BY <1>7, UseCaseLeavesMarkers
<1>8. ASSUME NEW u \in Members, NEW k \in ClientIds, ExpireReservation(u, k) PROVE UNCHANGED <<seen, delivered>>
  BY <1>8 DEF ExpireReservation, markers
<1>9. CASE UNCHANGED vars
  BY <1>4, <1>9 DEF vars, tables, markers
<1> QED BY <1>4, <1>5, <1>6, <1>7, <1>8, <1>9 DEF Next

\* A step that puts no row back.
LEMMA OthersMoveForward ==
  ASSUME Typed, [Next]_vars, \A r \in Slots : ~Doing(r, "putRows")
  PROVE  MarkersStep
<1>1. MarkerRows
  BY DEF Typed, TablesOK, MarkerRows
<1>2. ASSUME NEW r \in Slots, UseCase(r) PROVE MarkersStep
  BY <1>1, <1>2, UseCaseLeavesMarkers, Unmoved
<1>3. ASSUME NEW r \in Slots, DatabaseCall(r) PROVE MarkersStep
  BY <1>1, <1>3, CallMovesForward DEF PutRow
<1>4. ASSUME NEW u \in Members, NEW k \in ClientIds, ExpireReservation(u, k) PROVE MarkersStep
  BY <1>1, <1>4, Unmoved DEF ExpireReservation, markers
<1>5. CASE UNCHANGED vars
  BY <1>1, <1>5, Unmoved DEF vars, tables, markers
<1> QED BY <1>2, <1>3, <1>4, <1>5 DEF Next

\* A marker never moves back, also when two tabs report different messages at the
\* same time (the condition of advanceSeenState and advanceDeliveredState), unless
\* a pinning or unpinning puts back rows that it has read before; and it does not
\* do that while requests are handled one at a time.
THEOREM MarkersNeverGoBack == Spec => MarkersAdvance
<1>1. Init => Typed /\ Numbers /\ WrittenInv /\ UnreadInv /\ CalmInv /\ RowsAreFresh
  <2>1. ASSUME Init PROVE RowsAreFresh
    BY <2>1, NoWriter DEF Init, RowsAreFresh, Writes
  <2> QED BY <2>1, TypedInit, UnreadStart, CalmInit
<1>2. Typed /\ Numbers /\ WrittenInv /\ UnreadInv /\ CalmInv /\ RowsAreFresh /\ [Next]_vars
        => (Typed /\ Numbers /\ WrittenInv /\ UnreadInv /\ CalmInv /\ RowsAreFresh)'
  <2> SUFFICES ASSUME Typed, Numbers, WrittenInv, UnreadInv, CalmInv, RowsAreFresh, [Next]_vars
               PROVE  (Typed /\ Numbers /\ WrittenInv /\ UnreadInv /\ CalmInv /\ RowsAreFresh)'
    OBVIOUS
  <2>1. Typed' /\ CalmInv'
    BY TypedStep, CalmStep
  <2>2. (Numbers /\ WrittenInv /\ UnreadInv)'
    BY <2>1, UnreadKept
  <2>3. ASSUME calm' PROVE RowsAreFresh'
    BY <2>1, <2>3, FreshStep
  <2>4. RowsAreFresh'
    BY <2>3 DEF RowsAreFresh
  <2> QED BY <2>1, <2>2, <2>4
<1>3. Typed /\ Typed' /\ Numbers /\ CalmInv /\ RowsAreFresh /\ [Next]_vars
        => ((\A r \in Slots : ~Doing(r, "putRows")) \/ calm' => MarkersGoOn)
  <2> SUFFICES ASSUME Typed, Typed', Numbers, CalmInv, RowsAreFresh, [Next]_vars,
                      (\A r \in Slots : ~Doing(r, "putRows")) \/ calm'
               PROVE  MarkersGoOn
    OBVIOUS
  <2>1. MarkersStep \/ UNCHANGED <<seen, delivered>>
    BY OthersMoveForward, FreshStep
  <2> QED BY <2>1 DEF MarkersStep, Forward, MarkersGoOn
<1> QED BY <1>1, <1>2, <1>3, PTL DEF Spec, MarkersAdvance

-----------------------------------------------------------------------------
(* What a member is shown *)

\* A set of numbers up to a bound that is not empty has a smallest one, and a greatest.
LEMMA Smallest ==
  ASSUME NEW ids \in SUBSET Nat, ids # {}
  PROVE  \E n \in ids : \A m \in ids : n <= m
<1>1. \E R : IsWellFoundedOn(R, Nat) /\ R = {p \in Nat \X Nat : p[1] < p[2]}
  BY NatLessThanWellFounded, Zenon DEF OpToRel
<1>2. PICK R : IsWellFoundedOn(R, Nat) /\ R = {p \in Nat \X Nat : p[1] < p[2]}
  BY <1>1
<1>3. PICK n \in ids : \A m \in ids : <<m, n>> \notin R
  BY <1>2, WFMin
<1>4. \A m \in ids : ~(m < n)
  BY <1>2, <1>3
<1> QED BY <1>4

LEMMA Greatest ==
  ASSUME NEW ids \in SUBSET Nat, ids # {}, NEW top \in Nat, \A n \in ids : n <= top
  PROVE  \E n \in ids : \A m \in ids : m <= n
<1>1. PICK away : away = {top - n : n \in ids}
  OBVIOUS
<1>2. away \in SUBSET Nat /\ away # {}
  <2>1. \A n \in ids : top - n \in Nat
    OBVIOUS
  <2> QED BY <1>1, <2>1
<1>3. PICK a \in away : \A b \in away : a <= b
  BY <1>2, Smallest
<1>4. PICK n \in ids : a = top - n
  BY <1>1, <1>3
<1>5. ASSUME NEW m \in ids PROVE m <= n
  <2>1. a <= top - m
    BY <1>1, <1>3
  <2> QED BY <1>4, <2>1
<1> QED BY <1>5

LEMMA NewestOfThem ==
  ASSUME NEW ids \in SUBSET MessageIds, ids # {}
  PROVE  Newest(ids) \in ids
<1>1. ids \in SUBSET Nat /\ MaxMessages \in Nat /\ \A n \in ids : n <= MaxMessages
  BY MessagingAssumption DEF MessageIds
<1>2. \E n \in ids : \A m \in ids : m <= n
  BY <1>1, Greatest
<1> QED BY <1>2 DEF Newest

\* What a member has deleted until, or hidden the conversation until.
CutoffsOK == cutoffs \in [Members -> Marks]

LEMMA CutoffsTyped ==
  ASSUME Typed
  PROVE  CutoffsOK
BY DEF Typed, TablesOK, CutoffsOK

LEMMA CutoffIsNumber ==
  ASSUME CutoffsOK, NEW u \in Members
  PROVE  Cutoff(u) \in Nat
<1>1. cutoffs[u] \in [deleted: Nat, hidden: Nat]
  BY DEF CutoffsOK, Marks
<1> QED BY <1>1 DEF Cutoff

\* What findLatestVisibleMessage answers with, if with a message at all.
LEMMA LatestIsVisible ==
  ASSUME NEW u \in Members, FindLatestVisibleMessage(u) # Nothing
  PROVE  \E n \in StoredIds : /\ n > Cutoff(u) /\ u \notin messages[n].deletedFor
                              /\ FindLatestVisibleMessage(u) = [message |-> n, text |-> ShownText(n, messages[n].text)]
<1>1. PICK found : found = {n \in ListByConversation(u, FromTheTop, PageSize) : n > Cutoff(u)}
  OBVIOUS
<1>2. PICK n : n = Newest(found)
  OBVIOUS
<1>3. found # {} /\ FindLatestVisibleMessage(u) = [message |-> n, text |-> ShownText(n, messages[n].text)]
  BY <1>1, <1>2 DEF FindLatestVisibleMessage
<1>4. \A m \in found : m \in StoredIds /\ m > Cutoff(u) /\ u \notin messages[m].deletedFor
  BY <1>1 DEF ListByConversation, NewestOf
<1>5. found \in SUBSET MessageIds
  BY <1>4 DEF StoredIds
<1>6. n \in found
  BY <1>2, <1>3, <1>5, NewestOfThem
<1> QED BY <1>3, <1>4, <1>6

\* The list of conversations shows nothing that is hidden or revoked: the row of
\* the message is read again, whatever is in flight has left of the preview.
THEOREM ListShowsWhatIsThere == Spec => []ListShowsNothingGone
<1>1. Init => Typed
  BY TypedInit
<1>2. Typed /\ [Next]_vars => Typed'
  BY TypedStep
<1>3. Typed => CutoffsOK
  BY CutoffsTyped
<1>4. Typed /\ CutoffsOK => ListShowsNothingGone
  <2> SUFFICES ASSUME Typed, CutoffsOK, NEW u \in Members, NEW shown, shown = ResolveVisibleLastMessage(u),
                      shown # Nothing, IsStored(shown.message)
               PROVE  /\ shown.message > Cutoff(u)
                      /\ u \notin messages[shown.message].deletedFor
                      /\ messages[shown.message].revoked => shown.text = "tombstone"
    BY DEF ListShowsNothingGone
  <2>1. conv.last \in Nat /\ Cutoff(u) \in Nat
    BY CutoffIsNumber DEF Typed, TablesOK
  <2>2. CASE conv.last = 0
    BY <2>2 DEF ResolveVisibleLastMessage
  <2>3. CASE conv.last # 0 /\ ~IsStored(conv.last)
    BY <2>3 DEF ResolveVisibleLastMessage
  <2>4. CASE conv.last # 0 /\ IsStored(conv.last) /\ (conv.last <= Cutoff(u) \/ u \in messages[conv.last].deletedFor)
    <3>1. shown = FindLatestVisibleMessage(u)
      BY <2>4 DEF ResolveVisibleLastMessage
    <3>2. PICK n \in StoredIds : /\ n > Cutoff(u) /\ u \notin messages[n].deletedFor
                                 /\ shown = [message |-> n, text |-> ShownText(n, messages[n].text)]
      BY <3>1, LatestIsVisible
    <3>3. shown.message = n /\ shown.text = ShownText(n, messages[n].text)
      BY <3>2
    <3> QED BY <3>2, <3>3 DEF ShownText
  <2>5. CASE conv.last # 0 /\ IsStored(conv.last) /\ ~(conv.last <= Cutoff(u) \/ u \in messages[conv.last].deletedFor)
    <3>1. shown = [message |-> conv.last, text |-> ShownText(conv.last, conv.preview)]
      BY <2>5 DEF ResolveVisibleLastMessage
    <3>2. shown.message = conv.last /\ shown.text = ShownText(conv.last, conv.preview)
      BY <3>1
    <3> QED BY <2>1, <2>5, <3>2 DEF ShownText
  <2> QED BY <2>2, <2>3, <2>4, <2>5
<1> QED BY <1>1, <1>2, <1>3, <1>4, PTL DEF Spec

-----------------------------------------------------------------------------
(* The history of a member *)

\* The pages P from a cursor on, when N says where the next one starts (0 if it
\* is the last).
Gathers(P, N, top, f) == f = [c \in 1..top |-> P[c] \cup IF N[c] = 0 THEN {} ELSE f[N[c]]]
GoesDown(N, top) == \A c \in 1..top : N[c] = 0 \/ (N[c] \in 1..top /\ N[c] < c)

\* The cursors go down, and so there is something that gathers the pages ...
LEMMA PagesAreGathered ==
  ASSUME NEW P, NEW N, NEW top \in Nat, GoesDown(N, top)
  PROVE  \E f : Gathers(P, N, top, f)
<1>1. PICK bad : bad = {k \in 0..top : ~\E f : Gathers(P, N, k, f)}
  OBVIOUS
<1>2. CASE bad = {}
  BY <1>1, <1>2
<1>3. CASE bad # {}
  <2>1. bad \in SUBSET Nat
    BY <1>1
  <2>2. PICK k \in bad : \A j \in bad : k <= j
    BY <1>3, <2>1, Smallest
  <2>3. k \in 0..top /\ ~\E f : Gathers(P, N, k, f)
    BY <1>1, <2>2
  <2>4. k # 0
    <3>1. SUFFICES ASSUME k = 0 PROVE FALSE
      OBVIOUS
    <3>2. PICK f : f = [c \in 1..0 |-> {}]
      OBVIOUS
    <3>3. f = [c \in 1..0 |-> P[c] \cup IF N[c] = 0 THEN {} ELSE f[N[c]]]
      BY <3>2
    <3> QED BY <2>3, <3>1, <3>3 DEF Gathers
  <2>5. k - 1 \in 0..top /\ k - 1 \notin bad
    BY <2>2, <2>3, <2>4
  <2>6. PICK g : g = [c \in 1..(k - 1) |-> P[c] \cup IF N[c] = 0 THEN {} ELSE g[N[c]]]
    BY <1>1, <2>5 DEF Gathers
  <2>7. PICK h : h = [c \in 1..k |-> IF c = k THEN P[k] \cup IF N[k] = 0 THEN {} ELSE g[N[k]] ELSE g[c]]
    OBVIOUS
  <2>8. ASSUME NEW c \in 1..k
        PROVE  h[c] = P[c] \cup IF N[c] = 0 THEN {} ELSE h[N[c]]
    <3>1. N[c] = 0 \/ (N[c] \in 1..(k - 1) /\ N[c] < c)
      BY <2>3 DEF GoesDown
    <3>2. N[c] # 0 => h[N[c]] = g[N[c]]
      BY <2>3, <2>7, <3>1
    <3>3. CASE c = k
      BY <2>7, <3>2, <3>3
    <3>4. CASE c # k
      <4>1. c \in 1..(k - 1)
        BY <2>3, <3>4
      <4>2. h[c] = g[c]
        BY <2>7, <3>4
      <4>3. g[c] = P[c] \cup IF N[c] = 0 THEN {} ELSE g[N[c]]
        BY <2>6, <4>1
      <4> QED BY <3>2, <4>2, <4>3
    <3> QED BY <3>3, <3>4
  <2>9. h = [c \in 1..k |-> P[c] \cup IF N[c] = 0 THEN {} ELSE h[N[c]]]
    BY <2>7, <2>8
  <2> QED BY <2>3, <2>9 DEF Gathers
<1> QED BY <1>2, <1>3

\* ... which holds nothing that is on no page ...
LEMMA PagesHoldOnly ==
  ASSUME NEW P, NEW N, NEW top \in Nat, GoesDown(N, top), NEW f, Gathers(P, N, top, f),
         NEW W, \A c \in 1..top : P[c] \subseteq W
  PROVE  \A c \in 1..top : f[c] \subseteq W
<1>1. PICK bad : bad = {c \in 1..top : ~(f[c] \subseteq W)}
  OBVIOUS
<1>2. CASE bad = {}
  BY <1>1, <1>2
<1>3. CASE bad # {}
  <2>1. bad \in SUBSET Nat
    BY <1>1
  <2>2. PICK c \in bad : \A d \in bad : c <= d
    BY <1>3, <2>1, Smallest
  <2>3. c \in 1..top /\ ~(f[c] \subseteq W)
    BY <1>1, <2>2
  <2>4. f[c] = P[c] \cup IF N[c] = 0 THEN {} ELSE f[N[c]]
    BY <2>3 DEF Gathers
  <2>5. N[c] # 0 => f[N[c]] \subseteq W
    <3>1. N[c] # 0 => N[c] \in 1..top /\ N[c] < c
      BY <2>3 DEF GoesDown
    <3> QED BY <1>1, <2>2, <3>1
  <2> QED BY <2>3, <2>4, <2>5
<1> QED BY <1>2, <1>3

\* ... and all that the pages and their successors hold together.
LEMMA PagesHoldAll ==
  ASSUME NEW P, NEW N, NEW top \in Nat, GoesDown(N, top), NEW f, Gathers(P, N, top, f),
         NEW K, \A c \in 1..top : K[c] = P[c] \cup IF N[c] = 0 THEN {} ELSE K[N[c]]
  PROVE  \A c \in 1..top : f[c] = K[c]
<1>1. PICK bad : bad = {c \in 1..top : f[c] # K[c]}
  OBVIOUS
<1>2. CASE bad = {}
  BY <1>1, <1>2
<1>3. CASE bad # {}
  <2>1. bad \in SUBSET Nat
    BY <1>1
  <2>2. PICK c \in bad : \A d \in bad : c <= d
    BY <1>3, <2>1, Smallest
  <2>3. c \in 1..top /\ f[c] # K[c]
    BY <1>1, <2>2
  <2>4. f[c] = P[c] \cup IF N[c] = 0 THEN {} ELSE f[N[c]]
    BY <2>3 DEF Gathers
  <2>5. N[c] # 0 => f[N[c]] = K[N[c]]
    <3>1. N[c] # 0 => N[c] \in 1..top /\ N[c] < c
      BY <2>3 DEF GoesDown
    <3> QED BY <1>1, <2>2, <3>1
  <2> QED BY <2>3, <2>4, <2>5
<1> QED BY <1>2, <1>3

\* Sets of messages are finite: a part of one is no larger.
LEMMA NoLarger ==
  ASSUME NEW ids \in SUBSET MessageIds, NEW some \in SUBSET ids
  PROVE  IsFiniteSet(ids) /\ Cardinality(ids) \in Nat /\ Cardinality(some) \in Nat /\ Cardinality(some) <= Cardinality(ids)
<1>1. IsFiniteSet(MessageIds)
  BY FS_Interval, MessagingAssumption DEF MessageIds
<1>2. IsFiniteSet(ids)
  BY <1>1, FS_Subset
<1>3. IsFiniteSet(some) /\ Cardinality(some) <= Cardinality(ids)
  BY <1>2, FS_Subset
<1> QED BY <1>2, <1>3, FS_CardinalityType

\* A page of something is not empty.
LEMMA PageHolds ==
  ASSUME NEW ids \in SUBSET MessageIds, NEW size \in Nat \ {0}, ids # {}
  PROVE  NewestOf(ids, size) # {}
<1>1. ids \in SUBSET Nat /\ MaxMessages \in Nat /\ \A n \in ids : n <= MaxMessages
  BY MessagingAssumption DEF MessageIds
<1>2. PICK n \in ids : \A m \in ids : m <= n
  BY <1>1, Greatest
<1>3. {m \in ids : m >= n} = {n}
  <2>1. \A m \in ids : m >= n <=> m = n
    BY <1>1, <1>2
  <2> QED BY <2>1
<1>4. Cardinality({n}) = 1
  BY FS_Singleton
<1>5. Cardinality({m \in ids : m >= n}) <= size
  BY <1>3, <1>4
<1> QED BY <1>2, <1>5 DEF NewestOf

\* A list of one more than a page holds: if it is no longer than a page, it is
\* all there is above the cutoff, and otherwise what is left is below the page.
LEMMA PageOf ==
  ASSUME NEW V \in SUBSET MessageIds, NEW cut \in Nat, NEW size \in Nat \ {0},
         NEW K, \A n : n \in K <=> n \in V /\ n > cut,
         NEW L, \A n : n \in L <=> n \in NewestOf(V, size + 1) /\ n > cut
  PROVE  /\ NewestOf(L, size) \subseteq K
         /\ Cardinality(L) <= size => NewestOf(L, size) = K
         /\ Cardinality(L) > size =>
              \A low \in NewestOf(L, size) : (\A m \in NewestOf(L, size) : low <= m) =>
                \A n \in K : n < low \/ n \in NewestOf(L, size)
<1>1. K = {n \in V : n > cut}
  OBVIOUS
<1>2. /\ L \subseteq K /\ K \subseteq V /\ L \in SUBSET MessageIds /\ L \in SUBSET Nat /\ K \in SUBSET Nat
      /\ \A n \in MessageIds : n \in Nat /\ n <= MaxMessages
      /\ MaxMessages \in Nat
  <2>1. L \subseteq K /\ K \subseteq V
    BY <1>1 DEF NewestOf
  <2>2. MaxMessages \in Nat /\ \A n \in MessageIds : n \in Nat /\ n <= MaxMessages
    BY MessagingAssumption DEF MessageIds
  <2>3. MessageIds \subseteq Nat
    BY <2>2
  <2> QED BY <2>1, <2>2, <2>3
<1>3. NewestOf(L, size) = {n \in L : Cardinality({m \in L : m >= n}) <= size}
  BY DEF NewestOf
<1>4. \A n \in V : n > cut /\ Cardinality({m \in V : m >= n}) <= size + 1 => n \in L
  BY DEF NewestOf
<1>5. ASSUME Cardinality(L) <= size
      PROVE  NewestOf(L, size) = K
  <2>1. \A n \in L : n \in NewestOf(L, size)
    <3> SUFFICES ASSUME NEW n \in L PROVE Cardinality({m \in L : m >= n}) <= size
      BY <1>3
    <3>1. PICK A : A = {m \in L : m >= n}
      OBVIOUS
    <3>2. Cardinality(A) \in Nat /\ Cardinality(L) \in Nat /\ Cardinality(A) <= Cardinality(L)
      BY <1>2, <3>1, NoLarger
    <3> QED BY <1>5, <3>1, <3>2
  <2>2. K \subseteq L
    <3>1. PICK out : out = K \ L
      OBVIOUS
    <3>2. SUFFICES ASSUME out # {} PROVE FALSE
      BY <3>1
    <3>3. out \in SUBSET Nat /\ \A n \in out : n <= MaxMessages
      BY <1>2, <3>1
    <3>4. PICK n \in out : \A m \in out : m <= n
      BY <1>2, <3>2, <3>3, Greatest
    <3>5. PICK A, B : A = {m \in V : m >= n} /\ B = {m \in V : m > n}
      OBVIOUS
    <3>6. n \in V /\ n > cut /\ n \in Nat /\ n \notin L
      BY <1>1, <1>2, <3>1, <3>4
    <3>7. B \subseteq L
      <4> SUFFICES ASSUME NEW m \in B PROVE m \in L
        OBVIOUS
      <4>1. m \in V /\ m > n /\ m \in Nat
        BY <1>2, <3>5
      <4>2. m \in K /\ ~(m <= n)
        BY <1>1, <3>6, <4>1
      <4> QED BY <3>1, <3>4, <4>2
    <3>8. IsFiniteSet(B) /\ Cardinality(B) \in Nat /\ Cardinality(L) \in Nat /\ Cardinality(B) <= Cardinality(L)
      <4>1. B \in SUBSET MessageIds
        BY <3>5
      <4> QED BY <1>2, <3>7, <4>1, NoLarger
    <3>9. A = B \cup {n} /\ n \notin B
      <4>1. \A m \in V : m \in Nat
        BY <1>2
      <4>2. \A m \in V : m >= n <=> m > n \/ m = n
        BY <3>6, <4>1
      <4>3. ~(n > n)
        BY <3>6
      <4> QED BY <3>5, <3>6, <4>2, <4>3
    <3>10. Cardinality(A) = Cardinality(B) + 1
      BY <3>8, <3>9, FS_AddElement
    <3>11. Cardinality(A) <= size + 1
      BY <1>5, <3>8, <3>10
    <3> QED BY <1>4, <3>5, <3>6, <3>11
  <2> QED BY <1>2, <1>3, <2>1, <2>2
<1>7. ASSUME NEW low \in NewestOf(L, size), \A m \in NewestOf(L, size) : low <= m
      PROVE  \A n \in K : n < low \/ n \in NewestOf(L, size)
  <2>1. low \in L /\ low \in V /\ low \in Nat /\ Cardinality({m \in L : m >= low}) <= size
    BY <1>2, <1>3
  <2>2. Cardinality({m \in V : m >= low}) <= size + 1
    BY <2>1 DEF NewestOf
  <2>3. ASSUME NEW n \in K, ~(n < low) PROVE n \in NewestOf(L, size)
    <3>1. n \in V /\ n > cut /\ n \in Nat /\ n >= low
      BY <1>1, <1>2, <2>1, <2>3
    <3>2. PICK A, B, C, D : /\ A = {m \in V : m >= n} /\ B = {m \in V : m >= low}
                            /\ C = {m \in L : m >= n} /\ D = {m \in L : m >= low}
      OBVIOUS
    <3>3. A \subseteq B /\ C \subseteq D /\ B \in SUBSET MessageIds /\ D \in SUBSET MessageIds
      <4>1. \A m \in V : m \in Nat
        BY <1>2
      <4>2. \A m \in V : m >= n => m >= low
        BY <2>1, <3>1, <4>1
      <4>3. L \subseteq V
        BY <1>2
      <4>4. A \subseteq B /\ C \subseteq D
        BY <3>2, <4>2, <4>3
      <4> QED BY <1>2, <3>2, <4>4
    <3>4. /\ Cardinality(A) \in Nat /\ Cardinality(B) \in Nat /\ Cardinality(A) <= Cardinality(B)
          /\ Cardinality(C) \in Nat /\ Cardinality(D) \in Nat /\ Cardinality(C) <= Cardinality(D)
      BY <3>3, NoLarger
    <3>5. n \in L
      <4>1. Cardinality(A) <= size + 1
        BY <2>2, <3>2, <3>4
      <4> QED BY <1>4, <3>1, <3>2, <4>1
    <3>6. Cardinality(C) <= size
      BY <2>1, <3>2, <3>4
    <3> QED BY <1>3, <3>2, <3>5, <3>6
  <2> QED BY <2>3
<1>8. NewestOf(L, size) \subseteq K
  BY <1>2, <1>3
<1> QED BY <1>5, <1>7, <1>8

\* A member's messages above his cutoff, and those of them that he can see.
Kept(u) == {n \in StoredIds : n > Cutoff(u)}
Visible(u) == {n \in Kept(u) : u \notin messages[n].deletedFor}

\* What loadMessages answers with: some of what is visible, from a cursor that is
\* further down, and if nothing is hidden, all there is from that cursor on.
LEMMA LoadedPage ==
  ASSUME CutoffsOK, NEW u \in Members, NEW c \in 1..FromTheTop
  PROVE  /\ LoadMessages(u, c).page \subseteq Visible(u)
         /\ \/ LoadMessages(u, c).next = 0
            \/ LoadMessages(u, c).next \in 1..FromTheTop /\ LoadMessages(u, c).next < c
         /\ Visible(u) = Kept(u) =>
              {n \in Kept(u) : n < c} =
                LoadMessages(u, c).page
                \cup IF LoadMessages(u, c).next = 0 THEN {} ELSE {n \in Kept(u) : n < LoadMessages(u, c).next}
<1>1. PICK shown : shown = {n \in ListByConversation(u, c, PageSize + 1) : n > Cutoff(u)}
  OBVIOUS
<1>2a. PICK V : V = {m \in StoredIds : m < c}
  OBVIOUS
<1>2b. PICK page : page = NewestOf(shown, PageSize)
  OBVIOUS
<1>2c. PICK next : next = IF Cardinality(shown) > PageSize THEN CHOOSE n \in page : \A m \in page : n <= m ELSE 0
  OBVIOUS
<1>2. /\ V = {m \in StoredIds : m < c}
      /\ page = NewestOf(shown, PageSize)
      /\ next = IF Cardinality(shown) > PageSize THEN CHOOSE n \in page : \A m \in page : n <= m ELSE 0
  BY <1>2a, <1>2b, <1>2c
<1>3. LoadMessages(u, c).page = page /\ LoadMessages(u, c).next = next
  BY <1>1, <1>2 DEF LoadMessages
<1>4. shown = {n \in NewestOf(V, PageSize + 1) : u \notin messages[n].deletedFor /\ n > Cutoff(u)}
  BY <1>1, <1>2 DEF ListByConversation
<1>5. page \subseteq shown /\ NewestOf(V, PageSize + 1) \subseteq V
  BY <1>2 DEF NewestOf
<1>6. Cutoff(u) \in Nat /\ PageSize \in Nat \ {0} /\ MaxMessages \in Nat /\ c \in Nat
  BY CutoffIsNumber, MessagingAssumption DEF FromTheTop
<1>7. /\ V \in SUBSET MessageIds /\ V \in SUBSET Nat /\ V \subseteq StoredIds
      /\ MessageIds \subseteq 1..FromTheTop
  BY <1>2, <1>6 DEF StoredIds, MessageIds, FromTheTop
<1>8. page \subseteq Visible(u)
  BY <1>4, <1>5, <1>7 DEF Visible, Kept
<1>9. shown # {} => page # {} /\ page \in SUBSET Nat
  <2>1. shown \in SUBSET MessageIds /\ shown \in SUBSET Nat
    BY <1>4, <1>5, <1>7
  <2> QED BY <1>2, <1>5, <1>6, <2>1, PageHolds
<1>10. next = 0 \/ (next \in page /\ Cardinality(shown) > PageSize /\ \A m \in page : next <= m)
  <2>1. SUFFICES ASSUME next # 0 PROVE next \in page /\ Cardinality(shown) > PageSize /\ \A m \in page : next <= m
    OBVIOUS
  <2>2. Cardinality(shown) > PageSize /\ next = CHOOSE n \in page : \A m \in page : n <= m
    BY <1>2, <2>1
  <2>3. shown # {}
    BY <1>6, <2>2, FS_EmptySet
  <2>4. \E n \in page : \A m \in page : n <= m
    BY <1>9, <2>3, Smallest
  <2> QED BY <2>2, <2>4
<1>11. next # 0 => next \in 1..FromTheTop /\ next < c
  BY <1>2, <1>4, <1>5, <1>7, <1>10
<1>12. ASSUME Visible(u) = Kept(u)
       PROVE  {n \in Kept(u) : n < c} = page \cup IF next = 0 THEN {} ELSE {n \in Kept(u) : n < next}
  <2>1. shown = {n \in NewestOf(V, PageSize + 1) : n > Cutoff(u)}
    <3>1. \A n \in V : n > Cutoff(u) => u \notin messages[n].deletedFor
      BY <1>7, <1>12 DEF Visible, Kept
    <3> QED BY <1>4, <1>5, <3>1
  <2>2. /\ Cardinality(shown) <= PageSize => page = {n \in V : n > Cutoff(u)}
        /\ Cardinality(shown) > PageSize =>
             \A low \in page : (\A m \in page : low <= m) =>
               {n \in V : n > Cutoff(u)} = page \cup {n \in V : n > Cutoff(u) /\ n < low}
    <3>1. PICK cut : cut = Cutoff(u)
      OBVIOUS
    <3>2. PICK size : size = PageSize
      OBVIOUS
    <3>3. PICK K : K = {n \in V : n > cut}
      OBVIOUS
    <3>4. V \in SUBSET MessageIds
      BY <1>7
    <3>5. cut \in Nat
      BY <1>6, <3>1
    <3>6. size \in Nat \ {0}
      BY <1>6, <3>2
    <3>7. \A n : n \in K <=> n \in V /\ n > cut
      BY <3>3
    <3>8. \A n : n \in shown <=> n \in NewestOf(V, size + 1) /\ n > cut
      BY <2>1, <3>1, <3>2
    <3>9. /\ NewestOf(shown, size) \subseteq K
          /\ Cardinality(shown) <= size => NewestOf(shown, size) = K
          /\ Cardinality(shown) > size =>
               \A low \in NewestOf(shown, size) : (\A m \in NewestOf(shown, size) : low <= m) =>
                 \A n \in K : n < low \/ n \in NewestOf(shown, size)
      BY <3>4, <3>5, <3>6, <3>7, <3>8, PageOf
    <3>10. /\ page \subseteq K
           /\ Cardinality(shown) <= size => page = K
           /\ Cardinality(shown) > size =>
                \A low \in page : (\A m \in page : low <= m) => \A n \in K : n < low \/ n \in page
      BY <1>2b, <3>2, <3>9
    <3> QED
      <4>1. ASSUME NEW low \in page, \A n \in K : n < low \/ n \in page
            PROVE  K = page \cup {n \in V : n > cut /\ n < low}
        BY <3>3, <3>10, <4>1
      <4> QED BY <3>1, <3>2, <3>3, <3>10, <4>1
  <2>3. {n \in Kept(u) : n < c} = {n \in V : n > Cutoff(u)}
    BY <1>2 DEF Kept
  <2>4. CASE next = 0
    <3>1. Cardinality(shown) <= PageSize
      <4>1. 0 \notin page
        BY <1>4, <1>5, <1>7 DEF MessageIds
      <4>2. shown \in SUBSET MessageIds
        BY <1>4, <1>5, <1>7
      <4>3. Cardinality(shown) \in Nat
        BY <4>2, NoLarger
      <4>4. ASSUME Cardinality(shown) > PageSize PROVE FALSE
        <5>1. next = CHOOSE n \in page : \A m \in page : n <= m
          BY <1>2, <4>4
        <5>2. shown # {}
          BY <1>6, <4>4, FS_EmptySet
        <5>3. \E n \in page : \A m \in page : n <= m
          BY <1>9, <5>2, Smallest
        <5> QED BY <2>4, <4>1, <5>1, <5>3
      <4> QED BY <1>6, <4>3, <4>4
    <3> QED BY <2>2, <2>3, <2>4, <3>1
  <2>5. CASE next # 0
    <3>1. next \in page /\ Cardinality(shown) > PageSize /\ (\A m \in page : next <= m) /\ next < c /\ next \in Nat
      BY <1>6, <1>10, <1>11, <2>5 DEF FromTheTop
    <3>2. {n \in V : n > Cutoff(u)} = page \cup {n \in V : n > Cutoff(u) /\ n < next}
      BY <2>2, <3>1
    <3>3. {n \in V : n > Cutoff(u) /\ n < next} = {n \in Kept(u) : n < next}
      <4>1. \A n \in StoredIds : n \in Nat
        BY DEF StoredIds, MessageIds
      <4>2. \A n \in StoredIds : n < next => n < c
        BY <1>6, <3>1, <4>1
      <4> QED BY <1>2, <4>2 DEF Kept
    <3> QED BY <2>3, <2>5, <3>2, <3>3
  <2> QED BY <2>4, <2>5
<1> QED BY <1>3, <1>8, <1>11, <1>12

\* The history is what gathers the pages.
LEMMA HistoryGathers ==
  ASSUME CutoffsOK, NEW u \in Members,
         NEW P, P = [c \in 1..FromTheTop |-> LoadMessages(u, c).page],
         NEW N, N = [c \in 1..FromTheTop |-> LoadMessages(u, c).next]
  PROVE  /\ GoesDown(N, FromTheTop)
         /\ \E f : Gathers(P, N, FromTheTop, f) /\ History(u) = f[FromTheTop]
<1>1. FromTheTop \in Nat
  BY MessagingAssumption DEF FromTheTop
<1>2. GoesDown(N, FromTheTop)
  BY LoadedPage DEF GoesDown
<1>3. PICK f : f = CHOOSE g : g = [cursor \in 1..FromTheTop |->
                 LET loaded == LoadMessages(u, cursor)
                 IN loaded.page \cup IF loaded.next = 0 THEN {} ELSE g[loaded.next]]
  OBVIOUS
<1>4. PICK g : Gathers(P, N, FromTheTop, g)
  BY <1>1, <1>2, PagesAreGathered
<1>5. g = [cursor \in 1..FromTheTop |->
            LET loaded == LoadMessages(u, cursor)
            IN loaded.page \cup IF loaded.next = 0 THEN {} ELSE g[loaded.next]]
  BY <1>4 DEF Gathers
<1>6. f = [cursor \in 1..FromTheTop |->
            LET loaded == LoadMessages(u, cursor)
            IN loaded.page \cup IF loaded.next = 0 THEN {} ELSE f[loaded.next]]
  BY <1>3, <1>5
<1>7. Gathers(P, N, FromTheTop, f)
  BY <1>6 DEF Gathers
<1>8. History(u) = f[FromTheTop]
  BY <1>3 DEF History
<1> QED BY <1>2, <1>7, <1>8

\* Following the cursors shows a member no message that he has hidden, and if he
\* has hidden none since his cutoff, all of them: for every size of a page, and
\* whatever is in flight.
THEOREM HistoryIsComplete == Spec => []HistoryIsWhole
<1>1. Init => Typed
  BY TypedInit
<1>2. Typed /\ [Next]_vars => Typed'
  BY TypedStep
<1>3. Typed => CutoffsOK
  BY CutoffsTyped
<1>4. CutoffsOK => HistoryIsWhole
  <2> SUFFICES ASSUME CutoffsOK, NEW u \in Members
               PROVE  History(u) \subseteq Visible(u) /\ (Visible(u) = Kept(u) => History(u) = Kept(u))
    BY DEF HistoryIsWhole, Visible, Kept
  <2>1. PICK P, N : /\ P = [c \in 1..FromTheTop |-> LoadMessages(u, c).page]
                    /\ N = [c \in 1..FromTheTop |-> LoadMessages(u, c).next]
    OBVIOUS
  <2>2. GoesDown(N, FromTheTop) /\ \E f : Gathers(P, N, FromTheTop, f) /\ History(u) = f[FromTheTop]
    BY <2>1, HistoryGathers
  <2>3. PICK f : Gathers(P, N, FromTheTop, f) /\ History(u) = f[FromTheTop]
    BY <2>2
  <2>4. FromTheTop \in Nat /\ FromTheTop \in 1..FromTheTop
    BY MessagingAssumption DEF FromTheTop
  <2>5. History(u) \subseteq Visible(u)
    <3>1. \A c \in 1..FromTheTop : P[c] \subseteq Visible(u)
      BY <2>1, LoadedPage
    <3>2. \A c \in 1..FromTheTop : f[c] \subseteq Visible(u)
      BY <2>2, <2>3, <2>4, <3>1, PagesHoldOnly
    <3> QED BY <2>3, <2>4, <3>2
  <2>6. ASSUME Visible(u) = Kept(u) PROVE History(u) = Kept(u)
    <3>1. PICK K : K = [c \in 1..FromTheTop |-> {n \in Kept(u) : n < c}]
      OBVIOUS
    <3>2. ASSUME NEW c \in 1..FromTheTop
          PROVE  K[c] = P[c] \cup IF N[c] = 0 THEN {} ELSE K[N[c]]
      <4>1. PICK page, next : page = LoadMessages(u, c).page /\ next = LoadMessages(u, c).next
        OBVIOUS
      <4>2. /\ next = 0 \/ next \in 1..FromTheTop
            /\ {n \in Kept(u) : n < c} = page \cup IF next = 0 THEN {} ELSE {n \in Kept(u) : n < next}
        BY <2>6, <4>1, LoadedPage
      <4>3. P[c] = page /\ N[c] = next
        BY <2>1, <4>1
      <4> QED BY <3>1, <4>2, <4>3
    <3>3. \A c \in 1..FromTheTop : f[c] = K[c]
      BY <2>2, <2>3, <2>4, <3>2, PagesHoldAll
    <3>4. K[FromTheTop] = Kept(u)
      <4>1. \A n \in Kept(u) : n < FromTheTop
        BY MessagingAssumption DEF Kept, StoredIds, MessageIds, FromTheTop
      <4> QED BY <2>4, <3>1, <4>1
    <3> QED BY <2>3, <2>4, <3>3, <3>4
  <2> QED BY <2>5, <2>6
<1> QED BY <1>1, <1>2, <1>3, <1>4, PTL DEF Spec
=============================================================================
