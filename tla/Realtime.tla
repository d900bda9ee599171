------------------------------ MODULE Realtime ------------------------------
(***************************************************************************)
(* Who hears of what.  A request over a socket or over HTTP stores its     *)
(* changes and then sends events to the clients concerned: to the rooms of *)
(* the members it reads from the database, to the room of the conversation *)
(* or to the room of one user.  Between two awaits of one request others   *)
(* are handled, members come and go and sockets connect, join and leave.   *)
(*                                                                         *)
(* One conversation.  Every handler is a list of steps, the ones it awaits *)
(* and the events; what its use case does inside is the matter of other    *)
(* modules.  A change is named by the clients that have to hear of it:     *)
(*   "members"  every active member who has not hidden the conversation    *)
(*   "room"     the members who have it open, that is, joined its room     *)
(*   "notice"   as "members", but sent as "the latest message"             *)
(*   a user     the sockets of that user                                   *)
(* Friend requests, friendships and blocks are heard of over namespaces of *)
(* their own (/friends, /blocks); a socket stands for a client's connection *)
(* to all of them.                                                         *)
(* Typing, locations and the answers to the caller store nothing and are   *)
(* left out.                                                               *)
(***************************************************************************)
EXTENDS Naturals, Sequences, FiniteSets

CONSTANTS
  Users,
  Sockets,   \* the connections of clients
  UserOf,    \* the user of each socket
  Slots,     \* requests the server works on at the same time
  Hiders     \* bound: the users who hide the conversation

ASSUME RealtimeAssumption ==
  /\ UserOf \in [Sockets -> Users]
  /\ Hiders \subseteq Users
  /\ Users \cap {"members", "room", "notice"} = {}

VARIABLES
  open,      \* sockets that are connected: they are in the room of their user
  joining,   \* sockets whose handleJoinGroup reads the conversation
  room,      \* sockets in the room of the conversation
  members,   \* its active members
  hidden,    \* users who have hidden the conversation
  tasks,     \* the requests in flight
  heard,     \* the changes of requests in flight each socket has heard of
  follows    \* history: what the client of a socket has loaded since it connected,
             \* its user was let in and it joined the room

sockets == <<open, joining, room>>
conversation == <<members, hidden>>
vars == <<sockets, conversation, tasks, heard, follows>>

Labels == {"members", "room", "notice"} \cup Users
SocketsOf(users) == {s \in open : UserOf[s] \in users}

-----------------------------------------------------------------------------
(* Steps *)

\* The use case.  A change of the membership is part of it.
Store(labels) == <<[do |-> "store", labels |-> labels]>>
AdmitAll(users, labels) == <<[do |-> "admit", users |-> users, labels |-> labels]>>
Admit(v, labels) == AdmitAll({v}, labels)
Expel(v, labels) == <<[do |-> "expel", user |-> v, labels |-> labels]>>
Hide(u) == <<[do |-> "hide", user |-> u, labels |-> {}]>>
Unhide(u) == <<[do |-> "unhide", user |-> u, labels |-> {}]>>

\* The events that follow an await: to the room of the conversation, to the
\* members in the list that was read and to the rooms of users.
Emit(audience, users) == <<[do |-> "emit", audience |-> audience, users |-> users]>>
ToRoom == Emit({"room"}, {})
ToUser(v) == Emit({}, {v})
ToListed == Emit({"listed"}, {})
ToListedAnd(v) == Emit({"listed"}, {v})

\* getMemberUserIds
ReadList == <<[do |-> "list"]>>
\* getActiveMemberUserIds of the notifiers catches the error.
TryList == <<[do |-> "tryList"]>>
\* visibleMembers: those who have not hidden the conversation.
ReadVisible == <<[do |-> "listVisible"]>>
\* emitConversationCreatedForUser
Welcome(v) == <<[do |-> "welcome", user |-> v]>>
\* emitLatestMessageToUsers
ToLatest == <<[do |-> "latest"]>>

\* Mutant: the members are read before the message is stored.
ListThenStore == ReadList \o Store({"members"}) \o ToListed

StoreThenList == Store({"members"}) \o ReadList \o ToListed

MembersThenRoom == Store({"members", "room"}) \o ReadList \o Emit({"listed", "room"}, {})
RoomOnly == Store({"room"}) \o ToRoom
Own(u) == Store({u}) \o ToUser(u)
Silent == Store({})

-----------------------------------------------------------------------------
(* The handlers of the sockets *)

\* The notifiers of the read markers are called for each member of the list.
NotifyMessageSeen == ToListed
NotifyMessageDelivered == ToListed
NotifyNewGroup(users) == Emit({}, users)
NotifyMemberNicknameChanged == ToRoom
NotifyMemberWallpaperChanged == ToRoom

\* notifySystemMessages
NotifySystemMessages == TryList \o ToListed

HandleMessageSeen == StoreThenList
HandleMessageDelivered == StoreThenList
HandleMarkAllSeen == StoreThenList

HandleSendMessage == StoreThenList
HandleEditMessage == StoreThenList
HandleDeleteMessage(u) == Own(u)
HandleRevokeMessage == StoreThenList
HandleDeleteMessageForEveryone == StoreThenList
HandleForwardMessages == StoreThenList
HandleQuoteMessage == StoreThenList
HandleVoiceMessage == StoreThenList
\* After a message that asks the bot for a reminder: the reminder and the answer.
ProcessReminderAgentRequest(u) ==
  Store({"members", "room", u}) \o ReadList \o Emit({"listed", "room"}, {u})

HandleAddReaction == StoreThenList
HandleRemoveReaction == StoreThenList

HandleUpdateGroupSettings == RoomOnly
HandleUpdateGroupInfo == Store({"room", "members"}) \o ToRoom \o NotifySystemMessages
\* The list of the members is the one the use case has read before it deletes them.
HandleDissolveGroup == ReadList \o <<[do |-> "dissolve"]>> \o ToListed
HandlePinConversation(u) == Own(u)
HandleUnpinConversation(u) == Own(u)
HandleArchiveConversation(u) == Own(u)
HandleUnarchiveConversation(u) == Own(u)
HandleMuteConversation(u) == Own(u)
HandleUnmuteConversation(u) == Own(u)
HandlePinMessage == StoreThenList
HandleUnpinMessage == StoreThenList

\* The event, the conversation for the one who is new, the system message.
NotifyMembersAdded(v) == ToRoom \o TryList \o ToListed \o Welcome(v) \o NotifySystemMessages
\* The system message is sent as the latest one of the conversation.
NotifyMemberRemoved(v) == ToRoom \o TryList \o ToListedAnd(v) \o ToLatest
NotifyMemberLeft(v) == ToRoom \o TryList \o ToListedAnd(v) \o ToLatest
NotifyMemberApproved(v) == ToRoom \o TryList \o ToListedAnd(v) \o Welcome(v) \o ToLatest

HandleAddMembers(v) == Admit(v, {"members", "room"}) \o NotifyMembersAdded(v)
HandleRemoveMember(v) == Expel(v, {"members", "room", "notice", v}) \o NotifyMemberRemoved(v)
HandleSetAdmin == Store({"room", "members"}) \o ToRoom \o NotifySystemMessages
HandleTransferOwner == Store({"room", "members"}) \o ToRoom \o NotifySystemMessages
HandleApproveMember(v) == Admit(v, {"members", "room", "notice", v}) \o NotifyMemberApproved(v)
HandleRejectMember(v) == Store({"members", v}) \o ToUser(v) \o NotifySystemMessages

HandleCreatePoll == MembersThenRoom
\* The activity message of the last vote is edited, and shown in the room, or a
\* new one is written.
HandleVotePollAgain == RoomOnly
HandleVotePoll == MembersThenRoom
HandleAddPollOption == MembersThenRoom
HandleClosePoll == MembersThenRoom
HandlePinPoll == MembersThenRoom
HandleUnpinPoll == MembersThenRoom
HandleDeletePoll == RoomOnly
HandleCreateReminder == MembersThenRoom
HandleUpdateReminder == MembersThenRoom
HandleDeleteReminder == MembersThenRoom
HandlePinReminder == MembersThenRoom
HandleUnpinReminder == MembersThenRoom
HandleCreateNote == RoomOnly
HandleUpdateNote == RoomOnly
HandleDeleteNote == RoomOnly
\* The one who deletes names the conversation whose clients are told, for a
\* reminder also the one whose members are; nobody compares.  Of a note without a
\* name nobody is told, and if it is another conversation's nobody of this one.
HandleDeleteReminderElsewhere == Store({"members", "room"})
HandleDeleteNoteElsewhere == Store({"room"})

HandleRegenerateGroupInviteLink == RoomOnly
HandleRevokeGroupInviteLink == RoomOnly
\* The event and the system message go to the room alone, also when the join
\* has to be approved.
HandleJoinGroupByInvite(u) == Admit(u, {"room"}) \o ToRoom
HandleRequestByInvite == RoomOnly
HandleBlockGroupMember(v) == Expel(v, {"room"}) \o ToRoom
HandleUnblockGroupMember == RoomOnly

\* What a member may ask for over a socket, for himself, about another user.
OverSocket ==
  {HandleMessageSeen, HandleMessageDelivered, HandleMarkAllSeen,
   HandleSendMessage, HandleEditMessage, HandleRevokeMessage,
   HandleDeleteMessageForEveryone, HandleForwardMessages, HandleQuoteMessage,
   HandleVoiceMessage, HandleAddReaction, HandleRemoveReaction,
   HandleUpdateGroupSettings, HandleUpdateGroupInfo, HandleDissolveGroup,
   HandlePinMessage, HandleUnpinMessage, HandleSetAdmin, HandleTransferOwner,
   HandleCreatePoll, HandleVotePollAgain, HandleVotePoll, HandleAddPollOption,
   HandleClosePoll, HandlePinPoll, HandleUnpinPoll, HandleDeletePoll,
   HandleCreateReminder, HandleUpdateReminder, HandleDeleteReminder, HandlePinReminder,
   HandleUnpinReminder, HandleCreateNote, HandleUpdateNote, HandleDeleteNote,
   HandleDeleteReminderElsewhere, HandleDeleteNoteElsewhere,
   HandleRegenerateGroupInviteLink, HandleRevokeGroupInviteLink, HandleUnblockGroupMember}
OverSocketOwn(u) ==
  {ProcessReminderAgentRequest(u), HandleDeleteMessage(u),
   HandlePinConversation(u), HandleUnpinConversation(u), HandleArchiveConversation(u),
   HandleUnarchiveConversation(u), HandleMuteConversation(u), HandleUnmuteConversation(u)}
OverSocketAbout(v) ==
  IF v \in members THEN {HandleRemoveMember(v), HandleBlockGroupMember(v)}
  ELSE {HandleAddMembers(v), HandleApproveMember(v), HandleRejectMember(v)}

\* What someone who is no member may ask for.
OverSocketOutside(u) == {HandleJoinGroupByInvite(u), HandleRequestByInvite}

-----------------------------------------------------------------------------
(* The controllers of the HTTP routes *)

SendMessageAPI == StoreThenList
RevokeMessageAPI == StoreThenList
\* Other tabs of the user are not told.
DeleteMessageForMeAPI == Silent
DeleteMessageForEveryoneAPI == StoreThenList
ForwardMessagesAPI == StoreThenList
EditMessageAPI == StoreThenList
PinMessageAPI == StoreThenList
UnpinMessageAPI == StoreThenList
QuoteMessageAPI == StoreThenList
AddReactionAPI == StoreThenList
RemoveReactionAPI == StoreThenList
RemoveAllReactionsAPI == StoreThenList
DeleteMessagesBulkAPI == Silent
MarkAsSeenAPI == Store({"members"}) \o ReadList \o NotifyMessageSeen
MarkAsDeliveredAPI == Store({"members"}) \o ReadList \o NotifyMessageDelivered

\* The name goes to every member here.
UpdateGroupAPI == StoreThenList \o NotifySystemMessages
LeaveGroupAPI(u) == Expel(u, {"members", "room", "notice", u}) \o NotifyMemberLeft(u)
UpdateGroupSettingsAPI == RoomOnly
SetAdminAPI == Store({"room", "members"}) \o ToRoom \o NotifySystemMessages
TransferOwnerAPI == Store({"room", "members"}) \o ToRoom \o NotifySystemMessages
ApproveMemberAPI(v) == HandleApproveMember(v)
RejectMemberAPI(v) == HandleRejectMember(v)
DissolveGroupAPI == HandleDissolveGroup
AddMembersAPI(v) == HandleAddMembers(v)
RemoveMemberAPI(v) == HandleRemoveMember(v)
BlockGroupMemberAPI(v) == Expel(v, {"room"}) \o ToRoom
UnblockGroupMemberAPI == RoomOnly
RegenerateGroupInviteLinkAPI == RoomOnly
RevokeGroupInviteLinkAPI == RoomOnly
JoinGroupByInviteAPI(u) == Admit(u, {"room"}) \o ToRoom
RequestByInviteAPI == RoomOnly

SetNicknameAPI == Store({"room"}) \o NotifyMemberNicknameChanged
RemoveNicknameAPI == Store({"room"}) \o NotifyMemberNicknameChanged
SetWallpaperAPI == Store({"room"}) \o NotifyMemberWallpaperChanged
RemoveWallpaperAPI == Store({"room"}) \o NotifyMemberWallpaperChanged

CreatePollAPI == MembersThenRoom
VotePollAPI == MembersThenRoom
VotePollAgainAPI == RoomOnly
ClosePollAPI == MembersThenRoom
PinPollAPI == MembersThenRoom
UnpinPollAPI == MembersThenRoom
AddPollOptionAPI == MembersThenRoom
DeletePollAPI == RoomOnly
CreateGroupReminderAPI == MembersThenRoom
UpdateGroupReminderAPI == MembersThenRoom
DeleteGroupReminderAPI == MembersThenRoom
PinGroupReminderAPI == MembersThenRoom
UnpinGroupReminderAPI == MembersThenRoom
CreateGroupNoteAPI == RoomOnly
UpdateGroupNoteAPI == RoomOnly
DeleteGroupNoteAPI == RoomOnly
\* The group of the URL need not be that of the reminder or the note.
DeleteGroupReminderAPIElsewhere == Store({"members", "room"}) \o ReadList \o ToListed
DeleteGroupNoteAPIElsewhere == Store({"room"})

SaveMessagesToMyDocumentAPI(u) == Own(u)
MuteConversationAPI(u) == Own(u)
UnmuteConversationAPI(u) == Own(u)
PinConversationAPI(u) == Own(u)
UnpinConversationAPI(u) == Own(u)
ArchiveConversationAPI(u) == Own(u)
UnarchiveConversationAPI(u) == Own(u)
DeleteConversationForMeAPI == Silent
SaveDraftAPI == Silent
DeleteDraftAPI == Silent

\* The second version of the routes reads the members who have not hidden it.
SendConversationMessageAPI == Store({"members"}) \o ReadVisible \o ToListed
SendProfileCardAPI == Store({"members"}) \o ReadVisible \o ToListed
EditMessageAPIv2 == Store({"members"}) \o ReadVisible \o ToListed
\* To a friend, whose membership is restored, or to someone who has accepted.
SendPrivateMessageAPI(u, v) == AdmitAll({u, v}, {}) \o SendConversationMessageAPI
\* To someone who has not answered the request yet: he alone hears of it.
SendMessageRequestAPI(u, v) == Admit(u, {}) \o Store({v}) \o ToUser(v)
AcceptMessageRequestAPI(u) == Admit(u, {})
HideConversationAPI(u) == Hide(u)
UnhideConversationAPI(u) == Unhide(u)
AddMembersAPIv2(v) == HandleAddMembers(v)
RemoveMemberAPIv2(v) == HandleRemoveMember(v)
LeaveGroupAPIv2(u) == LeaveGroupAPI(u)
UpdateGroupSettingsAPIv2 == RoomOnly
SaveMessagesToMyDocumentAPIv2(u) == Own(u)

OverHttp ==
  {SendMessageAPI, RevokeMessageAPI, DeleteMessageForMeAPI, DeleteMessageForEveryoneAPI,
   ForwardMessagesAPI, EditMessageAPI, PinMessageAPI, UnpinMessageAPI, QuoteMessageAPI,
   AddReactionAPI, RemoveReactionAPI, RemoveAllReactionsAPI, DeleteMessagesBulkAPI,
   MarkAsSeenAPI, MarkAsDeliveredAPI, UpdateGroupAPI, UpdateGroupSettingsAPI,
   SetAdminAPI, TransferOwnerAPI, DissolveGroupAPI, UnblockGroupMemberAPI,
   RegenerateGroupInviteLinkAPI, RevokeGroupInviteLinkAPI, SetNicknameAPI, RemoveNicknameAPI,
   SetWallpaperAPI, RemoveWallpaperAPI, CreatePollAPI, VotePollAPI, VotePollAgainAPI,
   ClosePollAPI, PinPollAPI, UnpinPollAPI, AddPollOptionAPI, DeletePollAPI,
   CreateGroupReminderAPI, UpdateGroupReminderAPI, DeleteGroupReminderAPI,
   PinGroupReminderAPI, UnpinGroupReminderAPI, CreateGroupNoteAPI, UpdateGroupNoteAPI,
   DeleteGroupNoteAPI, DeleteGroupReminderAPIElsewhere, DeleteGroupNoteAPIElsewhere,
   DeleteConversationForMeAPI, SaveDraftAPI, DeleteDraftAPI,
   SendConversationMessageAPI, SendProfileCardAPI, EditMessageAPIv2, UpdateGroupSettingsAPIv2}
OverHttpOwn(u) ==
  {LeaveGroupAPI(u), SaveMessagesToMyDocumentAPI(u), MuteConversationAPI(u),
   UnmuteConversationAPI(u), PinConversationAPI(u), UnpinConversationAPI(u),
   ArchiveConversationAPI(u), UnarchiveConversationAPI(u),
   LeaveGroupAPIv2(u), SaveMessagesToMyDocumentAPIv2(u)}
  \cup (IF u \in Hiders THEN {HideConversationAPI(u), UnhideConversationAPI(u)} ELSE {})
OverHttpAbout(v) ==
  IF v \in members THEN {RemoveMemberAPI(v), RemoveMemberAPIv2(v), BlockGroupMemberAPI(v)}
  ELSE {ApproveMemberAPI(v), RejectMemberAPI(v), AddMembersAPI(v), AddMembersAPIv2(v)}

\* A member or not: sending makes the sender one.
OverHttpAnyone(u) ==
  {SendPrivateMessageAPI(u, v) : v \in Users \ {u}}
  \cup {SendMessageRequestAPI(u, v) : v \in Users \ (members \cup {u})}

OverHttpOutside(u) ==
  {JoinGroupByInviteAPI(u), RequestByInviteAPI, AcceptMessageRequestAPI(u)}

\* The one at the other end of a friend request, a friendship or a block; the
\* conversation that comes with a friendship is not announced.
NotifyFriend(v) == ToUser(v)
NotifyBlock(v) == ToUser(v)
SendFriendRequestAPI(v) == Store({v}) \o NotifyFriend(v)
UpdateFriendRequestStatusAPI(v) == Store({v}) \o NotifyFriend(v)
CancelFriendRequestAPI(v) == Store({v}) \o NotifyFriend(v)
UnfriendAPI(v) == Store({v}) \o NotifyFriend(v)
BlockUserAPI(v) == Store({v}) \o NotifyBlock(v)
UnblockUserAPI(v) == Store({v}) \o NotifyBlock(v)

OverHttpTo(v) ==
  {SendFriendRequestAPI(v), UpdateFriendRequestStatusAPI(v), CancelFriendRequestAPI(v),
   UnfriendAPI(v), BlockUserAPI(v), UnblockUserAPI(v)}

\* A new conversation: the creator and the members he names are told.
CreateGroupAPI(users) == AdmitAll(users, users) \o NotifyNewGroup(users)
CreateGroupAPIv2(users) == CreateGroupAPI(users)

-----------------------------------------------------------------------------
(* Requests in flight *)

Idle == [todo |-> <<>>, did |-> {}, list |-> {}, alone |-> TRUE, here |-> TRUE, over |-> TRUE]
Busy(r) == ~tasks[r].over
Step(r) == Head(tasks[r].todo)
Doing(r, what) == tasks[r].todo # <<>> /\ Step(r).do = what

\* Only the latest message is at the mercy of others: alone is kept for it.
Latest(handler) == \E i \in DOMAIN handler : handler[i].do = "latest"

\* The requests that name another conversation for the events, or none.
Elsewhere == {HandleDeleteReminderElsewhere, HandleDeleteNoteElsewhere,
              DeleteGroupReminderAPIElsewhere, DeleteGroupNoteAPIElsewhere}

Begin(r, handler) ==
  /\ ~Busy(r)
  /\ LET alone == \A x \in Slots : ~Busy(x)
     IN tasks' = [x \in Slots |->
                    IF x = r THEN [todo |-> handler, did |-> {}, list |-> {},
                                      alone |-> alone \/ ~Latest(handler),
                                      here |-> handler \notin Elsewhere, over |-> FALSE]
                    ELSE [tasks[x] EXCEPT !.alone = @ /\ ~Latest(tasks[x].todo)]]
  /\ UNCHANGED <<sockets, conversation, heard, follows>>

\* A socket event needs a socket.
SocketRequest(r, u) ==
  /\ SocketsOf({u}) # {}
  /\ IF u \in members
       THEN \/ \E h \in OverSocket : Begin(r, h)
            \/ \E h \in OverSocketOwn(u) : Begin(r, h)
            \/ \E v \in Users \ {u} : \E h \in OverSocketAbout(v) : Begin(r, h)
       ELSE \E h \in OverSocketOutside(u) : Begin(r, h)

HttpRequest(r, u) ==
  \/ \E h \in OverHttpAnyone(u) : Begin(r, h)
  \/ \E v \in Users \ {u} : \E h \in OverHttpTo(v) : Begin(r, h)
  \/ /\ u \in members
     /\ \/ \E h \in OverHttp : Begin(r, h)
        \/ \E h \in OverHttpOwn(u) : Begin(r, h)
        \/ \E v \in Users \ {u} : \E h \in OverHttpAbout(v) : Begin(r, h)
  \/ u \notin members /\ \E h \in OverHttpOutside(u) : Begin(r, h)

\* It has an id of its own: nobody has joined its room.
CreateGroup(r) ==
  /\ members = {} /\ hidden = {} /\ room = {} /\ joining = {}
  /\ \A x \in Slots : ~Busy(x)
  /\ \E users \in (SUBSET Users) \ {{}} :
       Begin(r, CreateGroupAPI(users)) \/ Begin(r, CreateGroupAPIv2(users))

Go(r, task) == tasks' = [tasks EXCEPT ![r] = [task EXCEPT !.todo = Tail(@)]]

\* The change is stored: from now on its audience has to hear of it.
StoreChange(r) ==
  /\ \E what \in {"store", "admit", "expel", "hide", "unhide"} : Doing(r, what)
  /\ members' = CASE Step(r).do = "admit" -> members \cup Step(r).users
                  [] Step(r).do = "expel" -> members \ {Step(r).user}
                  [] OTHER -> members
  /\ hidden' = CASE Step(r).do = "hide" -> hidden \cup {Step(r).user}
                 [] Step(r).do = "unhide" -> hidden \ {Step(r).user}
                 [] OTHER -> hidden
  /\ follows' = [s \in Sockets |-> IF UserOf[s] \in members' \ (hidden \ hidden') THEN follows[s]
                                   ELSE follows[s] \cap {"user"}]
  /\ Go(r, [tasks[r] EXCEPT !.did = @ \cup Step(r).labels])
  /\ UNCHANGED <<sockets, heard>>

\* The rows of the members and then the conversation are deleted.  Those who
\* were in the list have to hear of it.
Dissolve(r) ==
  /\ Doing(r, "dissolve")
  /\ members' = {} /\ hidden' = {}
  /\ follows' = [s \in Sockets |-> follows[s] \cap {"user"}]
  /\ Go(r, [tasks[r] EXCEPT !.did = tasks[r].list])
  /\ UNCHANGED <<sockets, heard>>

ReadMembers(r) ==
  /\ \/ Doing(r, "list") /\ Go(r, [tasks[r] EXCEPT !.list = members])
     \/ Doing(r, "tryList") /\ Go(r, [tasks[r] EXCEPT !.list = members])
     \/ Doing(r, "listVisible") /\ Go(r, [tasks[r] EXCEPT !.list = members \ hidden])
  /\ UNCHANGED <<sockets, conversation, heard, follows>>

\* The sockets that hear of a change by the events of one step.
Reached(step, list, label) ==
  CASE label = "room" -> IF "room" \in step.audience THEN room ELSE {}
    [] label = "notice" -> {}
    [] OTHER -> SocketsOf(step.users \cup (IF "listed" \in step.audience THEN list ELSE {}))

EmitEvents(r) ==
  /\ Doing(r, "emit")
  /\ heard' = [s \in Sockets |->
                 heard[s] \cup {<<r, l>> : l \in {x \in tasks[r].did : s \in Reached(Step(r), tasks[r].list, x)}}]
  /\ Go(r, [tasks[r] EXCEPT !.list = IF Latest(tasks[r].todo) THEN @ ELSE {}])
  /\ UNCHANGED <<sockets, conversation, follows>>

\* The latest message may be another one by now.
EmitLatestMessage(r) ==
  /\ Doing(r, "latest")
  /\ heard' = [s \in Sockets |-> IF tasks[r].alone /\ "notice" \in tasks[r].did /\ s \in SocketsOf(tasks[r].list)
                                 THEN heard[s] \cup {<<r, "notice">>} ELSE heard[s]]
  /\ Go(r, [tasks[r] EXCEPT !.list = {}])
  /\ UNCHANGED <<sockets, conversation, follows>>

\* What the client of a socket holds once it has loaded the conversation.
Loaded(s) ==
  {"user"} \cup (IF UserOf[s] \in members THEN {"members"} ELSE {})
           \cup (IF UserOf[s] \in members /\ s \in room THEN {"room"} ELSE {})

Load(loading) ==
  /\ heard' = [s \in Sockets |->
                 IF s \in loading THEN {c \in Slots \X Labels : c[2] \in tasks[c[1]].did} ELSE heard[s]]
  /\ follows' = [s \in Sockets |-> IF s \in loading THEN Loaded(s) ELSE follows[s]]

\* The details are read again and fail when the user is no member any more.
WelcomeUser(r) ==
  /\ Doing(r, "welcome")
  /\ Load({s \in SocketsOf({Step(r).user}) : UserOf[s] \in members})
  /\ Go(r, tasks[r])
  /\ UNCHANGED <<sockets, conversation>>

\* An await throws and the request ends there.  Nobody has to hear of it.
CallFails(r) ==
  /\ Busy(r)
  /\ IF Doing(r, "tryList") \/ Doing(r, "welcome") \/ Doing(r, "latest")
       THEN Go(r, [tasks[r] EXCEPT !.list = {}, !.did = {}]) ELSE tasks' = [tasks EXCEPT ![r] = Idle]
  /\ heard' = [s \in Sockets |-> {c \in heard[s] : c[1] # r}]
  /\ UNCHANGED <<sockets, conversation, follows>>

Finish(r) ==
  /\ Busy(r) /\ tasks[r].todo = <<>>
  /\ tasks' = [tasks EXCEPT ![r] = Idle]
  /\ heard' = [s \in Sockets |-> {c \in heard[s] : c[1] # r}]
  /\ UNCHANGED <<sockets, conversation, follows>>

-----------------------------------------------------------------------------
(* The sockets *)

\* The connection listener puts the socket into the room of its user.
Connect(s) ==
  /\ s \notin open
  /\ open' = open \cup {s}
  /\ UNCHANGED <<joining, room, conversation, tasks, heard, follows>>

Disconnect(s) ==
  /\ s \in open
  /\ open' = open \ {s} /\ joining' = joining \ {s} /\ room' = room \ {s}
  /\ heard' = [heard EXCEPT ![s] = {}]
  /\ follows' = [follows EXCEPT ![s] = {}]
  /\ UNCHANGED <<conversation, tasks>>

\* handleJoinGroup reads the details, which only a member may, and then joins.
HandleJoinGroup(s) ==
  /\ s \in open \ (joining \cup room)
  /\ UserOf[s] \in members
  /\ joining' = joining \cup {s}
  /\ UNCHANGED <<open, room, conversation, tasks, heard, follows>>

EnterRoom(s) ==
  /\ s \in joining
  /\ joining' = joining \ {s} /\ room' = room \cup {s}
  /\ UNCHANGED <<open, conversation, tasks, heard, follows>>

HandleLeaveGroup(s) ==
  /\ s \in room
  /\ room' = room \ {s}
  /\ follows' = [follows EXCEPT ![s] = @ \ {"room"}]
  /\ UNCHANGED <<open, joining, conversation, tasks, heard>>

\* The client loads after it has connected, has joined the room or was let in.
LoadConversation(s) ==
  /\ s \in open
  /\ follows[s] # Loaded(s)
  /\ Load({s})
  /\ UNCHANGED <<sockets, conversation, tasks>>

-----------------------------------------------------------------------------
Init ==
  /\ open = {} /\ joining = {} /\ room = {}
  /\ members = {} /\ hidden = {}
  /\ tasks = [r \in Slots |-> Idle]
  /\ heard = [s \in Sockets |-> {}]
  /\ follows = [s \in Sockets |-> {}]

Advance(r) ==
  \/ StoreChange(r)
  \/ Dissolve(r)
  \/ ReadMembers(r)
  \/ EmitEvents(r)
  \/ EmitLatestMessage(r)
  \/ WelcomeUser(r)
  \/ CallFails(r)
  \/ Finish(r)

Next ==
  \/ \E r \in Slots :
       \/ \E u \in Users : SocketRequest(r, u) \/ HttpRequest(r, u)
       \/ CreateGroup(r)
       \/ Advance(r)
  \/ \E s \in Sockets :
       \/ Connect(s)
       \/ Disconnect(s)
       \/ HandleJoinGroup(s)
       \/ EnterRoom(s)
       \/ HandleLeaveGroup(s)
       \/ LoadConversation(s)

Spec == Init /\ [][Next]_vars

-----------------------------------------------------------------------------
(* Properties *)

\* The clients that have to hear of a change: they have loaded the conversation
\* since they connected, their user was let in, they joined the room.
Audience(r, label) ==
  CASE label = "members" -> {s \in open : "members" \in follows[s] /\ UserOf[s] \notin hidden}
    [] label = "notice" -> {s \in open : "members" \in follows[s] /\ UserOf[s] \notin hidden /\ tasks[r].alone}
    [] label = "room" -> {s \in room : "room" \in follows[s]}
    [] OTHER -> {s \in open : UserOf[s] = label /\ "user" \in follows[s]}

\* A request that ends well, and what it owes then.
Ended(r) == Busy(r) /\ tasks[r].todo = <<>>
AllHave(r) == \A label \in tasks[r].did : \A s \in Audience(r, label) : <<r, label>> \in heard[s]

\* When a request ends well, every client it concerns has heard of its changes,
\* by an event or because it has loaded them: whoever was let in, has connected
\* or has joined the room while the request was in flight.  The requests that
\* choose themselves whom they tell have to choose this conversation.
EveryoneHears == \A r \in Slots : Ended(r) /\ tasks[r].here => AllHave(r)
=============================================================================
