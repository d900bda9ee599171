-------------------------------- MODULE Group --------------------------------
(***************************************************************************)
(* One group conversation: its item in the conversations table, its member *)
(* rows and its block list, and the use cases that change them.  A use     *)
(* case reads the conversation and the requester's row, reads what else it *)
(* needs and decides, and then writes item after item, each write behind   *)
(* an await.  Requests run in slots: one slot is a server that handles one *)
(* request at a time, two slots are two handlers that interleave.          *)
(*                                                                         *)
(* The new values of admins, membersCount and settings are computed from   *)
(* the conversation that was read first, whatever happened since.          *)
(***************************************************************************)
EXTENDS Naturals, Sequences, SequencesExt

CONSTANTS
  Users,            \* user ids, ordered as the sort key of the member rows
  Slots,            \* requests the server works on at the same time
  SettingsChoices,  \* the settings the managers choose among
  MaxMembers,       \* 50 in chat-access-policy.ts
  MaxRequests,      \* bound: requests handled one at a time, without a failure
  MaxDisturbed,     \* bound: requests in a behaviour where some overlap or a call fails
  Faults            \* whether a database call may throw

SettingsType == [requireApproval: BOOLEAN, allowMemberInvite: BOOLEAN,
                 whoCanAddMembers: {"all", "admins"}]

\* DEFAULT_GROUP_SETTINGS
DefaultSettings ==
  [requireApproval |-> FALSE, allowMemberInvite |-> TRUE, whoCanAddMembers |-> "all"]

ASSUME GroupAssumption ==
  /\ Users \subseteq Nat \ {0} /\ IsFiniteSet(Users)
  /\ SettingsChoices \subseteq SettingsType
  /\ MaxMembers \in Nat /\ MaxRequests \in Nat /\ MaxDisturbed \in Nat
  /\ Faults \in BOOLEAN

VARIABLES
  conv,     \* the conversation item
  rows,     \* the member rows: one key per user
  blocked,  \* the group_blocks table
  slots,    \* the requests in flight
  started,  \* requests started so far
  calm      \* history: no two requests have overlapped and no call has failed

vars == <<conv, rows, blocked, slots, started, calm>>
tables == <<conv, rows, blocked>>
counters == <<started, calm>>

-----------------------------------------------------------------------------
(* Items *)

\* An update of a row that is gone creates a row of the fields it sets alone,
\* without the id, which only an insert writes.
Row == [role: {"OWNER", "ADMIN", "MEMBER"},
        status: {"ACTIVE", "PENDING", "REJECTED"}, left: BOOLEAN, id: {TRUE}]
AnyRow == [role: {"OWNER", "ADMIN", "MEMBER", "none"},
           status: {"ACTIVE", "PENDING", "REJECTED", "none"}, left: BOOLEAN, id: BOOLEAN]
NoRow == [role |-> "none", status |-> "none", left |-> FALSE, id |-> FALSE]
NewRow(role, status) == [role |-> role, status |-> status, left |-> FALSE, id |-> TRUE]
AsNew(role, status) == [role |-> role, status |-> status, left |-> FALSE]

ConvType == [state: {"none", "live", "deleted"}, owner: Users \cup {0},
             admins: SUBSET Users, count: Nat, settings: SettingsType]
NoConv == [state |-> "none", owner |-> 0, admins |-> {}, count |-> 0,
           settings |-> DefaultSettings]

IsActiveMember(row) == row.status = "ACTIVE" /\ ~row.left
IsOwnerMember(u, row, c) == row.role = "OWNER" \/ c.owner = u
IsGroupManager(u, row, c) == IsOwnerMember(u, row, c) \/ row.role = "ADMIN"

\* Math.max(0, (membersCount || 1) - 1)
OneLess(count) == IF count = 0 THEN 0 ELSE count - 1

-----------------------------------------------------------------------------
(* Writes: one database call each.  set holds only the fields it changes. *)

SetConv(fields) == [kind |-> "conv", set |-> fields]
SetRow(u, fields) == [kind |-> "row", user |-> u, set |-> fields]
Insert(u, row) == [kind |-> "insert", user |-> u, row |-> row]
Block(u) == [kind |-> "block", user |-> u]
Unblock(u) == [kind |-> "unblock", user |-> u]

\* The system message: the message itself is not modelled, the conversation
\* is updated (it must still exist) and the activity of the members touched.
Announce == <<SetConv(<<>>), [kind |-> "touch"]>>

Merged(fields, item) ==
  [f \in DOMAIN item |-> IF f \in DOMAIN fields THEN fields[f] ELSE item[f]]

Idle == [pc |-> "idle"]
IsWriting(r) == slots[r].pc \in {"write", "undo"}
Call(r) == Head(slots[r].todo)
Calls(r, kind) == IsWriting(r) /\ Call(r).kind = kind

\* The call returned: go on with the next one.
Return(r) ==
  slots' = [slots EXCEPT ![r] =
    IF Len(slots[r].todo) = 1 THEN Idle ELSE [slots[r] EXCEPT !.todo = Tail(slots[r].todo)]]

\* The call threw.  The catch block, if there is one, runs every call of undo
\* whether or not the others throw (Promise.allSettled).
Throw(r) ==
  IF slots[r].pc = "undo" THEN Return(r)
  ELSE slots' = [slots EXCEPT ![r] =
         IF slots[r].undo = <<>> THEN Idle
         ELSE [pc |-> "undo", todo |-> slots[r].undo, undo |-> <<>>]]

\* Mutant: an update without its condition creates the item.
UpsertConv(r) ==
  /\ Calls(r, "conv")
  /\ conv' = [Merged(Call(r).set, conv) EXCEPT !.state = "live"]
  /\ Return(r)
  /\ UNCHANGED <<rows, blocked, counters>>

\* conversationCommandRepo.update: conditional on the item being there.
WriteConv(r) ==
  /\ Calls(r, "conv")
  /\ IF conv.state = "live"
       THEN conv' = Merged(Call(r).set, conv) /\ Return(r)
       ELSE UNCHANGED conv /\ Throw(r)
  /\ UNCHANGED <<rows, blocked, counters>>

\* The head of the list is replaced by the write that follows its read.
Then(r, call) ==
  slots' = [slots EXCEPT ![r].todo = <<call>> \o Tail(slots[r].todo)]

\* conversationMemberCommandRepo.update looks the row up by its id, and returns
\* false when there is none ...
UpdateRead(r) ==
  /\ Calls(r, "row")
  /\ LET u == Call(r).user
     IN IF rows[u].id THEN Then(r, [kind |-> "update", user |-> u, set |-> Call(r).set])
        ELSE Return(r)
  /\ UNCHANGED <<tables, counters>>

\* ... and updates it by its key on no condition: a row deleted in between is
\* created again with the fields of the update.
UpdateRow(r) ==
  /\ Calls(r, "update")
  /\ LET u == Call(r).user
     IN rows' = [rows EXCEPT ![u] = Merged(Call(r).set, rows[u])]
  /\ Return(r)
  /\ UNCHANGED <<conv, blocked, counters>>

\* insert: refused when the key holds a row with an id.
InsertRow(r) ==
  /\ Calls(r, "insert")
  /\ LET u == Call(r).user
     IN IF rows[u].id
          THEN UNCHANGED rows /\ Throw(r)
          ELSE rows' = [rows EXCEPT ![u] = Call(r).row] /\ Return(r)
  /\ UNCHANGED <<conv, blocked, counters>>

\* touchActivityForConversation reads the rows that have not left ...
TouchRead(r) ==
  /\ Calls(r, "touch")
  /\ LET seen == {u \in Users : rows[u] # NoRow /\ ~rows[u].left}
     IN Then(r, [kind |-> "put", rows |-> [u \in seen |-> rows[u]]])
  /\ UNCHANGED <<tables, counters>>

\* ... and puts the whole rows back.
TouchPut(r) ==
  /\ Calls(r, "put")
  /\ rows' = [u \in Users |-> IF u \in DOMAIN Call(r).rows THEN Call(r).rows[u] ELSE rows[u]]
  /\ Return(r)
  /\ UNCHANGED <<conv, blocked, counters>>

WriteBlock(r) ==
  /\ Calls(r, "block") \/ Calls(r, "unblock")
  /\ blocked' = IF Call(r).kind = "block" THEN blocked \cup {Call(r).user}
                ELSE blocked \ {Call(r).user}
  /\ Return(r)
  /\ UNCHANGED <<conv, rows, counters>>

\* deleteByConversationId reads the rows of the conversation ...
DropRead(r) ==
  /\ Calls(r, "dropRows")
  /\ Then(r, [kind |-> "delete", users |-> {u \in Users : rows[u] # NoRow}])
  /\ UNCHANGED <<tables, counters>>

\* ... and deletes those.
DropRows(r) ==
  /\ Calls(r, "delete")
  /\ rows' = [u \in Users |-> IF u \in Call(r).users THEN NoRow ELSE rows[u]]
  /\ Return(r)
  /\ UNCHANGED <<conv, blocked, counters>>

DropConv(r) ==
  /\ Calls(r, "dropConv")
  /\ conv' = [NoConv EXCEPT !.state = "deleted"]
  /\ Return(r)
  /\ UNCHANGED <<rows, blocked, counters>>

\* Any call may throw: the connection, a throttled table, a timeout.
CallFails(r) ==
  /\ Faults
  /\ IsWriting(r)
  /\ started <= MaxDisturbed
  /\ Throw(r)
  /\ calm' = FALSE
  /\ UNCHANGED <<tables, started>>

-----------------------------------------------------------------------------
(* Requests *)

Init ==
  /\ conv = NoConv
  /\ rows = [u \in Users |-> NoRow]
  /\ blocked = {}
  /\ slots = [r \in Slots |-> Idle]
  /\ started = 0
  /\ calm = TRUE

\* A request comes in.
CountRequest ==
  /\ calm' = (calm /\ \A r \in Slots : slots[r] = Idle)
  /\ started < IF calm' THEN MaxRequests ELSE MaxDisturbed
  /\ started' = started + 1

\* Read the conversation and the requester's row.
Begin(r, u) ==
  /\ slots[r] = Idle
  /\ CountRequest
  /\ conv.state = "live"
  /\ slots' = [slots EXCEPT ![r] = [pc |-> "decide", by |-> u, conv |-> conv, me |-> rows[u]]]
  /\ UNCHANGED tables

\* The request is invalid or not allowed, or a read throws: nothing is done.
Refuse(r) ==
  /\ slots[r].pc = "decide"
  /\ slots' = [slots EXCEPT ![r] = Idle]
  /\ UNCHANGED <<tables, counters>>

\* What the request has read, and what its checks say of it.
Deciding(r) == slots[r].pc = "decide"
Seen(r) == slots[r].conv
By(r) == slots[r].by
RequesterIsActive(r) == Deciding(r) /\ IsActiveMember(slots[r].me)
RequesterIsManager(r) == RequesterIsActive(r) /\ IsGroupManager(By(r), slots[r].me, Seen(r))
RequesterIsOwner(r) == RequesterIsActive(r) /\ IsOwnerMember(By(r), slots[r].me, Seen(r))

Start(r, todo, undo) ==
  /\ slots' = [slots EXCEPT ![r] = [pc |-> "write", todo |-> todo, undo |-> undo]]
  /\ UNCHANGED <<tables, counters>>

\* The item is inserted first; a failure removes whatever was written.
CreateGroup(r, creator, members) ==
  /\ slots[r] = Idle
  /\ CountRequest
  /\ conv.state = "none"
  /\ Cardinality(members) \in 2..(MaxMembers - 1)
  /\ creator \notin members
  /\ conv' = [NoConv EXCEPT !.state = "live", !.owner = creator,
                            !.count = Cardinality(members) + 1]
  /\ slots' = [slots EXCEPT ![r] =
       [pc |-> "write",
        todo |-> <<Insert(creator, NewRow("OWNER", "ACTIVE"))>>
                 \o [i \in 1..Cardinality(members) |->
                       Insert(SetToSeq(members)[i], NewRow("MEMBER", "ACTIVE"))]
                 \o <<SetConv(<<>>)>>,
        undo |-> <<[kind |-> "dropRows"], [kind |-> "dropConv"]>>]]
  /\ UNCHANGED <<rows, blocked>>

\* New members are inserted, former ones come back as plain members.  The
\* catch block deletes by { id }, which is not the key of the table, so an
\* inserted row stays; a former member's status and leftAt are restored.
AddMembers(r, who) ==
  LET settings == Seen(r).settings
      status == IF settings.requireApproval /\ ~RequesterIsManager(r) THEN "PENDING" ELSE "ACTIVE"
      new == SetToSeq({u \in who : rows[u] = NoRow})
      back == SetToSeq({u \in who : rows[u] # NoRow})
  IN /\ RequesterIsActive(r)
     /\ settings.allowMemberInvite
     /\ settings.whoCanAddMembers = "admins" => RequesterIsManager(r)
     /\ who # {} /\ By(r) \notin who
     /\ Seen(r).count + Cardinality(who) <= MaxMembers
     /\ who \cap blocked = {}
     /\ \A u \in who : rows[u] = NoRow \/ rows[u].left
     /\ Start(r,
          [i \in DOMAIN new |-> Insert(new[i], NewRow("MEMBER", status))]
          \o [i \in DOMAIN back |-> SetRow(back[i], AsNew("MEMBER", status))]
          \o (IF status = "ACTIVE" THEN <<SetConv([count |-> Seen(r).count + Cardinality(who)])>>
              ELSE <<>>)
          \o Announce,
          [i \in DOMAIN back |->
             SetRow(back[i], [status |-> rows[back[i]].status, left |-> rows[back[i]].left])])

\* A row that never left may be pending or rejected; a pending request keeps
\* the role of the row.
JoinByInvite(r) ==
  LET u == By(r)
      settings == Seen(r).settings
  IN /\ Deciding(r)
     /\ settings.allowMemberInvite
     /\ u \notin blocked
     /\ ~IsActiveMember(rows[u])
     /\ IF settings.requireApproval
          THEN Start(r, <<IF rows[u] = NoRow THEN Insert(u, NewRow("MEMBER", "PENDING"))
                          ELSE SetRow(u, [status |-> "PENDING", left |-> FALSE])>>, <<>>)
          ELSE Start(r, <<IF rows[u] = NoRow THEN Insert(u, NewRow("MEMBER", "ACTIVE"))
                          ELSE SetRow(u, AsNew("MEMBER", "ACTIVE")),
                          SetConv([count |-> Seen(r).count + 1])>> \o Announce, <<>>)

\* Mutant: the approved member is not counted.
ApproveUncounted(r, u) ==
  /\ RequesterIsManager(r)
  /\ rows[u].status = "PENDING"
  /\ Start(r, <<SetRow(u, [status |-> "ACTIVE"])>> \o Announce, <<>>)

ApproveMember(r, u) ==
  /\ RequesterIsManager(r)
  /\ rows[u].status = "PENDING"
  /\ Start(r, <<SetRow(u, [status |-> "ACTIVE"]),
                SetConv([count |-> Seen(r).count + 1])>> \o Announce, <<>>)

RejectMember(r, u) ==
  /\ RequesterIsManager(r)
  /\ rows[u].status = "PENDING"
  /\ Start(r, <<SetRow(u, [status |-> "REJECTED"])>> \o Announce, <<>>)

\* Mutant: a leaving admin stays in conversation.admins.
LeaveAsAdmin(r) ==
  /\ RequesterIsActive(r) /\ ~RequesterIsOwner(r)
  /\ Start(r, <<SetRow(By(r), [left |-> TRUE]),
                SetConv([count |-> OneLess(Seen(r).count)])>> \o Announce, <<>>)

LeaveAsMember(r) ==
  /\ RequesterIsActive(r) /\ ~RequesterIsOwner(r)
  /\ Start(r, <<SetRow(By(r), [left |-> TRUE]),
                SetConv([admins |-> Seen(r).admins \ {By(r)},
                         count |-> OneLess(Seen(r).count)])>> \o Announce, <<>>)

\* Mutant: the leaving owner keeps the role.
HandOverAsOwner(r, heir, admins) ==
  Start(r, <<SetRow(heir, [role |-> "OWNER"]),
             SetRow(By(r), [left |-> TRUE]),
             SetConv([owner |-> heir, admins |-> admins,
                      count |-> OneLess(Seen(r).count)])>> \o Announce, <<>>)

\* The owner hands the group to heir and leaves.
HandOver(r, heir, admins) ==
  Start(r, <<SetRow(heir, [role |-> "OWNER"]),
             SetRow(By(r), [left |-> TRUE, role |-> "ADMIN"]),
             SetConv([owner |-> heir, admins |-> admins,
                      count |-> OneLess(Seen(r).count)])>> \o Announce, <<>>)

\* newOwnerId is given: any active member, the leaving owner included.
LeaveToHeir(r, heir) ==
  /\ RequesterIsOwner(r)
  /\ IsActiveMember(rows[heir])
  /\ HandOver(r, heir, Seen(r).admins \ ({By(r)} \cup
                         (IF rows[heir].role = "ADMIN" THEN {heir} ELSE {})))

\* findByCond with a conversation id and no user id returns the first row of
\* the conversation: role and status are not part of the query.
FirstRow == CHOOSE u \in Users : /\ rows[u] # NoRow
                                 /\ \A x \in Users : rows[x] # NoRow => u <= x

LeaveAuto(r) ==
  /\ RequesterIsOwner(r)
  /\ \E u \in Users : rows[u] # NoRow
  /\ ~rows[FirstRow].left
  /\ HandOver(r, FirstRow, Seen(r).admins \ {By(r), FirstRow})

\* The block flag adds the target to the block list at the end.
RemoveMember(r, u, block) ==
  /\ RequesterIsActive(r)
  /\ RequesterIsManager(r) \/ u = By(r)
  /\ IsActiveMember(rows[u])
  /\ ~IsOwnerMember(u, rows[u], Seen(r))
  /\ Start(r, (IF rows[u].role = "ADMIN" THEN <<SetConv([admins |-> Seen(r).admins \ {u}])>> ELSE <<>>)
              \o <<SetRow(u, [left |-> TRUE]), SetConv([count |-> OneLess(Seen(r).count)])>>
              \o Announce \o (IF block THEN <<Block(u)>> ELSE <<>>), <<>>)

\* The requester's own role decides, not the conversation's ownerId.
BlockMember(r, u) ==
  /\ RequesterIsActive(r) /\ slots[r].me.role \in {"OWNER", "ADMIN"}
  /\ u \notin blocked
  /\ IsActiveMember(rows[u]) => rows[u].role # "OWNER"
  /\ Start(r, (IF ~IsActiveMember(rows[u]) THEN <<>>
               ELSE <<SetRow(u, [left |-> TRUE]), SetConv([count |-> OneLess(Seen(r).count)])>>
                    \o (IF rows[u].role = "ADMIN"
                          THEN <<SetConv([admins |-> Seen(r).admins \ {u}])>> ELSE <<>>)
                    \o Announce)
              \o <<Block(u)>>, <<>>)

UnblockMember(r, u) ==
  /\ RequesterIsActive(r) /\ slots[r].me.role \in {"OWNER", "ADMIN"}
  /\ u \in blocked
  /\ Start(r, <<Unblock(u)>>, <<>>)

TransferOwner(r, heir) ==
  /\ RequesterIsOwner(r)
  /\ IsActiveMember(rows[heir])
  /\ Start(r, <<SetConv([owner |-> heir, admins |-> (Seen(r).admins \ {heir}) \cup {By(r)}]),
                SetRow(By(r), [role |-> "ADMIN"]),
                SetRow(heir, [role |-> "OWNER"])>> \o Announce, <<>>)

SetAdmin(r, u, isAdmin) ==
  /\ RequesterIsOwner(r)
  /\ IsActiveMember(rows[u])
  /\ ~IsOwnerMember(u, rows[u], Seen(r))
  /\ Start(r, <<SetRow(u, [role |-> IF isAdmin THEN "ADMIN" ELSE "MEMBER"]),
                SetConv([admins |-> IF isAdmin THEN Seen(r).admins \cup {u}
                                    ELSE Seen(r).admins \ {u}])>> \o Announce, <<>>)

UpdateSettings(r, settings) ==
  /\ RequesterIsManager(r)
  /\ Start(r, <<SetConv([settings |-> settings])>>, <<>>)

\* whoCanUpdateGroupInfo is not among the settings: under "all" any member may.
UpdateGroupInfo(r) ==
  /\ RequesterIsActive(r)
  /\ Start(r, <<SetConv(<<>>)>> \o Announce, <<>>)

\* Mutant: the rows of the members are forgotten.
DissolveItem(r) ==
  /\ RequesterIsActive(r)
  /\ By(r) \in {Seen(r).owner} \cup Seen(r).admins
  /\ Start(r, <<[kind |-> "dropConv"]>>, <<>>)

\* Asks for ownerId or a place in conversation.admins, not for a role.
DissolveGroup(r) ==
  /\ RequesterIsActive(r)
  /\ By(r) \in {Seen(r).owner} \cup Seen(r).admins
  /\ Start(r, <<[kind |-> "dropRows"], [kind |-> "dropConv"]>>, <<>>)

-----------------------------------------------------------------------------
Decide(r) ==
  \/ \E who \in SUBSET Users : AddMembers(r, who)
  \/ JoinByInvite(r)
  \/ \E u \in Users : ApproveMember(r, u)
  \/ \E u \in Users : RejectMember(r, u)
  \/ LeaveAsMember(r)
  \/ \E u \in Users : LeaveToHeir(r, u)
  \/ LeaveAuto(r)
  \/ \E u \in Users, block \in BOOLEAN : RemoveMember(r, u, block)
  \/ \E u \in Users : BlockMember(r, u)
  \/ \E u \in Users : UnblockMember(r, u)
  \/ \E u \in Users : TransferOwner(r, u)
  \/ \E u \in Users, isAdmin \in BOOLEAN : SetAdmin(r, u, isAdmin)
  \/ \E s \in SettingsChoices : UpdateSettings(r, s)
  \/ UpdateGroupInfo(r)
  \/ DissolveGroup(r)
  \/ Refuse(r)

DatabaseCall(r) ==
  \/ WriteConv(r)
  \/ UpdateRead(r)
  \/ UpdateRow(r)
  \/ InsertRow(r)
  \/ TouchRead(r)
  \/ TouchPut(r)
  \/ WriteBlock(r)
  \/ DropRead(r)
  \/ DropRows(r)
  \/ DropConv(r)
  \/ CallFails(r)

Next ==
  \E r \in Slots :
    \/ \E u \in Users, members \in SUBSET Users : CreateGroup(r, u, members)
    \/ \E u \in Users : Begin(r, u)
    \/ Decide(r)
    \/ DatabaseCall(r)

Spec == Init /\ [][Next]_vars

-----------------------------------------------------------------------------
(* Properties *)

\* Every variable keeps the shape of the item or table it stands for.  A row is
\* whole, gone, or the part that an update has re-created: parts come of
\* requests that overlap or fail, and of nothing else.
TypeOK ==
  /\ conv \in ConvType
  /\ rows \in [Users -> AnyRow]
  /\ calm => rows \in [Users -> Row \cup {NoRow}]
  /\ blocked \in SUBSET Users
  /\ \A r \in Slots : slots[r].pc \in {"idle", "decide", "write", "undo"}
  /\ started \in Nat /\ calm \in BOOLEAN

\* Between requests of a behaviour that handles them one at a time.
Quiet == calm /\ conv.state = "live" /\ \A r \in Slots : slots[r] = Idle
ActiveMembers == {u \in Users : IsActiveMember(rows[u])}

\* Between requests membersCount is the number of active members, whatever
\* joined, left, was approved, kicked, blocked or came back.
CountIsExact == Quiet => conv.count = Cardinality(ActiveMembers)

\* Between requests conversation.admins, which decides who may dissolve the
\* group, only names active members whose own row says admin or owner.
AdminsHoldTheRole ==
  Quiet => \A u \in conv.admins :
             u \in ActiveMembers /\ rows[u].role \in {"ADMIN", "OWNER"}

\* Between requests a row with the role of owner belongs to the user that the
\* conversation names as its owner: nobody else keeps an owner's rights.
OwnerRoleIsOwnerId ==
  Quiet => \A u \in Users : rows[u].role = "OWNER" => conv.owner = u

\* A dissolution takes every row of the group with it, of those who left or
\* wait for approval too, unless other requests were writing to it or a call
\* failed: then a touch puts rows back, and an update creates a part of one.
DissolvedLeavesNoRow ==
  calm /\ conv.state = "deleted" /\ (\A r \in Slots : slots[r] = Idle) =>
    \A u \in Users : rows[u] = NoRow

\* A dissolved group does not come back, whatever requests were still writing
\* to it when its item was deleted: an update is conditional on the item.
DissolvedIsFinal == [][conv.state = "deleted" => conv'.state = "deleted"]_vars

-----------------------------------------------------------------------------
(* What the documentation says and the code does not do *)

\* When the owner leaves the group is handed over "để nhóm không bị thiếu chủ
\* sở hữu", so that it is not without an owner: between requests the owner the
\* conversation names is an active member.
OwnerIsActiveMember == Quiet => conv.owner \in ActiveMembers
=============================================================================
