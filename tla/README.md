# chatBE in TLA+

A formal model of the chat backend in this repository (Express, Socket.IO,
DynamoDB, Redis, LiveKit): TLA+ modules for its stateful parts, TLC
configurations that model-check them on small instances, and TLAPS proofs.
Paths below are relative to `src/src/modules/` unless they start with `src/`.

Contents: 1 the system, 2 the modules and how they read, 3 what the runs check,
4 bounds, fairness and symmetry, 5 the proofs, 6 what the models leave out,
7 what the models found, 8 the plan.

## 1. The system

One Node process (several may run behind a Redis adapter). A request enters
through an Express router or a socket handler, runs a use case, and the use case
awaits one database call after the other. There are no transactions and no
locks: between two awaits any other request may run. State lives in DynamoDB
(users, conversations, members, messages, friendships, ...), in Redis (sessions,
tokens, codes, presence), and, for calls only, in the memory of the process.

| component | state | operations | interacts with |
|---|---|---|---|
| call service `call/usecase/call-v2.service.ts` | in-memory sessions, conversation -> call, user -> call, one timer per ringing call | create, join, reject, missed, leave, end, timeout | controller; process restart forgets it |
| call controller and log `call/infras/transport/http/call-v2.controller.ts`, `call/usecase/call-log.service.ts` | call message, `lastMessage`, unread counts (DynamoDB) | the handlers of the operations above; writes the log over several awaits; emits `call:*` | call service, message and conversation tables, sockets |
| group membership `chat/usecase/*group*.ts`, `*member*.ts`, `transfer-owner.ts`, `set-admin.ts`, `leave-group.ts` | conversation item (ownerId, admins, membersCount, settings), one row per member, block list | create, add, join by link, approve, reject, leave, remove, block, unblock, transfer, set admin, settings, dissolve | system messages, invite links |
| friend requests, friendships, blocks `friend-requests`, `friendships`, `blocks` | three tables | send, accept, reject, cancel; unfriend; block, unblock | each other, private conversations |
| private conversations `chat/usecase/get-or-create-private-conversation.ts` | conversation and two member rows per pair | get or create | blocks, friend requests |
| sessions and tokens `auth` | session per device, index per user, refresh tokens, used tokens, blacklist (Redis), `tokenVersion` (DynamoDB) | login, refresh, logout, remote logout, logout of all or of the other devices, password change and reset, introspect | every authenticated request |
| codes `auth` | email verification and reset codes, attempts, rate limits (Redis) | request, verify, reset | sessions |
| messages `chat/usecase/send-message.ts`, `send-group-message.ts`, `forward-messages.ts`, `quote-message.ts`, `copy-conversation.ts` and the message actions | messages, idempotency rows, `lastMessage`, pinned flags, classification, unread counts, seen and delivered markers | send, forward, quote, copy, edit, revoke, delete for everyone, delete for me and in bulk, pin, unpin, mark as seen, mark as delivered | members, sockets |
| what a member is shown `load-messages.ts`, `get-conversations.ts`, `conversation-visibility.ts` | `deletedAt` and `hiddenAt` of the member row | load a page, list the conversations, delete for me, hide, unhide | messages |
| group tools `create-poll.ts`, `vote-poll.ts`, `manage-poll.ts`, `group-utilities.ts`, `group-utility-worker.ts`, `get-group-invite-link.ts` | polls, reminders, notes, invite links; the worker's timer | create, vote, add an option, close, pin, edit, delete; the worker closes expired polls and announces due reminders | messages, pins, sockets |
| sockets `chat/infras/transport/socket/*`, HTTP controllers `chat/infras/transport/http/*` | the rooms of users and of the conversation | connect, join, leave; every request that changes something and the events it sends | every use case |
| presence `user/infras/repository/redis/presence-repo.ts`, `src/src/share/component/socket-io.ts` | a key per socket, a set of sockets per user, an online key (Redis) | register, heartbeat, unregister, ask | sockets |
| reactions, rate limiters, media, search, AI, users and privacy | rows, windows, uploads, caches, profiles | toggles, queries, calls to a language model | messages |

### What is hard here

* **Interleaving.** Use cases read, decide, await and then write values computed
  from what they read (`membersCount`, `admins`, `deletedForUserIds`,
  `tokenVersion`, poll votes). Two requests at the same time lose updates.
* **Partial failure.** A use case is a list of independent writes; any of them
  may throw and the ones before it stay.
* **Copies.** The owner of a group is in `ownerId` and in a role; admins in
  `admins` and in roles; the member count in a number and in rows; a revoked
  message in the message, the preview and the classification; a user's sessions
  in session keys and in an index; a live call in a session and two maps.
* **Retries.** A client repeats a send with the same client message id while the
  first request is still at work, has failed half way, or was forgotten.
* **Timers and restarts.** A ring timeout races joins, declines and leaves; a
  restart drops the calls and leaves the database. Every instance runs the worker.
* **Who is told.** The members an event goes to are read after the change, while
  members and sockets come and go.
* **Long legal sequences.** Kick, re-add, transfer, leave; login on a shared
  device, rotate, replay; block, unblock, accept.

### What makes each component correct

* *Calls*: a conversation has at most one live call and finds it; nobody is busy
  with a call that is over; ringing always ends; an ended call does not change;
  its log says what happened, once, and the clients are told.
* *Groups*: the count, the admins and the owner agree with the member rows; a
  dissolved group does not come back and leaves no member behind.
* *Friends and blocks*: users with a block between them are not friends and have
  no request pending; friends have a conversation; a deleted request stays deleted.
* *Sessions*: what was logged out or revoked is never accepted again; a password
  change kills every older token; one web session per user; the index is complete
  for as long as it lives.
* *Messages*: a client message id is sent once; unread counts do not run ahead;
  markers only advance; a revoked text is gone everywhere; following the pages a
  member reads the whole history, and the list shows him nothing he has hidden.
* *Codes*: a mailed code is good for one effect.
* *Group tools*: what is due is announced, once; a vote is kept; one link lets
  people in; what is stored is in the timeline.
* *Sockets and presence*: whoever is concerned hears of a change; the presence
  settles on the truth.

`PROJECT.json` lists the hazards of the code one by one, each at its line and
with the properties that watch it.

## 2. The modules

| module | models | one step is |
|---|---|---|
| `CallLifecycle` | what the call service promises: one call per conversation, which rings, may be answered and is over once | a stage of a call |
| `Call` | `call-v2.service.ts` | one method: none of them awaits |
| `CallController` | extends `Call` with the handlers and `call-log.service.ts` | a handler up to its first await; one await of the log; a failure; a restart |
| `Group` | one group conversation and its use cases | the reads of a request; its decision; one database call |
| `GroupTools` | polls, reminders, notes, invite links of a group and the worker | the checks of a request; one database call; one step of a worker's run |
| `Social` | friend requests, friendships, blocks, private conversations | the reads and checks of a use case; one database call |
| `Session` | `auth/usecase/index.ts`, `redis-session.ts`, `refresh-store.ts` | the first reads of a request; one Redis command |
| `Account` | extends `Session` with registration, mailed codes and password resets | as `Session`; one call of the code's life |
| `Messaging` | the timeline of one conversation and what a member is shown of it | the checks of a request; one database call |
| `Realtime` | the socket handlers, HTTP controllers and notifiers of one conversation, and of friends and blocks | one await of a handler, or the events that follow it |
| `Presence` | the sockets of one user and their keys in Redis | one Redis command; a key that expires |
| `CallProofs`, `GroupProofs`, `GroupToolsProofs`, `SocialProofs`, `AccountProofs`, `MessagingProofs`, `RealtimeProofs`, `PresenceProofs` | theorems about the module of that name (`CallProofs`: also about `CallController`, and that `Call` implements `CallLifecycle`; `AccountProofs`: also about `Session`) | |
| `MC*` | values and symmetry sets for TLC | |

Composition: `CallController` EXTENDS `Call`, and `Account` EXTENDS `Session`, so
that their requests run in the same slots and on the same tables; `Call`
instantiates `CallLifecycle` under the refinement mapping that section 5 proves.
`Messaging`, `Group` and `GroupTools` share the conversation item and the member
rows in the code, but write different attributes of them;
`touchActivityForConversation`, which puts whole rows back, is part of `Group` for
roles and states and of `Messaging` for markers, counts and cutoffs. The pinned flag
of a poll's or reminder's message is written by the tools and by the message routes:
`GroupTools` has both.

**Requests in slots.** `Group`, `GroupTools`, `Social`, `Session` and `Messaging`
share one form. A *slot* is a request being handled: a record with the list
`todo` of database calls it still has to make (and, in `Group`, the calls of its
catch block). The use case's action checks what the code checks on what the code
has read and fills the list with the values computed from that; each database
call is an action that takes the head of some slot's list and does what the
repository does, with its condition. An update with `attribute_exists` throws
when the item is gone, one without creates it. With one slot the server handles
one request at a time; with two, calls interleave. Any call may throw, and
whatever was written before it stays. A history variable (`calm`, or `disturbed`
as a counter) says whether anything has overlapped or failed so far: properties
that the code keeps only for requests handled one at a time say so by it, and
the same run checks the others under overlaps and failures.

**Call.** `sessions` is `activeCalls`, `conversationCalls` and `userCalls` are
the two maps. A participant without an entry is `"absent"`; `timer` says the
timeout is armed, `answered` that `answeredAt` is set, `everJoined` which
participants have a `joinedAt`. `Keep` is a step after which the call goes on,
`Close` is `releaseSession`. The caller is not asked whether he is busy; a
private call to a busy callee is answered but never stored. `Stage` is what a
client sees of a call, the refinement mapping to `CallLifecycle`.

**CallController.** `logging[c]` is the handler that is writing the log of
`c`, with the snapshot of the session it took when the call ended. `messages`,
`lastMessage` and `counted` survive a restart, `logging` does not. An error in
the log is swallowed and the clients are told without a message.

**Group.** `conv` is the item, `rows` the member rows (the key is the user, so a
second insert is refused), `blocked` the block list. `Begin` reads the
conversation and the requester's row, the next action decides on them together
with the rows read then, and the values written for `admins` and `membersCount`
come from the conversation `Begin` has read. Three writes are a read and then, after
an await, a write that no longer asks: `member-repo.update` looks the row up by its id
(`UpdateRead`) and updates it by its key on no condition (`UpdateRow`), which creates
a part of a row that was deleted meanwhile (`id` is `FALSE`);
`touchActivityForConversation`, part of every system message, reads the rows and
puts them back whole (`TouchRead`, `TouchPut`); a dissolution reads the rows and
deletes those (`DropRead`, `DropRows`).

**GroupTools.** `items` holds the polls, reminders and notes, `shown` the items
whose message is in the timeline, `pins` those whose message is pinned, `links`
the invite links. An update without a condition re-creates a part of a deleted
item (`"part"`), as DynamoDB does. The routes that pin and unpin a message do so to
any message, a poll's card too, and leave the item alone (`PinOrUnpinMessage`);
`byHand` remembers the cards they wrote to last. A worker reads what is due, then closes or
advances one item after the other by a conditional update, and announces it
after. `now` is the clock; a repeated reminder moves on by itself.

**Social.** `friendship` is one item per pair. `hasId` tells an inserted item
from one that an unconditional update has created. `MayMissPending` is
`findByCond` with its `Limit: 2` applied before the filter, and `MayList` what
`list` finds for a block with its `limit: 100`, `ListLimit`, which cuts all that the
sender has ever sent before it looks for the pending ones. An unfriend lists without
a limit. `conversations`
counts the conversations of a pair.

**Session.** `sessions[d]` is `session:{device}`, `index[u]` the set of devices
of a user, `stored` and `used` the refresh tokens, `blacklist` the access
tokens. An access token and the refresh token issued with it share a number,
and the client may present any token it was ever given. `Introspect(n)` and
`Refreshable(n)` are what the server accepts. Session and index live for the same
`SESSION_TTL`, but a login starts both and a refresh only the session's: `renewed`
holds the devices whose session was written after the index of its user, which is
all that is kept of time. `IndexLapses` may come when every session of the user is in
it, `SessionLapses` at any time but not before the index of a session that is.
`strays` remembers the sessions that have outlived an index, until a login on the
device replaces them.

**Account.** Codes are numbered as they are mailed; `codes` holds the one code of
a user and purpose with its attempts, `grants` the `reset:{jti}` keys a reset
code is traded for. A login may be refused to a user whose address is not
verified. `tries`, `accepted` and `resets` count what became of each mail.

**Messaging.** Messages are numbered in the order of `createdAt`, which is taken
before the insert, so that a later message can be stored first. A send without a
client id writes at once; one with a client id looks for its messages, puts the
idempotency row on the condition that there is none, writes, and completes the
row, or waits for the messages of the request that was first. Forwards, quotes
and copies are sends with some of the calls left out, as in the code; a forward
writes a batch, which `batchWriteWithRetry` may drop. `ListByConversation` is the
query with its limit before its filter, `LoadMessages` a page, `History` all the
pages a client gets by following the cursors, `ResolveVisibleLastMessage` what
the list of conversations shows. `cutoffs` are `deletedAt` and `hiddenAt`. Pinning and
unpinning end with `touchActivityForConversation`: `ReadRows` takes the members' rows,
with markers, counts and cutoffs, and `PutRow` puts them back one after the other.

**Realtime.** A handler is a list of steps: what it stores and for whom the
change is of interest, which members it reads, to which rooms it emits. Its use
case is one step, since the events only follow it. `heard` records which changes
in flight a socket has heard of, `follows` what its client has loaded, so that a
client that is connecting, was just let in or is joining the room hears of a
change by an event or finds it when it loads. There is one definition per
handler and route, named as in the code, and a second one for the four that delete a
reminder or a note, `...Elsewhere`, for a client that names another conversation for
the event, or none; `here` says which of the two a request is.

**Presence.** A job is the list of Redis commands of a register, heartbeat,
unregister or query; jobs interleave, a failing command ends its job with a count
of zero, keys expire unless a heartbeat renews them. `told` is the last event of each
namespace, since an event goes to the sockets of the one on which a socket registered
or closed; `turned` is the namespace on which the user last came or went.

## 3. What the runs check

| run | question | properties |
|---|---|---|
| `call_safety` | 2 users, a private and a group conversation, 2 calls, failures of the log and restarts at any point | `ConversationIndexExact`, `BusyIndexSound`, `RingingHasTimer`, `TerminalIsFinal`, `MessageMatchesSession`, `LoggedIsComplete`, `LoggedOnce`, `LifecycleIsKept` |
| `call_liveness` | a group call of 3 users: does ringing stop, and do the clients hear of the end? | `RingingStops`, `EndIsNotified` |
| `group` | up to 6 requests of 4 users one at a time, group limit 3: do the copies agree? Up to 3 that overlap or throw: what survives? | `CountIsExact`, `AdminsHoldTheRole`, `OwnerRoleIsOwnerId`, `DissolvedIsFinal`, `DissolvedLeavesNoRow` |
| `group_tools` | a poll, a reminder, a note, links, two requests, those of the message routes too, and two instances of the worker at a time, calls that throw | `AnnouncedOnce`, `DueIsHandled`, `VotesAreKept`, `OneActiveLink`, `TimelineAgrees` |
| `social` | a pair of users, 3 friend requests, of which a block lists 2, two at a time, calls that throw, any number of steps | `BlockedAreNotFriends`, `BlockedHaveNoRequest`, `FriendsHaveConversation`, `DeletedIsFinal` |
| `session` | up to 4 requests of 2 users who share 2 browsers and a phone, one at a time, 3 that overlap or throw; registration, mailed codes and resets; sessions and indexes that lapse | `RevokedStayDead`, `OneWebSession`, `SessionsAreIndexed`, `PasswordChangeIsFinal`, `CodesAreSpent` |
| `messaging` | 3 requests one at a time, 3 with an overlap or failure, 2 with two, two at a time, dropped batches, reservations that expire | `SentOnce`, `UnreadIsBounded`, `MarkersAdvance`, `HistoryIsWhole`, `ListShowsNothingGone`, `LastIsNewest`, `RevokedIsGone`, `HiddenStaysHidden` |
| `realtime` | every handler and route, two at a time, while members and a socket come and go | `EveryoneHears` |
| `presence` | a phone with a socket on each namespace, two jobs at a time, a failure or a missed heartbeat | `PresenceSettles`, `ToldIsTrue` |
| `group_owner` (violation) | does a group always have an active owner? | `OwnerIsActiveMember` |
| `session_index` (violation) | does a logout of all devices end every session? | `LogoutsAreTotal` |
| `messaging_markers` (violation) | do markers never move back? | `MarkersAreMonotonic` |

Every property of a passing run has a mutant in `PROJECT.json`: a definition of
the model replaced by one with a plausible bug (marked `Mutant:` in the
modules), under which TLC finds the property violated.

Where a property begins with `Quiet`, it is about the states between requests;
where it begins with `calm` or `~failed`, a history variable restricts it to
behaviours in which nothing overlapped or failed. These are not conveniences:
without them the code violates the property, and section 7 says how. What does
hold under every interleaving and failure is stated without them:
`DissolvedIsFinal`, `DeletedIsFinal`, `BlockedAreNotFriends` (failures only),
`PasswordChangeIsFinal` (unless two password changes of the user overlap),
`SentOnce`, `UnreadIsBounded`, `HistoryIsWhole`, `ListShowsNothingGone`,
`AnnouncedOnce`, `DueIsHandled`, the first half of `TimelineAgrees`, `EveryoneHears`
(for requests that tell the conversation they change), `PresenceSettles`, and
everything about calls. `MarkersAdvance` holds under all of them but while a pin or an
unpin has read the members' rows and not yet put them back. Five properties are
about requests one at a time and have an exception even there, each a gap of
section 7: `RevokedStayDead`, `OneWebSession` and `SessionsAreIndexed` leave out
sessions that have outlived an index, `BlockedHaveNoRequest` senders with more
requests than a block lists, and `TimelineAgrees` cards pinned or unpinned by the
message routes.

Three runs find a disagreement between the documentation and the code:

* `group_owner`: line 241 of `src/docs/BACKEND_BUSINESS_CURRENT.md` says leaving hands
  the group over so that it is not without an owner. The automatic heir is the first
  member row of the partition without asking for status: it may be a pending or
  rejected row, or one that a use case never activated, and the group is then owned by
  a non-member. An owner may also name himself.
* `session_index`: line 53 of `src/docs/API_SPEC.md` says that a logout of all devices
  revokes every session of the user. It goes by the index, whose time to live of 30
  days is set when a session is created (`redis-session.ts:43`), while a refresh renews
  the session's alone (`:70`): log in, refresh within the 30 days, let them pass, and
  the session is no longer found.
* `messaging_markers`: line 194 of `src/docs/BACKEND_BUSINESS_CURRENT.md` says that
  markers are monotonic. The conditions of `advanceSeenState` and
  `advanceDeliveredState` see to that, but pinning and unpinning put back the whole
  rows of the members as they were read (`pin-message.ts:136`, `unpin-message.ts:121`,
  `member-repo.ts:583`), and with them an older marker.

Section 7 names four more places where a document says otherwise.

## 4. Bounds, fairness, symmetry

Every bound is a constant of the module or the size of a set.

* `CallIds`: 2, so that a second call meets the entries of the first: busy
  users, an occupied conversation, an ended call with late requests. More calls
  add nothing to the two maps: for them the theorems of section 5 hold for all
  constants.
* `call_safety` has 2 users (the private and the group rules both apply),
  `call_liveness` 3, so that a group call goes on when one callee has quit and
  a second one is ringing.
* `MaxRequests` bounds the requests of a behaviour in `Group`, `GroupTools`,
  `Session` and `Messaging`; `MaxDisturbed` is the smaller bound for behaviours
  in which some overlap or fail (in `Messaging` it bounds the requests, overlaps
  and failures together). The shortest counterexamples of section 7 take 2 to 5 requests.
  `Social`, `Realtime` and `Presence` need no such bound: their state space is
  finite.
* `MaxMembers` is 50 in the code; 3 in `group` makes the limit bite.
* `MaxTokens` 4 lets a token be rotated and its predecessors be replayed;
  `MaxCodes` 2 lets a code be replaced, `MaxAttempts` is 3 in the code and 1 here,
  so that the limit is reached. `WithEmail` has one of the two users.
* `MaxMessages` 3 lets a split send meet another one. `PageSize` is 1, so that
  three messages are three pages; `MaxPinned` 1 makes the limit bite.
* `MaxTools` 1 creates one item in a behaviour, of any kind: items do not refer to
  each other. `MaxTime` 2 lets a repeated reminder come due twice; `MaxFaults` 1.
* `Hiders`: one of the two users may hide the conversation in `realtime`; the
  socket is his. One socket is enough, since sockets do not affect each other.
* `MaxMishaps` 1, `MaxJobs` 2 and `MaxQueries` 1 in `presence`: a failure or a
  missed heartbeat, and every pair of jobs of two sockets.
* `QueryLimit` is the value of the code, 2; three request ids exceed it. `ListLimit`
  is 100 in the code and 2 here, so that they exceed it as well.
* The lapses of `session` are not counted: they end of themselves, since only a
  request writes a key. The runs of violations are smaller, what they need: one user
  and one phone in `session_index`.

Fairness is used by three runs.

* `call_liveness`: `ControllerFairness` says that an armed timer fires (Node's
  `setTimeout`, which `RingingHasTimer` shows to be armed) and that an await that
  was started returns or throws (the AWS SDK has timeouts).
* `group_tools`: weak fairness of each worker, which an interval starts again and
  again and whose awaits return or throw. Calls throw at most `MaxFaults` times.
* `presence`: weak fairness of the commands of a job; strong fairness of the
  heartbeat of an open socket (the server tells its clients to send one every 30
  seconds, `src/src/share/component/socket-io.ts:343`) and of the expiry of keys
  nobody renews (the TTL in Redis). Strong, because other jobs may disable them
  for a while again and again.

No fairness is assumed of users, and none of a restart. The liveness runs use no
symmetry.

Symmetry is used where the members of a set are interchangeable: users, call
ids, request ids, slots, and devices of the same platform. `Group` orders the
users by the sort key of the member rows and only permutes the slots.

`CHECK_DEADLOCK FALSE` is set where a bound on requests, tokens or ids ends the
behaviour. The call runs have a restart at any point and check for deadlock.

## 5. The proofs

Eight modules hold theorems, one beside each component's module. Each
theorem holds for all values of the constants that satisfy the component's
assumption, for any number of slots and requests (the bounds are natural numbers),
and for all interleavings and failures the module has; where that is too much, the
property itself says `calm` or `~failed`. The assumptions say that the limits and
bounds are natural numbers, that what clients send has its form, that devices,
managers and groups are among those there are, that the ids of polls, reminders
and notes do not meet (they are uuids), that "no call" and "no client id" are not
ids, that the users of a group are numbers and finitely many, that a user has
finitely many sockets (their number is counted), and that the names of the changes
in `Realtime` are no users. `Realtime` bounds neither the requests nor the steps.

| module | invariant | properties proved |
|---|---|---|
| `CallProofs` | `Inv` | `ConversationIndexExact`, `BusyIndexSound`, `RingingHasTimer`, `TerminalIsFinal` |
| the same | `LInv` | `LifecycleIsKept` (refinement) |
| the same | `CInv` | `MessageMatchesSession`, `LoggedIsComplete`, `LoggedOnce` |
| `GroupProofs` | `Typed`, `GroupInv` | `TypeOK`, `DissolvedLeavesNoRow`, `CountIsExact`, `AdminsHoldTheRole`, `OwnerRoleIsOwnerId`, `DissolvedIsFinal` |
| `GroupToolsProofs` | `ToolsInv`, `OnceInv`, `CalmInv` | `AnnouncedOnce`, `VotesAreKept`, `OneActiveLink`, `TimelineAgrees` |
| `SocialProofs` | `RequestTable`, `SocialInv` | `DeletedIsFinal`, `BlockedAreNotFriends`, `BlockedHaveNoRequest`, `FriendsHaveConversation` |
| `AccountProofs` | `AccountTypeOK`, `InOrder`, `PasswordInv`, `CalmSessions`, `CalmCodes` | `PasswordChangeIsFinal`, `RevokedStayDead`, `OneWebSession`, `SessionsAreIndexed`, `CodesAreSpent` |
| `MessagingProofs` | `Typed`, `Numbers`, `WrittenInv`, `UnreadInv`, `SentInv`, `CalmInv`, `CutoffsOK`, `MarkerRows` | `SentOnce`, `UnreadIsBounded`, `RevokedIsGone`, `LastIsNewest`, `HiddenStaysHidden`, `ListShowsNothingGone`, `HistoryIsWhole`, `MarkersAdvance` |
| `RealtimeProofs` | `Inv` | `EveryoneHears` |
| `PresenceProofs` | `Inv` | `ToldIsTrue` |

**Calls.** `ConversationIndexExact` is not inductive by itself. `Inv` adds
`TypeOK` (a live session is a record with a conversation of the set) and
`StoredIsCreated` (a session is stored under an id that was handed out, so the
fresh id of `CreateCall` does not replace a live session which a map still
names); `BusyIndexSound` and `RingingHasTimer` hold for the same steps and are
proved along. The steps fall into three kinds, each with a lemma: `KeepInv` (the
session goes on, a participant quits), `CloseInv` (`releaseSession`) and
`CreateInv`; `JoinInv` is separate because it adds a busy entry. `OverStep`, for
the action property, uses that every action except the restart writes the
session of a live or a fresh call.

`LInv` is `Inv` with `AnsweredAgrees`: a live call was answered exactly when its
status is `IN_CALL`, and it was if a callee has ever joined. That is what allows
each ending of `CallLifecycle`: `ENDED` from talking only, `CANCELLED` from
ringing only. Under the mapping `occupied <- conversationCalls`, `stage <- Stage`
there is a lemma for each kind of step: `KeepLife` (a stutter), `CloseLife`
(`Over`), `CreateLife` (`Ring`, or `Refuse` for a busy callee), and `Join`
(`Answer`); the restart is `Forget`.

`ControllerKeepsService` shows that the handlers do nothing to the service but
its own steps, so its invariant holds for the controller. `CInv` adds, for each
call, how far its log has come (`LogOf`). What holds it up is that a log begins
only for a call that is over: such a session never changes again, so the snapshot
the log has taken goes on telling what happened while other requests pass between
its awaits; and no handler can begin a second log, because a handler acts on a
live call or makes a new one.

**Groups.** With one request at a time and no failure, `GroupInv` describes each
stage of the request. The tables are `Good` while it reads; what it has read is
`Fresh` while it decides; and while it writes, the calls it has still to make lead
to `Good` tables: `Leads(todo, Now, A)` is a trace of the `Effect` of each call.
Intermediate tables need not be good, since a use case updates the count before
or after the row. There is a lemma per use case, that the calls it plans lead from
good tables to good tables, and one that a call takes the first step of the trace.
A call that only reads has the effect of the write that follows it, because nobody
writes in between (`ReadThenWrite`). The counts rest on the library's facts about the
cardinality of finite sets. `Good` tables of a group that is not live have no rows:
that is `DissolvedLeavesNoRow`.
`DissolvedIsFinal` holds whatever interleaves, and needs no invariant: of all
calls only the update and the deletion write the item, and the update is
conditional on it.

**Group tools.** `ToolsInv` gives each request its shape (`Shape`: one call or one
of four pairs) and its claims: an item about to be stored is missing, nobody else
is about to store it, and it is in the timeline by then; an item about to be
updated was stored once. `OnceInv` is the argument for the worker: what was
announced, or is held by an instance that is about to announce it, is over. A
poll was stored and is not open, and no update opens a poll again; a reminder was
set again since (`armed` counts that) or is not active. The conditional update
finds its item active, so nobody has been told of it, and ends that before the
announcement. `CalmInv` says how far the sole request has come: a message pinned
or unpinned after its item (`Midway`), votes written back as they were read but
for one choice (`SetsVotes`), a link replaced only if it is the only one. What is
pinned past its item is `byHand`, and stays so until a request of the tools pins or
unpins both.

**Friends.** `SocialInv` lists what each use case may have left to do and what it
can still rely on: who was unblocked at the check stays so until the friendship is
set; once a block has taken the friendship apart it stays so until the block is
stored; the pending requests of the pair that a block is sure to find (`Reachable`:
their sender's fit on the page, `HasFew`) are among those listed. Under overlaps
only the shape of the calls is kept; under failures alone, everything that
`BlockedAreNotFriends` needs. `DeletedIsFinal` needs only that the table holds a row
with a status for every id, because an answer is conditional on the row.

**Sessions and codes.** All theorems are about `AccountSpec`, which contains the
requests of `Session`. `AccountTypeOK` types what a command carries, and `InOrder`
says in which order the commands of a request stand, so that none reads what an
earlier one has not written. `PasswordInv` keeps, for every user with no two
changes overlapping, that all tokens are of a version up to the stored one, that
those a finished change replaced are below it, and that a change in flight writes
the next version. It needs no condition on other requests or on failures.
`CalmSessions` describes the sole request by what it will still drop, make and
kill (`Drops` and the like): a session that is not indexed, or a second web session,
or a token that is still accepted though revoked, is on the list of what is left to
do. It speaks of the sessions that the index can lead to (`Found`, `Lives`): when an
index lapses all its sessions become strays, when a session does it is gone, and in a
calm behaviour no request is in flight then (`Lapsing`). `CalmCodes` does the same for the attempts, acceptances and resets of each mail.

**Messages.** `Typed` says what a request in flight is and in which order its calls
stand; the lemmas about `Moves` say which variables a step may write. `Numbers`
keeps the numbers of messages and requests apart. `SentInv` is the argument for the client id: at
most one request is past its reservation, it has it, and what is stored under the
id is its own; a request about to reserve finds the reservation taken or
nothing stored; a reservation expires only when no request is left that knows of
it. `UnreadInv` counts: a member's unread count is at most the number of sends to
him that no request has still to count. `CalmInv` describes the sole request: what
is not yet the newest last message, or still shows a revoked text, is what it
has left to write. The history is a function that follows the cursors downwards: that there is one,
that it holds nothing that is on no page and leaves out nothing that is on one is
shown by the smallest counterexample (`Smallest`, from `WFMin` of
`WellFoundedInduction`), since induction itself is out of the prover's reach. `MarkersAdvance` and the
cutoffs rest on the conditions of the updates; where a touch puts rows back and
nothing else is in flight, they are what was read.

**Realtime.** `EveryoneHears` speaks of the end of a request. Until then `Inv` says
of each change it has stored and each client in its audience (`Covered`) that the
client has heard of it; or that the steps which are left tell it (`Told`: the
members are read once more and the event that follows is for them, or an event is
for the room or for this user); or that the list which was read holds its user and
the next event, or the latest message, is for that list (`InUse`). The first turns
into the third when the members are read, and the third into the first when the
event is sent. That this survives what happens between two awaits rests on
`FollowsWhatItMay`, which is not in the property: a client follows the members'
events only while its user is one, so whoever is in the audience is in the list
that is read now; and on `AudienceShrinks`, that an audience grows by loading alone,
which brings what is stored. `Sound` is the part about the code of the handlers:
whatever a list of steps stores, it tells later, and a dissolution is followed at
once by its event. `AllHandlers` shows it for every handler and route by their
shape. The conditions `alone` and `here` are the property's own: of two sends that overlap
one may carry the other's latest message, and a request that names another
conversation owes nothing to this one.

**Presence.** As long as it is calm, `Inv` says that either no job is in flight,
Redis holds the open sockets (`Holds`) and the last event on the namespace that
matters was right (`Said`), or the
only job in flight is `Midway`: at one of the points of `Registering`, `Touching`,
`Unregistering` or `Asking`, each of which says what Redis holds there and what is
left to count and to tell. A registration tells "online" only if its count is one,
which is so when no other socket was open, and then it is on this socket's namespace
that the user comes (`Besides`); an unregistration tells "offline" only if
it counts none, and what it has still to look at when its count is zero is every
open socket, so the count ends above zero unless none is left. There is a lemma for
each kind of job that goes through its commands, and one for each way a job begins.

Only model-checked:

* liveness (`RingingStops`, `EndIsNotified`, `DueIsHandled`, `PresenceSettles`),
  which is out of the prover's reach;
* what the violation runs refute.

## 6. What the models leave out

* *Calls*: membership is a constant that over-approximates who may be an active
  member, and block and privacy checks may always succeed; audio or video,
  LiveKit rooms and tokens, and the intermediate `call:*` events carry no state.
  `call.service.ts`, the legacy service, is not wired to any route.
* *Groups*: the validity of the invite link (it is in `GroupTools`), the fallback
  from `ownerId` to `createdBy`, the account status of users, and blocks between
  users: requests that depend on them may always succeed. The text of system
  messages. The batches of 25 in which rows are deleted are one step.
* *Group tools*: the members and managers are constants. The limit on pinned messages
  and the permission to pin, which only refuse the message routes. The answer that is read
  after an update, the system messages of requests, the listings.
* *Friends*: the lag of secondary indexes; the reads of a use case are merged
  with its start; the rows of a private conversation are created in one call;
  a query without a limit, as an unfriend makes, ends at a page of 1 MB, taken to be
  all. Suggestions,
  search and listings are read-only. Messages of strangers, which wait as a
  request until they are accepted.
* *Sessions*: expiry of tokens and blacklist entries (tokens that expire only take
  away what is accepted, and a blacklist entry lives as long as its token); `sAdd`
  and the `expire` of the index are one step; the platform is a constant of the device; the limits on the rate of
  logins and mails, which only refuse.
* *Messages*: all members stay active, and group permissions and blocks always
  allow; expiring messages and `historyVisibleFrom`; which of the messages of a
  split send becomes the last one (any); reactions, which are rows of their own;
  stickers (their handler is not reached by any route), profile cards (a send of
  one more type). A lookup by id and the update of the item found is one step.
  Two messages in the same millisecond. A reservation expires a day later, when
  no request that knows of it is left. The order, filters and cursors of the list
  of conversations, statistics and searches.
* *Realtime*: typing, locations, the answers to the caller, the payload and the
  order of the events; the notifiers that nothing calls (`notifiers.ts` 224-280,
  312-355, 383-428). Routes that only read.
* *Presence*: the time of the last visit; who may see it.
* *Everywhere*: eventually consistent reads, rate limits, and the content of
  events.
* *Not modelled at all*, with the reason in `PROJECT.json`: AI and search (calls and
  queries), users and privacy (single updates and a policy that only reads), media
  (a status per upload that nothing else refers to), rate limiters (they refuse),
  the legacy call service (dead code), demo data.

## 7. What the models found: known gaps

Besides the three findings of section 3, model checking stronger forms of the
properties, and reading the code for the models, showed what the code does not
guarantee. They are recorded here and under "hazards", and the properties are
stated for the behaviours in which they do hold. Where a document promises
otherwise the line is named.

* *Calls.* A caller who is already in a call may create another: his busy entry
  moves to it and is dropped with it while the first goes on
  (`call-v2.service.ts:417`). `markMissed` by the last one ringing turns a group
  call into a missed call even if others had joined and left before.
* *Groups.* Two approvals, joins or leaves at the same time lose an increment of
  `membersCount`, or an entry of `admins`. `touchActivityForConversation` puts
  back rows it has read and undoes a role, status or `leftAt` written since
  (`member-repo.ts:583`). A user blocked while his request to join is pending
  can still be approved. An update or a touch that has read its rows before a
  dissolution writes them after it: a part of a row, or whole rows, of a group that is
  gone. A dissolution that fails between its two deletions leaves a group without
  members. Only `addMembers` asks for the limit of 50. Its rollback
  deletes by a key that the table does not have.
* *Friends.* A request is accepted before the friendship is inserted; if the
  insert fails they stay strangers with an answered request
  (`friend-requests/usecase/index.ts:178`). The look for an existing request
  sees two items of the sender and may miss the pending one; so does a block, of a
  sender with more than 100 requests in the table, answered ones included
  (`blocks/usecase/index.ts:59`): an unblock brings back the request that was missed,
  which cannot be accepted meanwhile. An unconditional
  soft delete leaves an item without an id, which the friend list merges with
  others. Two requests at the same time create two private conversations.
* *Sessions.* A session that refreshes keep alive outlives the index of its user: it
  is passed over not only by a logout of all devices but by a revocation of the
  others, a web login on another browser and the revocations of a password change
  (whose new version ends its tokens all the same). Only a web login looks for the
  sessions on other devices, so a user has any number of app sessions
  (`src/docs/BACKEND_BUSINESS_CURRENT.md:39`: one web and one app session). A refresh that has read the session writes it back after a logout:
  the device is logged in again, and its session is not in the index
  (`redis-session.ts:61`). A session is stored before it is indexed. On a shared
  device `listByUser` may end another user's session. Two password changes at
  the same time may write the smaller `tokenVersion` last. A logout that names
  another device blacklists the requester's access token and leaves his refresh
  token usable.
* *Messages.* A send that fails after its first insert is answered with success
  on the retry, and the rest of it (a second message, the last message, the
  unread counts) never happens. An edit that was checked before a revocation
  writes its text after it; a send that sets the last message after a revocation
  brings the text back into the preview. Two members who delete the same message
  for themselves at the same time lose one entry. The unread count is cleared on
  a newest message read before the update, and by a member who has deleted the newest
  message for himself and reports any older one as seen: the filter comes after the
  limit of one (`mark-as-seen.ts:57`). A quote counts for nobody (`quote-message.ts:210`
  is its last write), so that an unread count of zero does not say that all is read
  (`src/docs/BACKEND_BUSINESS_CURRENT.md:151`).
  A quote keeps the text of a message that is revoked later, and an edit leaves the
  preview of the conversation as it was. Copied media are not classified. A
  revoked message keeps its pinned flag, and pins at the same time exceed the
  limit. A forward whose batch the database does not take in three rounds
  (`message-repo.ts:374`) is answered with success, counted and shown as the last
  message, but not there.
* *What a member is shown.* `loadMessages` decides on what is left of a page after
  the filter whether there is a next one: for a member who has hidden messages the
  history ends at the first page that is short. `findLatestVisibleMessage` gives up
  at the first page of which nothing is left, so that the list shows him no last
  message though there are older ones. Muting ends by time only: unmute passes
  `undefined` (`mute-conversation.ts:75`), which the repository leaves out
  (`member-repo.ts:696`). A preference of a member is lost, and a
  marker, an unread count or a cutoff goes back, when `touchActivityForConversation`
  puts back the row it had read; changes of a group and system messages of its tools
  call it as pins do.
* *Codes.* Guesses at the same time share one count of attempts, two requests with
  the right code both take effect, and one grant can set two passwords: it is
  deleted after it was used. Registering on a device leaves the session that was
  there in the index of its user.
* *Group tools.* Two votes at the same time lose one; a vote or an edit that races
  a deletion re-creates a part of the item. An edit of a reminder computed from a
  stale read arms it again. Two requests for the link at the same time make two
  active links, and a revocation ends one of them. A worker that fails between the
  update and the message loses the announcement. The message routes pin and unpin
  the card of a poll or a reminder, and the item does not know
  (`pin-message.ts:100`, `unpin-message.ts:84`): the list of pinned messages and the
  item disagree, and deleting a poll whose item is not pinned leaves its card pinned. `get-polls.ts` filters by status
  after it has taken the page.
* *Realtime.* The event of a deleted note goes to the conversation that the client names,
  if it names one (`member.handlers.ts:801`); that of a deleted reminder to the one it
  names before the reminder's own (`:641`); over HTTP both go to the group of the URL
  (`group-utility-controller.ts:105`, `224`). Nobody compares, so that the group may not
  hear (`src/docs/BACKEND_BUSINESS_CURRENT.md:289`: these changes have an event by which
  its clients update themselves). A join by invite and a block are told to the room only, not to the
  members. A member who was removed stays in the room of the conversation until he
  disconnects. The list that a dissolution is told to is read before the rows are
  deleted: who joins in between hears nothing. Deleting for me, drafts and bulk
  deletion are told to nobody, not even the other devices of the user; the
  conversation of new friends is not announced. Of two sends at the same time the
  "latest message" events may carry the same one.
* *Presence.* The listeners of the namespace on which the user did not come or go
  keep an old event, or have none: open `/messages`, open the root, close the root,
  close `/messages`, and the root has not heard that he left
  (`src/docs/FE_FEATURES_IMPLEMENTATION.md:78` calls it the canonical one, `84` has
  clients set their dots by its events). Two sockets that register at the same time both see a count of two,
  and nobody is told that the user is online. A late unregistration deletes the
  keys of a fresh registration until the next heartbeat. A socket on `/messages`
  that closes during its registration is never unregistered, and a heartbeat that
  races the close leaves a key: both until they expire. An error of Redis while
  unregistering counts as zero sockets, and the user is told to be offline.

## 8. The plan

Done: the modules of section 2, the runs of section 3 and the proofs of section 5.
What would add most, in this order:

1. The tables of `Group` and `Messaging` in one module: a member who is removed
   while a message is counted, and the rows that the touches of group changes put
   back over markers and preferences, as those of pins do in `Messaging`.
2. Message requests of strangers, and message expiry with `historyVisibleFrom`.
3. Media: request, upload, confirm, and confirmations that come twice.
