------------------------------- MODULE Session -------------------------------
(***************************************************************************)
(* Sessions and tokens (auth/usecase, redis-session.ts, refresh-store.ts). *)
(* A session lives in Redis under its device, an index lists the devices   *)
(* of a user, and every session names the one token pair that is good for  *)
(* it.  Each Redis command is a step of its own: a slot is a request being *)
(* handled, and the commands of two slots interleave.  Sessions and index  *)
(* live for SESSION_TTL, from when they were last written.                 *)
(*                                                                         *)
(* An access token and the refresh token issued with it share a number.    *)
(* The client keeps every token it was given and may present any of them.  *)
(***************************************************************************)
EXTENDS Naturals, Sequences, FiniteSets

CONSTANTS
  Users,
  Devices,
  WebDevices,   \* the devices whose platform is "web"; the others are "app"
  Slots,        \* requests the server works on at the same time
  MaxTokens,    \* bound: token pairs issued
  MaxRequests,  \* bound: requests handled one at a time, without a failure
  MaxDisturbed, \* bound: requests in a behaviour where some overlap or a command fails
  Faults        \* whether a command may throw

ASSUME SessionAssumption ==
  /\ WebDevices \subseteq Devices
  /\ MaxTokens \in Nat /\ MaxRequests \in Nat /\ MaxDisturbed \in Nat
  /\ Faults \in BOOLEAN

VARIABLES
  version,     \* user.tokenVersion, changed together with the password
  sessions,    \* session:{device}
  index,       \* user:sessions:{user}
  renewed,     \* devices whose session was written after the index of its user
  strays,      \* history: devices whose session has outlived an index
  stored,      \* refresh:{jti}: the refresh tokens that were not used yet
  used,        \* refresh:used:{jti}
  blacklist,   \* blacklist:{jti}
  tokens,      \* the token pairs issued so far: what they are signed for
  slots,       \* the requests in flight
  started,     \* requests started so far
  calm,        \* history: no two requests have overlapped and no command has failed
  revoked,     \* history: tokens that a finished logout or revocation was for
  superseded,  \* history: tokens issued before a password change that took effect
  overlapped   \* history: users two of whose password changes were in flight at once

ages == <<renewed, strays>>
redis == <<sessions, index, ages, stored, used, blacklist>>
history == <<superseded, overlapped>>
counters == <<started, calm>>
vars == <<version, redis, tokens, slots, counters, revoked, history>>

-----------------------------------------------------------------------------
TokenIds == 1..MaxTokens
\* A session is a record of its user, device and latest token pair; a token is
\* signed for a user, a device and the version of the user.
NoSession == [token |-> 0]

HasSession(d) == sessions[d] # NoSession
DevicesOf(u) == {d \in Devices : HasSession(d) /\ sessions[d].user = u}
IssuedTo(u) == {n \in DOMAIN tokens : tokens[n].user = u}
IssuedFor(u, d) == {n \in IssuedTo(u) : tokens[n].dev = d}

\* Mutant: any session of the user on the device will do.
IsOfDevice(n) ==
  LET s == sessions[tokens[n].dev]
  IN s # NoSession /\ s.user = tokens[n].user

\* The session of the token's device belongs to its user and names it.
IsLatest(n) ==
  LET s == sessions[tokens[n].dev]
  IN s # NoSession /\ s.user = tokens[n].user /\ s.token = n

CurrentVersion(n) == tokens[n].version = version[tokens[n].user]

\* introspect accepts the access token; refreshToken accepts the refresh token.
Introspect(n) == n \notin blacklist /\ CurrentVersion(n) /\ IsLatest(n)
Refreshable(n) == n \in stored /\ CurrentVersion(n) /\ IsLatest(n)

-----------------------------------------------------------------------------
(* Requests in flight: the commands to come, and the tokens to be revoked *)

Idle == [todo |-> <<>>, kills |-> {}]
Doing(r, kind) == slots[r] # Idle /\ Head(slots[r].todo).kind = kind
Command(r) == Head(slots[r].todo)

\* The command returned and is replaced by the commands of more.
Proceed(r, more) ==
  LET rest == more \o Tail(slots[r].todo)
      done == rest = <<>>
  IN /\ slots' = [slots EXCEPT ![r] = IF done THEN Idle ELSE [slots[r] EXCEPT !.todo = rest]]
     /\ revoked' = IF done THEN revoked \cup slots[r].kills ELSE revoked
     /\ UNCHANGED <<tokens, counters>>

\* The request throws: what it has done stays done.
Throw(r) ==
  /\ slots' = [slots EXCEPT ![r] = Idle]
  /\ UNCHANGED <<tokens, started, revoked>>

Start(r, todo, kills) ==
  /\ slots[r] = Idle
  /\ calm' = (calm /\ \A x \in Slots : slots[x] = Idle)
  /\ started < IF calm' THEN MaxRequests ELSE MaxDisturbed
  /\ slots' = [slots EXCEPT ![r] = [todo |-> todo, kills |-> kills]]
  /\ started' = started + 1
  /\ UNCHANGED <<version, redis, tokens, revoked, superseded>>

\* A request other than a password change.
Begin(r, todo, kills) == Start(r, todo, kills) /\ UNCHANGED overlapped

-----------------------------------------------------------------------------
(* Revoking *)

RevokeByDevice(u, d) == <<[kind |-> "revokeByDevice", user |-> u, dev |-> d]>>

\* revokeSessionObject: works on the session as it was read.
RevokeSessionObject(s) ==
  <<[kind |-> "delRefresh", token |-> s.token],
    [kind |-> "blacklist", token |-> s.token],
    [kind |-> "dropRead", dev |-> s.dev]>>

\* listByUser, then revoke each session found on one of the devices of ds.
RevokeListed(u, ds) == <<[kind |-> "list", user |-> u, only |-> ds]>>

ReadDevice(r) ==
  /\ Doing(r, "revokeByDevice")
  /\ LET s == sessions[Command(r).dev]
     IN Proceed(r, IF s # NoSession /\ s.user = Command(r).user
                     THEN RevokeSessionObject(s) ELSE <<>>)
  /\ UNCHANGED <<version, redis, history>>

DelRefresh(r) ==
  /\ Doing(r, "delRefresh")
  /\ stored' = stored \ {Command(r).token}
  /\ Proceed(r, <<>>)
  /\ UNCHANGED <<version, sessions, index, ages, used, blacklist, history>>

AddToBlacklist(r) ==
  /\ Doing(r, "blacklist")
  /\ blacklist' = blacklist \cup {Command(r).token}
  /\ Proceed(r, <<>>)
  /\ UNCHANGED <<version, sessions, index, ages, stored, used, history>>

\* sessionStore.delete reads the session for its user, deletes the key ...
DropRead(r) ==
  /\ Doing(r, "dropRead")
  /\ LET d == Command(r).dev
     IN Proceed(r, <<[kind |-> "dropKey", dev |-> d]>>
                   \o (IF HasSession(d)
                         THEN <<[kind |-> "unindex", user |-> sessions[d].user, dev |-> d]>>
                         ELSE <<>>))
  /\ UNCHANGED <<version, redis, history>>

DropKey(r) ==
  /\ Doing(r, "dropKey")
  /\ sessions' = [sessions EXCEPT ![Command(r).dev] = NoSession]
  /\ renewed' = renewed \ {Command(r).dev} /\ strays' = strays \ {Command(r).dev}
  /\ Proceed(r, <<>>)
  /\ UNCHANGED <<version, index, stored, used, blacklist, history>>

\* ... and takes the device off the user's index (also listByUser, for a
\* device that has no session).
Unindex(r) ==
  /\ Doing(r, "unindex")
  /\ index' = [index EXCEPT ![Command(r).user] = @ \ {Command(r).dev}]
  /\ Proceed(r, <<>>)
  /\ UNCHANGED <<version, sessions, ages, stored, used, blacklist, history>>

\* The commands that come after a session was found, or not found, for each
\* device: one get per device, and the revocations once all are read.
Collect(u, left, found, only) ==
  <<[kind |-> "collect", user |-> u, left |-> left, found |-> found, only |-> only]>>

ListDevices(r) ==
  /\ Doing(r, "list")
  /\ Proceed(r, Collect(Command(r).user, index[Command(r).user], {}, Command(r).only))
  /\ UNCHANGED <<version, redis, history>>

\* A session found under the index of the user is not asked whose it is.
CollectNext(r) ==
  /\ Doing(r, "collect")
  /\ \E d \in Command(r).left :
       LET left == Command(r).left \ {d}
           found == IF HasSession(d) THEN Command(r).found \cup {sessions[d]} ELSE Command(r).found
       IN Proceed(r, (IF HasSession(d) THEN <<>>
                      ELSE <<[kind |-> "unindex", user |-> Command(r).user, dev |-> d]>>)
                     \o Collect(Command(r).user, left, found, Command(r).only))
  /\ UNCHANGED <<version, redis, history>>

RevokeFound(r) ==
  /\ Doing(r, "collect")
  /\ Command(r).left = {}
  /\ LET hit == {s \in Command(r).found : s.dev \in Command(r).only}
     IN IF hit = {} THEN Proceed(r, <<>>)
        ELSE \E s \in hit :
               Proceed(r, RevokeSessionObject(s)
                          \o Collect(Command(r).user, {}, hit \ {s}, Command(r).only))
  /\ UNCHANGED <<version, redis, history>>

-----------------------------------------------------------------------------
(* Issuing *)

\* generateAccessToken and generateRefreshTokenPair: signed for the version
\* that was read when the request began.
Issue(r) ==
  /\ Doing(r, "issue")
  /\ LET n == Len(tokens) + 1
         c == Command(r)
     IN /\ n \in TokenIds
        /\ tokens' = Append(tokens, c.token)
        /\ stored' = stored \cup {n}
        /\ slots' = [slots EXCEPT ![r].todo = <<[kind |-> c.then, dev |-> c.token.dev,
                       session |-> [user |-> c.token.user, dev |-> c.token.dev, token |-> n]]>>
                     \o Tail(slots[r].todo)]
  /\ UNCHANGED <<version, sessions, index, ages, used, blacklist, counters, revoked, history>>

IssueCalls(u, d, v, then) ==
  <<[kind |-> "issue", token |-> [user |-> u, dev |-> d, version |-> v], then |-> then]>>

\* The session is written, by create or by update, and lives on from here.
WriteSession(r) ==
  /\ Doing(r, "create") \/ Doing(r, "updateSet")
  /\ LET d == Command(r).dev
     IN /\ sessions' = [sessions EXCEPT ![d] = Command(r).session]
        /\ renewed' = renewed \cup {d}
        /\ strays' = IF Doing(r, "create") THEN strays \ {d} ELSE strays
  /\ UNCHANGED <<version, index, stored, used, blacklist, history>>

\* Mutant: the session is stored and the index forgotten.
CreateUnindexed(r) == WriteSession(r) /\ Proceed(r, <<>>)

\* sessionStore.create: the session, then the index.
CreateSession(r) ==
  /\ WriteSession(r)
  /\ Proceed(r, IF Doing(r, "create")
                  THEN <<[kind |-> "index", user |-> Command(r).session.user, dev |-> Command(r).dev]>>
                  ELSE <<>>)

\* sAdd, and expire: from here the index lives as long as a new session.
AddToIndex(r) ==
  /\ Doing(r, "index")
  /\ index' = [index EXCEPT ![Command(r).user] = @ \cup {Command(r).dev}]
  /\ renewed' = renewed \ DevicesOf(Command(r).user)
  /\ Proceed(r, <<>>)
  /\ UNCHANGED <<version, sessions, strays, stored, used, blacklist, history>>

\* sessionStore.update: nothing to do if the session is gone.  The user of
\* the session that was read is kept.
UpdateRead(r) ==
  /\ Doing(r, "update")
  /\ LET d == Command(r).dev
     IN Proceed(r, IF ~HasSession(d) THEN <<>>
                   ELSE <<[kind |-> "updateSet", dev |-> d,
                           session |-> [sessions[d] EXCEPT !.token = Command(r).session.token]]>>)
  /\ UNCHANGED <<version, redis, history>>

-----------------------------------------------------------------------------
(* Use cases *)

Init ==
  /\ version = [u \in Users |-> 1]
  /\ sessions = [d \in Devices |-> NoSession]
  /\ index = [u \in Users |-> {}]
  /\ renewed = {} /\ strays = {}
  /\ stored = {} /\ used = {} /\ blacklist = {}
  /\ tokens = <<>>
  /\ slots = [r \in Slots |-> Idle]
  /\ started = 0 /\ calm = TRUE
  /\ revoked = {} /\ superseded = {} /\ overlapped = {}

\* Mutant: the other web sessions stay.
LoginCallsAnywhere(u, d) ==
  RevokeByDevice(u, d) \o IssueCalls(u, d, version[u], "create")

\* The session of the device is replaced, and a web login replaces the web
\* sessions on other devices.
LoginCalls(u, d) ==
  RevokeByDevice(u, d)
  \o (IF d \in WebDevices THEN RevokeListed(u, WebDevices \ {d}) ELSE <<>>)
  \o IssueCalls(u, d, version[u], "create")

\* The password was compared with the user that was read here.
Login(r, u, d) == Begin(r, LoginCalls(u, d), IssuedFor(u, d))

\* A token that is not stored: if it was used before, the device's session is
\* revoked.
ReuseRefreshToken(r, n) ==
  /\ n \notin stored
  /\ Begin(r, <<[kind |-> "getUsed", token |-> n]>>, {})

GetUsed(r) ==
  /\ Doing(r, "getUsed")
  /\ LET t == tokens[Command(r).token]
     IN IF Command(r).token \notin used THEN Throw(r) /\ UNCHANGED calm
        ELSE /\ slots' = [slots EXCEPT ![r] = [todo |-> RevokeByDevice(t.user, t.dev),
                                               kills |-> IssuedFor(t.user, t.dev)]]
             /\ UNCHANGED <<tokens, counters, revoked>>
  /\ UNCHANGED <<version, redis, history>>

\* The token is stored and its version is the user's.
RefreshToken(r, n) ==
  /\ n \in stored /\ CurrentVersion(n)
  /\ Begin(r, <<[kind |-> "checkSession", token |-> n]>>
              \o <<[kind |-> "consume", token |-> n]>>
              \o IssueCalls(tokens[n].user, tokens[n].dev, tokens[n].version, "update"), {})

CheckSession(r) ==
  /\ Doing(r, "checkSession")
  /\ IF IsLatest(Command(r).token) THEN Proceed(r, <<>>) ELSE Throw(r) /\ UNCHANGED calm
  /\ UNCHANGED <<version, redis, history>>

\* consume: delete the token, and mark it as used if it was still there.
Consume(r) ==
  /\ Doing(r, "consume")
  /\ stored' = stored \ {Command(r).token}
  /\ Proceed(r, IF Command(r).token \in stored
                  THEN <<[kind |-> "markUsed", token |-> Command(r).token]>> ELSE <<>>)
  /\ UNCHANGED <<version, sessions, index, ages, used, blacklist, history>>

MarkUsed(r) ==
  /\ Doing(r, "markUsed")
  /\ used' = used \cup {Command(r).token}
  /\ Proceed(r, <<>>)
  /\ UNCHANGED <<version, sessions, index, ages, stored, blacklist, history>>

\* The requester's token was introspected when the request came in.  d is the
\* x-device-id of the request, which need not be the device of the token: then
\* the access token is blacklisted and its refresh token stays.
Logout(r, n, d) ==
  /\ Introspect(n)
  /\ Begin(r, RevokeByDevice(tokens[n].user, d) \o <<[kind |-> "blacklist", token |-> n]>>,
           IssuedFor(tokens[n].user, d))

\* DELETE /auth/sessions/:deviceId
RevokeSession(r, n, d) ==
  /\ Introspect(n)
  /\ Begin(r, RevokeByDevice(tokens[n].user, d), IssuedFor(tokens[n].user, d))

LogoutAll(r, n) ==
  /\ Introspect(n)
  /\ Begin(r, RevokeListed(tokens[n].user, Devices), IssuedTo(tokens[n].user))

\* The current session is there when the request begins.
RevokeOtherSessions(r, n) ==
  /\ Introspect(n)
  /\ LET u == tokens[n].user
         d == tokens[n].dev
     IN Begin(r, RevokeListed(u, Devices \ {d}), IssuedTo(u) \ IssuedFor(u, d))

\* A password change of the user was started and is not written yet.
ChangesPassword(r, u) == Doing(r, "setVersion") /\ Command(r).user = u

\* The new version is computed from the user that was read; what follows is
\* done before every session is revoked.
ChangePasswordOf(r, u, following) ==
  /\ Start(r, <<[kind |-> "setVersion", user |-> u, version |-> version[u] + 1]>>
              \o following \o RevokeListed(u, Devices), IssuedTo(u))
  /\ overlapped' = IF \E x \in Slots : ChangesPassword(x, u) THEN overlapped \cup {u} ELSE overlapped

ChangePassword(r, n) ==
  /\ Introspect(n)
  /\ ChangePasswordOf(r, tokens[n].user, <<>>)

\* Mutant: the password changes and the version does not.
SetPassword(r) ==
  /\ Doing(r, "setVersion")
  /\ superseded' = superseded \cup slots[r].kills
  /\ Proceed(r, <<>>)
  /\ UNCHANGED <<version, redis, overlapped>>

SetVersion(r) ==
  /\ Doing(r, "setVersion")
  /\ version' = [version EXCEPT ![Command(r).user] = Command(r).version]
  /\ superseded' = superseded \cup slots[r].kills
  /\ Proceed(r, <<>>)
  /\ UNCHANGED <<redis, overlapped>>

\* Any command may throw: the connection, a timeout.
CommandFails(r) ==
  /\ Faults
  /\ slots[r] # Idle
  /\ started <= MaxDisturbed
  /\ Throw(r)
  /\ calm' = FALSE
  /\ UNCHANGED <<version, redis, history>>

-----------------------------------------------------------------------------
(* SESSION_TTL has passed *)

\* A key may lapse at any time.  Behaviours in which one does while a request
\* is being handled count as disturbed.
Passes ==
  /\ calm' = (calm /\ \A r \in Slots : slots[r] = Idle)
  /\ started <= IF calm' THEN MaxRequests ELSE MaxDisturbed
  /\ UNCHANGED <<version, stored, used, blacklist, tokens, slots, started, revoked, history>>

\* A session was not refreshed; one that was written after the index of its
\* user lapses after the index.
SessionLapses(d) ==
  /\ HasSession(d)
  /\ d \in renewed => index[sessions[d].user] = {}
  /\ sessions' = [sessions EXCEPT ![d] = NoSession]
  /\ renewed' = renewed \ {d} /\ strays' = strays \ {d}
  /\ Passes
  /\ UNCHANGED index

\* The user has not logged in anywhere: what sessions are left were refreshed.
IndexLapses(u) ==
  /\ index[u] # {}
  /\ DevicesOf(u) \subseteq renewed
  /\ index' = [index EXCEPT ![u] = {}]
  /\ strays' = strays \cup DevicesOf(u)
  /\ Passes
  /\ UNCHANGED <<sessions, renewed>>

Lapse == (\E d \in Devices : SessionLapses(d)) \/ (\E u \in Users : IndexLapses(u))

-----------------------------------------------------------------------------
TokenUseCase(r) ==
  \E n \in DOMAIN tokens :
    \/ RefreshToken(r, n)
    \/ ReuseRefreshToken(r, n)
    \/ LogoutAll(r, n)
    \/ RevokeOtherSessions(r, n)
    \/ ChangePassword(r, n)
    \/ \E d \in Devices : Logout(r, n, d)
    \/ \E d \in Devices : RevokeSession(r, n, d)

UseCase(r) ==
  \/ \E u \in Users, d \in Devices : Login(r, u, d)
  \/ TokenUseCase(r)

RedisCommand(r) ==
  \/ ReadDevice(r)
  \/ DelRefresh(r)
  \/ AddToBlacklist(r)
  \/ DropRead(r)
  \/ DropKey(r)
  \/ Unindex(r)
  \/ ListDevices(r)
  \/ CollectNext(r)
  \/ RevokeFound(r)
  \/ Issue(r)
  \/ CreateSession(r)
  \/ AddToIndex(r)
  \/ UpdateRead(r)
  \/ GetUsed(r)
  \/ CheckSession(r)
  \/ Consume(r)
  \/ MarkUsed(r)
  \/ SetVersion(r)
  \/ CommandFails(r)

Next == (\E r \in Slots : UseCase(r) \/ RedisCommand(r)) \/ Lapse

Spec == Init /\ [][Next]_vars

-----------------------------------------------------------------------------
(* Properties *)

\* Between requests of a behaviour that handles them one at a time.
Quiet == calm /\ \A r \in Slots : slots[r] = Idle

\* Handled one at a time, a logout, a remote logout, a logout of all or of the
\* other devices, a new login on the device, a replayed refresh token and a
\* password change mean what they say: no token they were about is accepted
\* again, neither as access nor as refresh token, whatever happens later.  But
\* for the latest tokens of a session that has outlived the index of its user,
\* which a logout of many devices does not find.
RevokedStayDead ==
  calm => \A n \in revoked : tokens[n].dev \in strays \/ (~Introspect(n) /\ ~Refreshable(n))

\* Between requests a user has at most one session on the web, on whichever
\* devices the user and others have logged in before, besides sessions that
\* have outlived an index.
OneWebSession ==
  Quiet => \A u \in Users : Cardinality((DevicesOf(u) \cap WebDevices) \ strays) <= 1

\* Between requests the index of a user, which is all that a logout of every
\* device and a password change look at, lists every device of the user, until
\* no login of the user has renewed it for SESSION_TTL; and a login on a device
\* puts it back.
SessionsAreIndexed ==
  Quiet => \A d \in Devices \ strays : HasSession(d) => d \in index[sessions[d].user]

\* From the moment a password change is written, no token issued before the
\* change began is accepted again, even if another request was issuing or
\* rotating tokens meanwhile and even if revoking the sessions fails half way.
\* It takes password changes of one user that do not overlap: tokenVersion is
\* computed from the user that was read, and an old one may be written last.
PasswordChangeIsFinal ==
  \A n \in superseded :
    tokens[n].user \notin overlapped => ~Introspect(n) /\ ~Refreshable(n)

-----------------------------------------------------------------------------
(* What the documentation says and the code does not do *)

\* "`POST /v1/auth/logout-all` revoke toàn bộ session của user": what a logout
\* of one, of many or of all devices was about is not accepted again.
LogoutsAreTotal == calm => \A n \in revoked : ~Introspect(n) /\ ~Refreshable(n)
=============================================================================
