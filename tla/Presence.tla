------------------------------ MODULE Presence ------------------------------
(***************************************************************************)
(* The presence of one user: his sockets on the default and on the         *)
(* /messages namespace, the keys that record them in Redis, and the        *)
(* online and offline events.  Users share no key.                         *)
(*                                                                         *)
(* Connecting, a heartbeat, disconnecting and asking for the presence each *)
(* start a job, a list of Redis commands that are awaited one by one; jobs *)
(* interleave.  Keys expire.  A command that throws ends its job, and the  *)
(* repository then answers with a count of zero.                           *)
(***************************************************************************)
EXTENDS Naturals, Sequences, FiniteSets

CONSTANTS
  Sockets,         \* connections of the user, each with an id of its own
  MessageSockets,  \* those on /messages
  Devices,         \* the devices of the user
  DeviceOf,        \* the device of each socket
  Nobody,          \* stands for the viewer who asks for the presence
  MaxJobs,         \* bound: jobs in flight at the same time
  MaxQueries,      \* bound: questions for the presence
  MaxMishaps       \* bound: commands that throw, and keys of open sockets that
                   \* expire for want of heartbeats

ASSUME PresenceAssumption ==
  /\ MessageSockets \subseteq Sockets
  /\ DeviceOf \in [Sockets -> Devices]
  /\ Nobody \notin Sockets
  /\ IsFiniteSet(Sockets)
  /\ {MaxJobs, MaxQueries, MaxMishaps} \subseteq Nat

VARIABLES
  link,       \* each socket is new, open or closed
  keys,       \* presence:socket:{id}
  members,    \* presence:user:{id}:sockets
  online,     \* online:{id}
  jobs,       \* the Redis jobs in flight
  told,       \* the last event the listeners of each namespace have received
  turned,     \* history: the namespace of the socket by which the user last
              \* came or went
  queries, mishaps,
  calm        \* history: no two jobs have met and nothing has failed

redis == <<keys, members, online>>
bounds == <<queries, mishaps>>
vars == <<link, redis, jobs, told, turned, bounds, calm>>

JobIds == ({"register", "touch", "unregister"} \X Sockets) \cup {<<"query", Nobody>>}
Done == [todo |-> <<>>, count |-> 0]
Active(j) == jobs[j].todo # <<>>
Quiet == \A j \in JobIds : ~Active(j)

Open == {s \in Sockets : link[s] = "open"}

Namespaces == {"/", "/messages"}
NamespaceOf(s) == IF s \in MessageSockets THEN "/messages" ELSE "/"

\* What isOnline answers once it has pruned the set.
IsOnline == members \cap keys # {} \/ online

-----------------------------------------------------------------------------
(* Jobs: the commands each of them awaits.  The expiry of a key is set with *)
(* the key; updateLastSeen keeps a time only and is left out.               *)

Prune == <<[op |-> "members"]>>

RegisterSocket(s) ==
  Prune \o <<[op |-> "setKey", of |-> s], [op |-> "add", of |-> s],
             [op |-> "setOnline"], [op |-> "card"]>>

\* Mutant: the heartbeat only renews the key of the socket.
TouchKeyOnly(s) == <<[op |-> "setKey", of |-> s]>>

TouchSocket(s) ==
  <<[op |-> "setKey", of |-> s], [op |-> "add", of |-> s], [op |-> "setOnline"]>>

UnregisterSocket(s) ==
  <<[op |-> "delKey", of |-> s], [op |-> "remove", of |-> s]>>
    \o Prune \o <<[op |-> "decide"]>>

\* Mutant: the socket that leaves is taken for one of those that stay.
AfterCountingAll(count) ==
  IF count <= 1 THEN <<[op |-> "delOnline"], [op |-> "delMembers"], [op |-> "offline"]>>
  ELSE <<[op |-> "setOnline"]>>

\* unregisterSocket once the sockets that are left have been counted, and the
\* event when none is.
AfterCounting(count) ==
  IF count <= 0 THEN <<[op |-> "delOnline"], [op |-> "delMembers"], [op |-> "offline"]>>
  ELSE <<[op |-> "setOnline"]>>

\* isOnline, asked by someone else.
Question(viewer) == Prune

\* becameOnline
AfterRegistering(count) == IF count = 1 THEN <<[op |-> "online"]>> ELSE <<>>

ActiveJobs == {j \in JobIds : Active(j)}

\* The named jobs start, each with its list of commands.
Start(starting, todo(_)) ==
  /\ Cardinality(ActiveJobs \cup starting) <= MaxJobs
  /\ calm' = (calm /\ Quiet /\ Cardinality(starting) <= 1)
  /\ jobs' = [j \in JobIds |-> IF j \in starting THEN [todo |-> todo(j[2]), count |-> 0] ELSE jobs[j]]

-----------------------------------------------------------------------------
(* The sockets *)

\* The handlers of connection: the default namespace does not wait for the job.
Connect(s) ==
  /\ link[s] = "new"
  /\ link' = [link EXCEPT ![s] = "open"]
  /\ turned' = IF Open = {} THEN NamespaceOf(s) ELSE turned
  /\ Start({<<"register", s>>}, RegisterSocket)
  /\ UNCHANGED <<redis, told, bounds>>

\* The listener of disconnect.  On /messages it is added only after the
\* registration was awaited: a socket that closes before is never unregistered.
Listening(s) == s \notin MessageSockets \/ ~Active(<<"register", s>>)

CloseSockets(closing) ==
  /\ closing \subseteq Open
  /\ link' = [s \in Sockets |-> IF s \in closing THEN "closed" ELSE link[s]]
  /\ \E s \in closing : turned' = IF Open = closing THEN NamespaceOf(s) ELSE turned
  /\ Start({<<"unregister", s>> : s \in {x \in closing : Listening(x)}}, UnregisterSocket)
  /\ UNCHANGED <<redis, told, bounds>>

Disconnect(s) == CloseSockets({s})

\* revokeUserDeviceSockets, for the sockets of a device on all namespaces.
RevokeDevice(d) ==
  LET closing == {s \in Open : DeviceOf[s] = d}
  IN closing # {} /\ CloseSockets(closing)

\* ping, heartbeat and every other event of the default namespace.
Heartbeat(s) ==
  /\ s \in Open /\ Listening(s)
  /\ ~Active(<<"touch", s>>)
  /\ Start({<<"touch", s>>}, TouchSocket)
  /\ UNCHANGED <<link, redis, told, turned, bounds>>

\* getOnlineStatus, getBatchOnlineStatus, getConversationPresence
GetUserPresence ==
  /\ queries < MaxQueries
  /\ queries' = queries + 1
  /\ ~Active(<<"query", Nobody>>)
  /\ Start({<<"query", Nobody>>}, Question)
  /\ UNCHANGED <<link, redis, told, turned, mishaps>>

-----------------------------------------------------------------------------
(* Redis *)

Command(j) == Head(jobs[j].todo)
Doing(j, op) == Active(j) /\ Command(j).op = op
Continue(j, more, count) ==
  /\ jobs' = [jobs EXCEPT ![j] =
                LET rest == more \o Tail(@.todo)
                IN IF rest = <<>> THEN Done ELSE [todo |-> rest, count |-> count]]
  /\ UNCHANGED <<link, turned, bounds, calm>>
Proceed(j) == Continue(j, <<>>, jobs[j].count)

WriteKey(j) ==
  /\ \/ Doing(j, "setKey") /\ keys' = keys \cup {Command(j).of}
     \/ Doing(j, "delKey") /\ keys' = keys \ {Command(j).of}
  /\ Proceed(j)
  /\ UNCHANGED <<members, online, told>>

WriteMembers(j) ==
  /\ \/ Doing(j, "add") /\ members' = members \cup {Command(j).of}
     \/ Doing(j, "remove") /\ members' = members \ {Command(j).of}
     \/ Doing(j, "delMembers") /\ members' = {}
  /\ Proceed(j)
  /\ UNCHANGED <<keys, online, told>>

WriteOnline(j) ==
  /\ \/ Doing(j, "setOnline") /\ online' = TRUE
     \/ Doing(j, "delOnline") /\ online' = FALSE
  /\ Proceed(j)
  /\ UNCHANGED <<keys, members, told>>

\* pruneUserSockets: sMembers, then a get for each of them.
ReadMembers(j) ==
  /\ Doing(j, "members")
  /\ Continue(j, IF members = {} THEN <<>> ELSE <<[op |-> "check", left |-> members]>>, 0)
  /\ UNCHANGED <<redis, told>>

CheckMember(j) ==
  /\ Doing(j, "check")
  /\ \E s \in Command(j).left :
       LET rest == Command(j).left \ {s}
           again == IF rest = {} THEN <<>> ELSE <<[op |-> "check", left |-> rest]>>
       IN IF s \in keys THEN Continue(j, again, jobs[j].count + 1)
          ELSE Continue(j, <<[op |-> "remove", of |-> s]>> \o again, jobs[j].count)
  /\ UNCHANGED <<redis, told>>

CountMembers(j) ==
  /\ Doing(j, "card")
  /\ Continue(j, AfterRegistering(Cardinality(members)), 0)
  /\ UNCHANGED <<redis, told>>

Decide(j) ==
  /\ Doing(j, "decide")
  /\ Continue(j, AfterCounting(jobs[j].count), 0)
  /\ UNCHANGED <<redis, told>>

\* emitPresenceToVisibleSockets, for the sockets of the namespace on which the
\* socket of the job was registered or closed: those of the other hear nothing.
Tell(j) ==
  /\ Doing(j, "online") \/ Doing(j, "offline")
  /\ told' = [told EXCEPT ![NamespaceOf(j[2])] = Command(j).op]
  /\ Proceed(j)
  /\ UNCHANGED redis

\* The repository catches the error and returns zero: nobody became online, and
\* an unregistration takes the user for offline.
CommandFails(j) ==
  /\ Active(j) /\ Command(j).op \notin {"online", "offline"}
  /\ mishaps < MaxMishaps
  /\ mishaps' = mishaps + 1
  /\ calm' = FALSE
  /\ jobs' = [jobs EXCEPT ![j] = IF j[1] = "unregister" THEN [todo |-> <<[op |-> "offline"]>>, count |-> 0]
                                 ELSE Done]
  /\ UNCHANGED <<link, redis, told, turned, queries>>

\* Ninety seconds without a heartbeat, which is long compared with a command.
KeyExpires(s) ==
  /\ s \in keys
  /\ \A j \in JobIds : j[2] = s => ~Active(j)
  /\ s \in Open => mishaps < MaxMishaps
  /\ mishaps' = IF s \in Open THEN mishaps + 1 ELSE mishaps
  /\ calm' = (calm /\ s \notin Open)
  /\ keys' = keys \ {s}
  /\ UNCHANGED <<link, members, online, jobs, told, turned, queries>>

\* The set lives longer than the keys of its members, the online key as long as
\* the last of them or, after a disconnection, for a minute.
OnlineExpires ==
  /\ Quiet /\ online
  /\ online' = FALSE
  /\ UNCHANGED <<link, keys, members, jobs, told, turned, bounds, calm>>

MembersExpire ==
  /\ Quiet /\ members # {} /\ members \cap keys = {}
  /\ members' = {}
  /\ UNCHANGED <<link, keys, online, jobs, told, turned, bounds, calm>>

-----------------------------------------------------------------------------
Init ==
  /\ link = [s \in Sockets |-> "new"]
  /\ keys = {} /\ members = {} /\ online = FALSE
  /\ jobs = [j \in JobIds |-> Done]
  /\ told = [n \in Namespaces |-> "offline"] /\ turned = "/"
  /\ queries = 0 /\ mishaps = 0
  /\ calm = TRUE

RedisStep(j) ==
  \/ WriteKey(j)
  \/ WriteMembers(j)
  \/ WriteOnline(j)
  \/ ReadMembers(j)
  \/ CheckMember(j)
  \/ CountMembers(j)
  \/ Decide(j)
  \/ Tell(j)

Expiry == (\E s \in Sockets : KeyExpires(s)) \/ OnlineExpires \/ MembersExpire

Next ==
  \/ \E s \in Sockets : Connect(s) \/ Disconnect(s) \/ Heartbeat(s)
  \/ \E d \in Devices : RevokeDevice(d)
  \/ GetUserPresence
  \/ \E j \in JobIds : RedisStep(j) \/ CommandFails(j)
  \/ Expiry

Spec == Init /\ [][Next]_vars

\* A command that was sent is answered, a connected client goes on sending
\* heartbeats, and a key that nobody renews expires.
Fairness ==
  /\ \A j \in JobIds : WF_vars(RedisStep(j))
  /\ \A s \in Sockets : SF_vars(Heartbeat(s)) /\ SF_vars(KeyExpires(s) /\ s \notin Open)
  /\ SF_vars(OnlineExpires)

FairSpec == Spec /\ Fairness

-----------------------------------------------------------------------------
(* Properties *)

\* Whatever connections, disconnections, heartbeats, queries and failures have
\* met in Redis, the answer to "is he online" becomes right and stays right
\* once the user's sockets stay as they are: heartbeats repair what a prune or
\* a late unregistration has removed, expiry removes what no one unregistered.
PresenceSettles == <>[](IsOnline <=> Open # {})

\* When no two jobs have met and nothing has failed, the listeners of the
\* namespace on which the user last came or went know whether he has a socket.
ToldIsTrue == calm /\ Quiet => (told[turned] = "online" <=> Open # {})
=============================================================================
