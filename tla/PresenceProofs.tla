--------------------------- MODULE PresenceProofs ---------------------------
(***************************************************************************)
(* What the listeners of the namespace on which a user last came or went    *)
(* have been told of him is right whenever his jobs are done and none met  *)
(* another or failed, for any number of sockets and devices and whatever   *)
(* the order of connections and disconnections.                            *)
(***************************************************************************)
EXTENDS Presence, SequenceTheorems, FiniteSetTheorems, TLAPS

\* The commands a list may hold.
SetKey(s) == [op |-> "setKey", of |-> s]
Add(s) == [op |-> "add", of |-> s]
DelKey(s) == [op |-> "delKey", of |-> s]
Remove(s) == [op |-> "remove", of |-> s]
Check(left) == [op |-> "check", left |-> left]
Plain(op) == [op |-> op]

Commands ==
  {Plain(op) : op \in {"members", "setOnline", "delOnline", "card", "decide",
                       "delMembers", "online", "offline"}}
  \cup {SetKey(s) : s \in Sockets} \cup {Add(s) : s \in Sockets}
  \cup {DelKey(s) : s \in Sockets} \cup {Remove(s) : s \in Sockets}
  \cup {Check(left) : left \in SUBSET Sockets}

-----------------------------------------------------------------------------
(* The points a job that nobody disturbs may have come to.                  *)

\* Redis holds exactly these sockets.
Holds(some) == keys = some /\ members = some

\* What was told says whether any of these sockets is open.
Said(some) == told[turned] = IF some # {} THEN "online" ELSE "offline"

\* What was told before s came or went, when the user had these sockets besides:
\* without any, it is on the namespace of s that he comes or goes.
Besides(some, s) == IF some = {} THEN turned = NamespaceOf(s) ELSE told[turned] = "online"

\* register: the socket is open, the key and then the set get it, and the
\* others have heard of the sockets that were there before it.
Registering(s, todo) ==
  LET others == Open \ {s}
  IN /\ s \in Open
     /\ Besides(others, s)
     /\ \/ /\ Holds(others)
           /\ \/ todo = RegisterSocket(s)
              \/ \E left \in (SUBSET others) \ {{}} :
                   todo = <<Check(left), SetKey(s), Add(s), Plain("setOnline"), Plain("card")>>
              \/ todo = <<SetKey(s), Add(s), Plain("setOnline"), Plain("card")>>
        \/ /\ keys = Open /\ members = others
           /\ todo = <<Add(s), Plain("setOnline"), Plain("card")>>
        \/ /\ Holds(Open)
           /\ todo \in {<<Plain("setOnline"), Plain("card")>>, <<Plain("card")>>}
        \/ Holds(Open) /\ others = {} /\ todo = <<Plain("online")>>

\* touch: it finds what it writes.
Touching(s, todo) ==
  /\ s \in Open
  /\ Holds(Open) /\ Said(Open)
  /\ todo \in {TouchSocket(s), <<Add(s), Plain("setOnline")>>, <<Plain("setOnline")>>}

\* unregister: the socket is closed, the key and then the set lose it, and what
\* is counted is zero exactly when no socket is left.
Unregistering(s, todo, count) ==
  /\ s \in Sockets \ Open
  /\ Besides(Open, s)
  /\ \/ Holds(Open \cup {s}) /\ todo = UnregisterSocket(s)
     \/ /\ keys = Open /\ members = Open \cup {s}
        /\ todo = <<Remove(s), Plain("members"), Plain("decide")>>
     \/ Holds(Open) /\ todo = <<Plain("members"), Plain("decide")>>
     \/ /\ Holds(Open) /\ count \in Nat
        /\ \E left \in (SUBSET Open) \ {{}} :
             /\ todo = <<Check(left), Plain("decide")>>
             /\ count = 0 => left = Open
     \/ /\ Holds(Open) /\ count \in Nat /\ (count = 0 <=> Open = {})
        /\ todo = <<Plain("decide")>>
     \/ Holds(Open) /\ Open # {} /\ todo = <<Plain("setOnline")>>
     \/ /\ Holds(Open) /\ Open = {}
        /\ todo \in {AfterCounting(0), <<Plain("delMembers"), Plain("offline")>>, <<Plain("offline")>>}

\* isOnline: every member it looks at has a key.
Asking(todo) ==
  /\ Holds(Open) /\ Said(Open)
  /\ \/ todo = Prune
     \/ \E left \in (SUBSET Open) \ {{}} : todo = <<Check(left)>>

Midway(j) ==
  LET todo == jobs[j].todo
  IN \/ \E s \in Sockets :
          \/ j = <<"register", s>> /\ Registering(s, todo)
          \/ j = <<"touch", s>> /\ Touching(s, todo)
          \/ j = <<"unregister", s>> /\ Unregistering(s, todo, jobs[j].count)
     \/ j = <<"query", Nobody>> /\ Asking(todo)

\* No job is in flight, Redis holds the open sockets and the last event is right.
Settled == Quiet /\ Holds(Open) /\ Said(Open)

\* One job is in flight and on its way from one settled state to the next.
Alone(j) == \A i \in JobIds \ {j} : ~Active(i)

Typed ==
  /\ link \in [Sockets -> {"new", "open", "closed"}]
  /\ jobs = [j \in JobIds |-> jobs[j]]

Addressed == told = [n \in Namespaces |-> told[n]]

\* The inductive invariant.  ToldIsTrue speaks of the moments without a job; to
\* get from one of them to the next each command of the job needs what the
\* earlier ones have left in Redis.
Inv ==
  /\ Typed /\ Addressed
  /\ calm => Settled \/ \E j \in JobIds : Alone(j) /\ Midway(j)

-----------------------------------------------------------------------------
(* Lists of commands *)

\* The command a list begins with and those that follow it.
LEMMA Lists ==
  /\ \A a : <<a>> # <<>> /\ Head(<<a>>) = a /\ Tail(<<a>>) = <<>>
  /\ \A a, b : <<a, b>> # <<>> /\ Head(<<a, b>>) = a /\ Tail(<<a, b>>) = <<b>>
  /\ \A a, b, c : <<a, b, c>> # <<>> /\ Head(<<a, b, c>>) = a /\ Tail(<<a, b, c>>) = <<b, c>>
  /\ \A a, b, c, d : /\ <<a, b, c, d>> # <<>> /\ Head(<<a, b, c, d>>) = a
                     /\ Tail(<<a, b, c, d>>) = <<b, c, d>>
  /\ \A a, b, c, d, e : /\ <<a, b, c, d, e>> # <<>> /\ Head(<<a, b, c, d, e>>) = a
                        /\ Tail(<<a, b, c, d, e>>) = <<b, c, d, e>>
OBVIOUS

\* The same set holds the elements of both lists.
LEMMA Longer ==
  ASSUME NEW S, NEW s \in Seq(S), NEW t \in Seq(S), NEW u \in Seq(S), Len(u) = Len(s) + Len(t),
         \A i \in 1..Len(s) : u[i] = s[i],
         \A i \in 1..Len(t) : u[Len(s) + i] = t[i]
  PROVE  s \o t = u
<1>1. /\ s \o t \in Seq(S) /\ Len(s \o t) = Len(u)
      /\ \A i \in 1..Len(u) : (s \o t)[i] = IF i <= Len(s) THEN s[i] ELSE t[i - Len(s)]
  BY ConcatProperties
<1>2. \A i \in 1..Len(u) : (s \o t)[i] = u[i]
  <2> SUFFICES ASSUME NEW i \in 1..Len(u)
               PROVE  (s \o t)[i] = u[i]
    OBVIOUS
  <2>1. Len(s) \in Nat /\ Len(t) \in Nat
    BY LenProperties
  <2>2. CASE i <= Len(s)
    BY <1>1, <2>1, <2>2
  <2>3. CASE ~(i <= Len(s))
    <3>1. i - Len(s) \in 1..Len(t) /\ Len(s) + (i - Len(s)) = i
      BY <2>1, <2>3
    <3>2. QED BY <1>1, <2>3, <3>1
  <2>4. QED BY <2>2, <2>3
<1>3. QED BY <1>1, <1>2, SeqEqual

\* Putting a command before a list, and the lists of register and unregister.
LEMMA Joins ==
  /\ \A a : <<>> \o <<a>> = <<a>> /\ <<a>> \o <<>> = <<a>>
  /\ \A a, b : <<>> \o <<a, b>> = <<a, b>> /\ <<a>> \o <<b>> = <<a, b>>
  /\ \A a, b, c : <<>> \o <<a, b, c>> = <<a, b, c>> /\ <<a, b>> \o <<c>> = <<a, b, c>>
                  /\ <<a, b, c>> \o <<>> = <<a, b, c>>
  /\ \A a, b, c, d : <<>> \o <<a, b, c, d>> = <<a, b, c, d>> /\ <<a, b, c>> \o <<d>> = <<a, b, c, d>>
  /\ \A a, b, c, d, e : <<a>> \o <<b, c, d, e>> = <<a, b, c, d, e>>
<1>1. \A a, b : <<a>> \o <<b>> = <<a, b>>
  <2> SUFFICES ASSUME NEW a, NEW b
               PROVE  <<a>> \o <<b>> = <<a, b>>
    OBVIOUS
  <2> DEFINE S == {a, b}
  <2>1. /\ <<a>> \in Seq(S) /\ <<b>> \in Seq(S)
        /\ <<a, b>> \in Seq(S)
    OBVIOUS
  <2>2. /\ Len(<<a>>) = 1 /\ Len(<<b>>) = 1
        /\ Len(<<a, b>>) = Len(<<a>>) + Len(<<b>>)
    OBVIOUS
  <2>3. \A i \in 1..Len(<<a>>) : <<a, b>>[i] = <<a>>[i]
    OBVIOUS
  <2>4. \A i \in 1..Len(<<b>>) : <<a, b>>[Len(<<a>>) + i] = <<b>>[i]
    OBVIOUS
  <2> HIDE DEF S
  <2>5. QED BY ONLY <2>1, <2>2, <2>3, <2>4, Longer, Zenon
<1>2. \A a, b, c : <<a, b>> \o <<c>> = <<a, b, c>>
  <2> SUFFICES ASSUME NEW a, NEW b, NEW c
               PROVE  <<a, b>> \o <<c>> = <<a, b, c>>
    OBVIOUS
  <2> DEFINE S == {a, b, c}
  <2>1. /\ <<a, b>> \in Seq(S) /\ <<c>> \in Seq(S)
        /\ <<a, b, c>> \in Seq(S)
    OBVIOUS
  <2>2. /\ Len(<<a, b>>) = 2 /\ Len(<<c>>) = 1
        /\ Len(<<a, b, c>>) = Len(<<a, b>>) + Len(<<c>>)
    OBVIOUS
  <2>3. \A i \in 1..Len(<<a, b>>) : <<a, b, c>>[i] = <<a, b>>[i]
    OBVIOUS
  <2>4. \A i \in 1..Len(<<c>>) : <<a, b, c>>[Len(<<a, b>>) + i] = <<c>>[i]
    OBVIOUS
  <2> HIDE DEF S
  <2>5. QED BY ONLY <2>1, <2>2, <2>3, <2>4, Longer, Zenon
<1>3. \A a, b, c, d : <<a, b, c>> \o <<d>> = <<a, b, c, d>>
  <2> SUFFICES ASSUME NEW a, NEW b, NEW c, NEW d
               PROVE  <<a, b, c>> \o <<d>> = <<a, b, c, d>>
    OBVIOUS
  <2> DEFINE S == {a, b, c, d}
  <2>1. /\ <<a, b, c>> \in Seq(S) /\ <<d>> \in Seq(S)
        /\ <<a, b, c, d>> \in Seq(S)
    OBVIOUS
  <2>2. /\ Len(<<a, b, c>>) = 3 /\ Len(<<d>>) = 1
        /\ Len(<<a, b, c, d>>) = Len(<<a, b, c>>) + Len(<<d>>)
    OBVIOUS
  <2>3. \A i \in 1..Len(<<a, b, c>>) : <<a, b, c, d>>[i] = <<a, b, c>>[i]
    OBVIOUS
  <2>4. \A i \in 1..Len(<<d>>) : <<a, b, c, d>>[Len(<<a, b, c>>) + i] = <<d>>[i]
    OBVIOUS
  <2> HIDE DEF S
  <2>5. QED BY ONLY <2>1, <2>2, <2>3, <2>4, Longer, Zenon
<1>4. \A a, b, c, d, e : <<a>> \o <<b, c, d, e>> = <<a, b, c, d, e>>
  <2> SUFFICES ASSUME NEW a, NEW b, NEW c, NEW d, NEW e
               PROVE  <<a>> \o <<b, c, d, e>> = <<a, b, c, d, e>>
    OBVIOUS
  <2> DEFINE S == {a, b, c, d, e}
  <2>1. /\ <<a>> \in Seq(S) /\ <<b, c, d, e>> \in Seq(S)
        /\ <<a, b, c, d, e>> \in Seq(S)
    OBVIOUS
  <2>2. /\ Len(<<a>>) = 1 /\ Len(<<b, c, d, e>>) = 4
        /\ Len(<<a, b, c, d, e>>) = Len(<<a>>) + Len(<<b, c, d, e>>)
    OBVIOUS
  <2>3. \A i \in 1..Len(<<a>>) : <<a, b, c, d, e>>[i] = <<a>>[i]
    OBVIOUS
  <2>4. \A i \in 1..Len(<<b, c, d, e>>) : <<a, b, c, d, e>>[Len(<<a>>) + i] = <<b, c, d, e>>[i]
    OBVIOUS
  <2> HIDE DEF S
  <2>5. QED BY ONLY <2>1, <2>2, <2>3, <2>4, Longer, Zenon
<1>5. \A a : <<>> \o <<a>> = <<a>> /\ <<a>> \o <<>> = <<a>>
  OBVIOUS
<1>6. \A a, b : <<>> \o <<a, b>> = <<a, b>>
  OBVIOUS
<1>7. \A a, b, c : <<>> \o <<a, b, c>> = <<a, b, c>> /\ <<a, b, c>> \o <<>> = <<a, b, c>>
  OBVIOUS
<1>8. \A a, b, c, d : <<>> \o <<a, b, c, d>> = <<a, b, c, d>>
  OBVIOUS
<1>9. QED BY <1>1, <1>2, <1>3, <1>4, <1>5, <1>6, <1>7, <1>8

-----------------------------------------------------------------------------
(* One command *)

\* What the step of a job does is told by the command it awaits.
LEMMA WhatCommandDoes ==
  ASSUME NEW j, RedisStep(j)
  PROVE  LET op == Command(j).op
         IN /\ Active(j)
            /\ op = "setKey" => /\ keys' = keys \cup {Command(j).of} /\ Proceed(j)
                                /\ UNCHANGED <<members, told>>
            /\ op = "delKey" => /\ keys' = keys \ {Command(j).of} /\ Proceed(j)
                                /\ UNCHANGED <<members, told>>
            /\ op = "add" => /\ members' = members \cup {Command(j).of} /\ Proceed(j)
                             /\ UNCHANGED <<keys, told>>
            /\ op = "remove" => /\ members' = members \ {Command(j).of} /\ Proceed(j)
                                /\ UNCHANGED <<keys, told>>
            /\ op = "delMembers" => members' = {} /\ Proceed(j) /\ UNCHANGED <<keys, told>>
            /\ op \in {"setOnline", "delOnline"} => Proceed(j) /\ UNCHANGED <<keys, members, told>>
            /\ op = "members" => ReadMembers(j)
            /\ op = "check" => CheckMember(j)
            /\ op = "card" => CountMembers(j)
            /\ op = "decide" => Decide(j)
            /\ op \in {"online", "offline"} => /\ told' = [told EXCEPT ![NamespaceOf(j[2])] = op]
                                              /\ Proceed(j) /\ UNCHANGED <<keys, members>>
<1> DEFINE op == Command(j).op
<1>1. CASE WriteKey(j)
  BY <1>1 DEF WriteKey, Doing
<1>2. CASE WriteMembers(j)
  BY <1>2 DEF WriteMembers, Doing
<1>3. CASE WriteOnline(j)
  BY <1>3 DEF WriteOnline, Doing
<1>4. CASE ReadMembers(j)
  BY <1>4 DEF ReadMembers, Doing
<1>5. CASE CheckMember(j)
  BY <1>5 DEF CheckMember, Doing
<1>6. CASE CountMembers(j)
  BY <1>6 DEF CountMembers, Doing
<1>7. CASE Decide(j)
  BY <1>7 DEF Decide, Doing
<1>8. CASE Tell(j)
  BY <1>8 DEF Tell, Doing, redis
<1>9. QED BY <1>1, <1>2, <1>3, <1>4, <1>5, <1>6, <1>7, <1>8 DEF RedisStep

\* The step of job j has left it with this list; the other jobs stay.
Left(j, rest, count) ==
  /\ Typed'
  /\ jobs'[j].todo = rest
  /\ rest # <<>> => jobs'[j].count = count
  /\ \A i \in JobIds \ {j} : jobs'[i] = jobs[i]
  /\ UNCHANGED <<link, turned, calm>>
  /\ Open' = Open

\* A step that puts commands before the rest of the list leaves just those.
LEMMA Continued ==
  ASSUME Typed, NEW j \in JobIds, NEW more, NEW count, Continue(j, more, count)
  PROVE  Left(j, more \o Tail(jobs[j].todo), count)
<1> DEFINE rest == more \o Tail(jobs[j].todo)
<1>1. /\ jobs' = [jobs EXCEPT ![j] = IF rest = <<>> THEN Done ELSE [todo |-> rest, count |-> count]]
      /\ UNCHANGED <<link, turned, calm>>
  BY DEF Continue
<1> HIDE DEF rest
<1>2. DOMAIN jobs = JobIds
  BY DEF Typed
<1>3. /\ jobs'[j] = IF rest = <<>> THEN Done ELSE [todo |-> rest, count |-> count]
      /\ \A i \in JobIds \ {j} : jobs'[i] = jobs[i]
      /\ jobs' = [i \in JobIds |-> jobs'[i]]
  BY <1>1, <1>2
<1>4. jobs'[j].todo = rest /\ (rest # <<>> => jobs'[j].count = count)
  BY <1>3 DEF Done
<1>5. Typed' /\ Open' = Open
  BY <1>1, <1>3 DEF Typed, Open
<1>6. Left(j, rest, count)
  BY <1>1, <1>3, <1>4, <1>5 DEF Left
<1>7. QED BY <1>6 DEF rest

\* The next command of the list, and nothing before it.
LEMMA Proceeded ==
  ASSUME Typed, NEW j \in JobIds, Proceed(j),
         NEW rest, Tail(jobs[j].todo) = rest, <<>> \o rest = rest
  PROVE  Left(j, rest, jobs[j].count)
<1>1. Left(j, <<>> \o Tail(jobs[j].todo), jobs[j].count)
  BY Continued DEF Proceed
<1>2. QED BY <1>1

\* Reading the members of a set, and then checking one after the other.
LEMMA MembersRead ==
  ASSUME Typed, NEW j \in JobIds, ReadMembers(j), NEW rest, Tail(jobs[j].todo) = rest,
         <<>> \o rest = rest
  PROVE  /\ UNCHANGED <<keys, members, told>>
         /\ Left(j, IF members = {} THEN rest ELSE <<Check(members)>> \o rest, 0)
<1>1. UNCHANGED <<keys, members, told>>
  BY DEF ReadMembers, redis
<1>2. Continue(j, IF members = {} THEN <<>> ELSE <<Check(members)>>, 0)
  BY DEF ReadMembers, Check
<1>3. Left(j, (IF members = {} THEN <<>> ELSE <<Check(members)>>) \o rest, 0)
  BY <1>2, Continued
<1>4. QED BY <1>1, <1>3

\* A member that has a key is counted.
LEMMA MemberChecked ==
  ASSUME Typed, NEW j \in JobIds, CheckMember(j), NEW rest, Tail(jobs[j].todo) = rest,
         <<>> \o rest = rest, NEW left, Command(j) = Check(left), left \subseteq keys
  PROVE  /\ UNCHANGED <<keys, members, told>>
         /\ \E s \in left :
              Left(j, IF left \ {s} = {} THEN rest ELSE <<Check(left \ {s})>> \o rest, jobs[j].count + 1)
<1>1. UNCHANGED <<keys, members, told>>
  BY DEF CheckMember, redis
<1>2. Command(j).left = left
  BY DEF Check
<1>3. PICK s \in left :
        Continue(j, IF left \ {s} = {} THEN <<>> ELSE <<Check(left \ {s})>>, jobs[j].count + 1)
  BY <1>2 DEF CheckMember, Check
<1>4. Left(j, (IF left \ {s} = {} THEN <<>> ELSE <<Check(left \ {s})>>) \o rest, jobs[j].count + 1)
  BY <1>3, Continued
<1>5. QED BY <1>1, <1>4

-----------------------------------------------------------------------------
(* The jobs.  Each lemma goes through the commands of one of them.          *)

\* Redis and the others know the open sockets.
Right == Holds(Open) /\ Said(Open)

\* The step of a job has left it with some list.
Goes(j) == \E rest, count : Left(j, rest, count)

\* register: the key, the set, the mark, the count, and what it tells.
LEMMA RegisterGoesOn ==
  ASSUME PresenceAssumption, Typed, Addressed, NEW s \in Sockets, NEW j, j = <<"register", s>>,
         Registering(s, jobs[j].todo), RedisStep(j)
  PROVE  /\ Goes(j)
         /\ Registering(s, jobs[j].todo)' \/ (jobs'[j].todo = <<>> /\ Right')
<1> DEFINE todo == jobs[j].todo
           others == Open \ {s}
           Last1 == <<Plain("card")>>
           Last2 == <<Plain("setOnline"), Plain("card")>>
           Last3 == <<Add(s), Plain("setOnline"), Plain("card")>>
           Last4 == <<SetKey(s), Add(s), Plain("setOnline"), Plain("card")>>
           Checking(left) == <<Check(left), SetKey(s), Add(s), Plain("setOnline"), Plain("card")>>
<1>1. s \in Open /\ j \in JobIds /\ Besides(others, s)
  BY DEF Registering, JobIds
<1>2. /\ <<>> \o <<>> = <<>> /\ <<>> \o Last1 = Last1 /\ <<>> \o Last2 = Last2
      /\ <<>> \o Last3 = Last3 /\ <<>> \o Last4 = Last4
      /\ \A left : <<Check(left)>> \o Last4 = Checking(left)
  BY Joins
<1>3. CASE Holds(others) /\ todo = RegisterSocket(s)
  <2>1. todo = <<Plain("members"), SetKey(s), Add(s), Plain("setOnline"), Plain("card")>>
    BY <1>3, Joins DEF RegisterSocket, Prune, Plain, SetKey, Add
  <2>2. Command(j) = Plain("members") /\ Tail(todo) = Last4
    BY <2>1, Lists DEF Command
  <2>3. ReadMembers(j)
    BY <2>2, WhatCommandDoes DEF Plain
  <2>4. /\ UNCHANGED <<keys, members, told>>
        /\ Left(j, IF members = {} THEN Last4 ELSE <<Check(members)>> \o Last4, 0)
    BY <1>1, <1>2, <2>2, <2>3, MembersRead
  <2>5. Left(j, IF members = {} THEN Last4 ELSE Checking(members), 0)
    BY <1>2, <2>4
  <2>6. Holds(others)' /\ Besides(others, s)'
    BY <1>1, <1>3, <2>4, <2>5 DEF Holds, Besides, Left
  <2>7. jobs'[j].todo = Last4 \/ \E left \in (SUBSET others) \ {{}} : jobs'[j].todo = Checking(left)
    BY <1>3, <2>5 DEF Holds, Left
  <2>8. Registering(s, jobs[j].todo)'
    BY <1>1, <2>5, <2>6, <2>7 DEF Registering, Left
  <2>9. QED BY <2>5, <2>8 DEF Goes
<1>4. ASSUME Holds(others), NEW left \in (SUBSET others) \ {{}}, todo = Checking(left)
      PROVE  Goes(j) /\ Registering(s, jobs[j].todo)'
  <2>1. Command(j) = Check(left) /\ Tail(todo) = Last4
    BY <1>4, Lists DEF Command
  <2>2. CheckMember(j)
    BY <2>1, WhatCommandDoes DEF Check
  <2>3. left \subseteq keys
    BY <1>4 DEF Holds
  <2>4. UNCHANGED <<keys, members, told>>
    BY <1>1, <1>2, <2>1, <2>2, <2>3, MemberChecked
  <2>5. PICK x \in left :
          Left(j, IF left \ {x} = {} THEN Last4 ELSE <<Check(left \ {x})>> \o Last4, jobs[j].count + 1)
    BY <1>1, <1>2, <2>1, <2>2, <2>3, MemberChecked
  <2>6. Left(j, IF left \ {x} = {} THEN Last4 ELSE Checking(left \ {x}), jobs[j].count + 1)
    BY <1>2, <2>5
  <2>7. Holds(others)' /\ Besides(others, s)'
    BY <1>1, <1>4, <2>4, <2>6 DEF Holds, Besides, Left
  <2>8. jobs'[j].todo = Last4 \/ \E rest \in (SUBSET others) \ {{}} : jobs'[j].todo = Checking(rest)
    BY <2>6 DEF Left
  <2>9. Registering(s, jobs[j].todo)'
    BY <1>1, <2>6, <2>7, <2>8 DEF Registering, Left
  <2>10. QED BY <2>6, <2>9 DEF Goes
<1>5. CASE Holds(others) /\ todo = Last4
  <2>1. Command(j) = SetKey(s) /\ Tail(todo) = Last3
    BY <1>5, Lists DEF Command
  <2>2. keys' = keys \cup {s} /\ Proceed(j) /\ UNCHANGED <<members, told>>
    BY <2>1, WhatCommandDoes DEF SetKey
  <2>3. Left(j, Last3, jobs[j].count)
    BY <1>1, <1>2, <2>1, <2>2, Proceeded
  <2>4. keys' = Open' /\ members' = others' /\ Besides(others, s)'
    BY <1>1, <1>5, <2>2, <2>3 DEF Holds, Besides, Left
  <2>5. Registering(s, jobs[j].todo)'
    BY <1>1, <2>3, <2>4 DEF Registering, Left
  <2>6. QED BY <2>3, <2>5 DEF Goes
<1>6. CASE keys = Open /\ members = others /\ todo = Last3
  <2>1. Command(j) = Add(s) /\ Tail(todo) = Last2
    BY <1>6, Lists DEF Command
  <2>2. members' = members \cup {s} /\ Proceed(j) /\ UNCHANGED <<keys, told>>
    BY <2>1, WhatCommandDoes DEF Add
  <2>3. Left(j, Last2, jobs[j].count)
    BY <1>1, <1>2, <2>1, <2>2, Proceeded
  <2>4. Holds(Open)' /\ Besides(others, s)'
    BY <1>1, <1>6, <2>2, <2>3 DEF Holds, Besides, Left
  <2>5. Registering(s, jobs[j].todo)'
    BY <1>1, <2>3, <2>4 DEF Registering, Left
  <2>6. QED BY <2>3, <2>5 DEF Goes
<1>7. CASE Holds(Open) /\ todo = Last2
  <2>1. Command(j) = Plain("setOnline") /\ Tail(todo) = Last1
    BY <1>7, Lists DEF Command
  <2>2. Proceed(j) /\ UNCHANGED <<keys, members, told>>
    BY <2>1, WhatCommandDoes DEF Plain
  <2>3. Left(j, Last1, jobs[j].count)
    BY <1>1, <1>2, <2>1, <2>2, Proceeded
  <2>4. Holds(Open)' /\ Besides(others, s)'
    BY <1>1, <1>7, <2>2, <2>3 DEF Holds, Besides, Left
  <2>5. Registering(s, jobs[j].todo)'
    BY <1>1, <2>3, <2>4 DEF Registering, Left
  <2>6. QED BY <2>3, <2>5 DEF Goes
<1>8. CASE Holds(Open) /\ todo = Last1
  <2>1. Command(j) = Plain("card") /\ Tail(todo) = <<>>
    BY <1>8, Lists DEF Command
  <2>2. CountMembers(j)
    BY <2>1, WhatCommandDoes DEF Plain
  <2>3. Continue(j, AfterRegistering(Cardinality(Open)), 0) /\ UNCHANGED <<keys, members, told>>
    BY <1>8, <2>2 DEF CountMembers, Holds, redis
  <2>4. Cardinality(Open) = 1 <=> others = {}
    <3>1. IsFiniteSet(Open) /\ Open # {}
      BY <1>1, FS_Subset DEF Open, PresenceAssumption
    <3>2. Cardinality(Open) = 1 <=> \E x : Open = {x}
      BY <3>1, FS_Singleton
    <3>3. QED BY <1>1, <3>2
  <2>5. CASE others = {}
    <3>1. AfterRegistering(Cardinality(Open)) = <<Plain("online")>>
      BY <2>4, <2>5 DEF AfterRegistering, Plain
    <3>2. Left(j, <<Plain("online")>> \o Tail(todo), 0)
      BY <1>1, <2>3, <3>1, Continued
    <3>3. Left(j, <<Plain("online")>>, 0)
      BY <2>1, <3>2, Joins
    <3>4. Holds(Open)' /\ others' = {} /\ Besides(others, s)'
      BY <1>1, <1>8, <2>3, <2>5, <3>3 DEF Holds, Besides, Left
    <3>5. Registering(s, jobs[j].todo)'
      BY <1>1, <3>3, <3>4 DEF Registering, Left
    <3>6. QED BY <3>3, <3>5 DEF Goes
  <2>6. CASE others # {}
    <3>1. AfterRegistering(Cardinality(Open)) = <<>>
      BY <2>4, <2>6 DEF AfterRegistering
    <3>2. Left(j, <<>> \o Tail(todo), 0)
      BY <1>1, <2>3, <3>1, Continued
    <3>3. Left(j, <<>>, 0)
      BY <1>2, <2>1, <3>2
    <3>4. Right'
      BY <1>1, <1>8, <2>3, <2>6, <3>3 DEF Right, Holds, Said, Besides, Left
    <3>5. QED BY <3>3, <3>4 DEF Goes, Left
  <2>7. QED BY <2>5, <2>6
<1>9. CASE Holds(Open) /\ others = {} /\ todo = <<Plain("online")>>
  <2>1. Command(j) = Plain("online") /\ Tail(todo) = <<>>
    BY <1>9, Lists DEF Command
  <2>2. /\ told' = [told EXCEPT ![NamespaceOf(s)] = "online"]
        /\ Proceed(j) /\ UNCHANGED <<keys, members>>
    BY <2>1, WhatCommandDoes DEF Plain
  <2>3. Left(j, <<>>, jobs[j].count)
    BY <1>1, <1>2, <2>1, <2>2, Proceeded
  <2>4. told'[turned'] = "online"
    BY <1>1, <1>9, <2>2, <2>3 DEF Besides, Left, Addressed, NamespaceOf, Namespaces
  <2>5. Right'
    BY <1>1, <1>9, <2>2, <2>3, <2>4 DEF Right, Holds, Said, Left
  <2>6. QED BY <2>3, <2>5 DEF Goes, Left
<1>10. QED BY <1>3, <1>4, <1>5, <1>6, <1>7, <1>8, <1>9 DEF Registering

\* A heartbeat writes again what Redis knows.
LEMMA TouchGoesOn ==
  ASSUME Typed, NEW s \in Sockets, NEW j, j = <<"touch", s>>,
         Touching(s, jobs[j].todo), RedisStep(j)
  PROVE  /\ Goes(j)
         /\ Touching(s, jobs[j].todo)' \/ (jobs'[j].todo = <<>> /\ Right')
<1> DEFINE todo == jobs[j].todo
           Last1 == <<Plain("setOnline")>>
           Last2 == <<Add(s), Plain("setOnline")>>
<1>1. s \in Open /\ j \in JobIds /\ keys = Open /\ members = Open /\ Said(Open)
  BY DEF Touching, JobIds, Holds
<1>2. <<>> \o <<>> = <<>> /\ <<>> \o Last1 = Last1 /\ <<>> \o Last2 = Last2
  BY Joins
<1>3. CASE todo = TouchSocket(s)
  <2>1. todo = <<SetKey(s), Add(s), Plain("setOnline")>>
    BY <1>3 DEF TouchSocket, SetKey, Add, Plain
  <2>2. Command(j) = SetKey(s) /\ Tail(todo) = Last2
    BY <2>1, Lists DEF Command
  <2>3. keys' = keys \cup {s} /\ Proceed(j) /\ UNCHANGED <<members, told>>
    BY <2>2, WhatCommandDoes DEF SetKey
  <2>4. Left(j, Last2, jobs[j].count)
    BY <1>1, <1>2, <2>2, <2>3, Proceeded
  <2>5. Touching(s, jobs[j].todo)'
    BY <1>1, <2>3, <2>4 DEF Touching, Left, Holds, Said
  <2>6. QED BY <2>4, <2>5 DEF Goes
<1>4. CASE todo = Last2
  <2>1. Command(j) = Add(s) /\ Tail(todo) = Last1
    BY <1>4, Lists DEF Command
  <2>2. members' = members \cup {s} /\ Proceed(j) /\ UNCHANGED <<keys, told>>
    BY <2>1, WhatCommandDoes DEF Add
  <2>3. Left(j, Last1, jobs[j].count)
    BY <1>1, <1>2, <2>1, <2>2, Proceeded
  <2>4. Touching(s, jobs[j].todo)'
    BY <1>1, <2>2, <2>3 DEF Touching, Left, Holds, Said
  <2>5. QED BY <2>3, <2>4 DEF Goes
<1>5. CASE todo = Last1
  <2>1. Command(j) = Plain("setOnline") /\ Tail(todo) = <<>>
    BY <1>5, Lists DEF Command
  <2>2. Proceed(j) /\ UNCHANGED <<keys, members, told>>
    BY <2>1, WhatCommandDoes DEF Plain
  <2>3. Left(j, <<>>, jobs[j].count)
    BY <1>1, <1>2, <2>1, <2>2, Proceeded
  <2>4. Right'
    BY <1>1, <2>2, <2>3 DEF Right, Left, Holds, Said
  <2>5. QED BY <2>3, <2>4 DEF Goes, Left
<1>6. QED BY <1>3, <1>4, <1>5 DEF Touching

\* unregister: what it removes, what is left of the others, and what it tells.
LEMMA UnregisterGoesOn ==
  ASSUME Typed, Addressed, NEW s \in Sockets, NEW j, j = <<"unregister", s>>,
         Unregistering(s, jobs[j].todo, jobs[j].count), RedisStep(j)
  PROVE  /\ Goes(j)
         /\ Unregistering(s, jobs[j].todo, jobs[j].count)' \/ (jobs'[j].todo = <<>> /\ Right')
<1> DEFINE todo == jobs[j].todo
           count == jobs[j].count
           Last1 == <<Plain("decide")>>
           Last2 == <<Plain("members"), Plain("decide")>>
           Last3 == <<Remove(s), Plain("members"), Plain("decide")>>
           Gone1 == <<Plain("offline")>>
           Gone2 == <<Plain("delMembers"), Plain("offline")>>
           Checking(left) == <<Check(left), Plain("decide")>>
           Goal == /\ Goes(j)
                   /\ \/ Unregistering(s, jobs[j].todo, jobs[j].count)'
                      \/ jobs'[j].todo = <<>> /\ Right'
<1>1. s \in Sockets \ Open /\ j \in JobIds /\ Besides(Open, s)
  BY DEF Unregistering, JobIds
<1>2. /\ <<>> \o <<>> = <<>> /\ <<>> \o Last1 = Last1 /\ <<>> \o Last2 = Last2
      /\ <<>> \o Last3 = Last3 /\ <<>> \o Gone1 = Gone1 /\ <<>> \o Gone2 = Gone2
      /\ \A left : <<Check(left)>> \o Last1 = Checking(left)
  BY Joins
<1>3. CASE Holds(Open \cup {s}) /\ todo = UnregisterSocket(s)
  <2>1. todo = <<DelKey(s), Remove(s), Plain("members"), Plain("decide")>>
    <3>1. todo = <<DelKey(s), Remove(s)>> \o <<Plain("members")>> \o <<Plain("decide")>>
      BY <1>3 DEF UnregisterSocket, Prune, DelKey, Remove, Plain
    <3>2. /\ <<DelKey(s), Remove(s)>> \o <<Plain("members")>> = <<DelKey(s), Remove(s), Plain("members")>>
          /\ <<DelKey(s), Remove(s), Plain("members")>> \o <<Plain("decide")>>
               = <<DelKey(s), Remove(s), Plain("members"), Plain("decide")>>
      BY Joins
    <3>3. QED BY <3>1, <3>2
  <2>2. Command(j) = DelKey(s) /\ Tail(todo) = Last3
    BY <2>1, Lists DEF Command
  <2>3. keys' = keys \ {s} /\ Proceed(j) /\ UNCHANGED <<members, told>>
    BY <2>2, WhatCommandDoes DEF DelKey
  <2>4. Left(j, Last3, count)
    BY <1>1, <1>2, <2>2, <2>3, Proceeded
  <2>5. keys' = Open' /\ members' = (Open \cup {s})' /\ Besides(Open, s)' /\ s \in Sockets \ Open'
    BY <1>1, <1>3, <2>3, <2>4 DEF Holds, Besides, Left
  <2>6. Unregistering(s, jobs[j].todo, jobs[j].count)'
    BY <2>4, <2>5 DEF Unregistering, Left
  <2>7. QED BY <2>4, <2>6 DEF Goes
<1>4. CASE keys = Open /\ members = Open \cup {s} /\ todo = Last3
  <2>1. Command(j) = Remove(s) /\ Tail(todo) = Last2
    BY <1>4, Lists DEF Command
  <2>2. members' = members \ {s} /\ Proceed(j) /\ UNCHANGED <<keys, told>>
    BY <2>1, WhatCommandDoes DEF Remove
  <2>3. Left(j, Last2, count)
    BY <1>1, <1>2, <2>1, <2>2, Proceeded
  <2>4. Holds(Open)' /\ Besides(Open, s)' /\ s \in Sockets \ Open'
    BY <1>1, <1>4, <2>2, <2>3 DEF Holds, Besides, Left
  <2>5. Unregistering(s, jobs[j].todo, jobs[j].count)'
    BY <2>3, <2>4 DEF Unregistering, Left
  <2>6. QED BY <2>3, <2>5 DEF Goes
<1>5. CASE Holds(Open) /\ todo = Last2
  <2>1. Command(j) = Plain("members") /\ Tail(todo) = Last1
    BY <1>5, Lists DEF Command
  <2>2. ReadMembers(j)
    BY <2>1, WhatCommandDoes DEF Plain
  <2>3. /\ UNCHANGED <<keys, members, told>>
        /\ Left(j, IF members = {} THEN Last1 ELSE <<Check(members)>> \o Last1, 0)
    BY <1>1, <1>2, <2>1, <2>2, MembersRead
  <2>4. Left(j, IF Open = {} THEN Last1 ELSE Checking(Open), 0)
    BY <1>2, <1>5, <2>3 DEF Holds
  <2>5. Holds(Open)' /\ Besides(Open, s)' /\ s \in Sockets \ Open'
    BY <1>1, <1>5, <2>3, <2>4 DEF Holds, Besides, Left
  <2>6. jobs'[j].count = 0
    BY <2>4, Lists DEF Left
  <2>7. CASE Open = {}
    <3>1. jobs'[j].todo = Last1 /\ Open' = {}
      BY <2>4, <2>7 DEF Left
    <3>2. Unregistering(s, jobs[j].todo, jobs[j].count)'
      BY <2>5, <2>6, <3>1 DEF Unregistering
    <3>3. QED BY <2>4, <3>2 DEF Goes
  <2>8. CASE Open # {}
    <3>1. jobs'[j].todo = Checking(Open') /\ Open' \in (SUBSET Open') \ {{}}
      BY <2>4, <2>8 DEF Left
    <3>2. Unregistering(s, jobs[j].todo, jobs[j].count)'
      BY <2>5, <2>6, <3>1 DEF Unregistering
    <3>3. QED BY <2>4, <3>2 DEF Goes
  <2>9. QED BY <2>7, <2>8
<1>6. ASSUME Holds(Open), count \in Nat, NEW left \in (SUBSET Open) \ {{}}, todo = Checking(left),
             count = 0 => left = Open
      PROVE  Goal
  <2>1. Command(j) = Check(left) /\ Tail(todo) = Last1
    BY <1>6, Lists DEF Command
  <2>2. CheckMember(j)
    BY <2>1, WhatCommandDoes DEF Check
  <2>3. left \subseteq keys
    BY <1>6 DEF Holds
  <2>4. UNCHANGED <<keys, members, told>>
    BY <1>1, <1>2, <2>1, <2>2, <2>3, MemberChecked
  <2>5. PICK x \in left :
          Left(j, IF left \ {x} = {} THEN Last1 ELSE <<Check(left \ {x})>> \o Last1, count + 1)
    BY <1>1, <1>2, <2>1, <2>2, <2>3, MemberChecked
  <2>6. Left(j, IF left \ {x} = {} THEN Last1 ELSE Checking(left \ {x}), count + 1)
    BY <1>2, <2>5
  <2>7. Holds(Open)' /\ Besides(Open, s)' /\ s \in Sockets \ Open' /\ Open' # {}
    BY <1>1, <1>6, <2>4, <2>6 DEF Holds, Besides, Left
  <2>8. jobs'[j].count = count + 1 /\ count + 1 \in Nat /\ count + 1 # 0
    BY <1>6, <2>6, Lists DEF Left
  <2>9. CASE left \ {x} = {}
    BY <2>6, <2>7, <2>8, <2>9 DEF Unregistering, Left, Goes
  <2>10. CASE left \ {x} # {}
    <3>1. jobs'[j].todo = Checking(left \ {x}) /\ left \ {x} \in (SUBSET Open') \ {{}}
      BY <2>6, <2>10 DEF Left
    <3>2. Unregistering(s, jobs[j].todo, jobs[j].count)'
      BY <2>7, <2>8, <3>1 DEF Unregistering
    <3>3. QED BY <2>6, <3>2 DEF Goes
  <2>11. QED BY <2>9, <2>10
<1>7. CASE Holds(Open) /\ count \in Nat /\ (count = 0 <=> Open = {}) /\ todo = Last1
  <2>1. Command(j) = Plain("decide") /\ Tail(todo) = <<>>
    BY <1>7, Lists DEF Command
  <2>2. Decide(j)
    BY <2>1, WhatCommandDoes DEF Plain
  <2>3. Continue(j, AfterCounting(count), 0) /\ UNCHANGED <<keys, members, told>>
    BY <2>2 DEF Decide, redis
  <2>4. Left(j, AfterCounting(count) \o <<>>, 0)
    BY <1>1, <2>1, <2>3, Continued
  <2>5. CASE Open = {}
    <3>1. AfterCounting(count) = AfterCounting(0)
      BY <1>7, <2>5
    <3>2. AfterCounting(0) \o <<>> = AfterCounting(0)
      BY Joins DEF AfterCounting
    <3>3. Left(j, AfterCounting(0), 0)
      BY <2>4, <3>1, <3>2
    <3>4. Unregistering(s, jobs[j].todo, jobs[j].count)'
      BY <1>1, <1>7, <2>3, <2>5, <3>3 DEF Unregistering, Left, Holds, Besides
    <3>5. QED BY <3>3, <3>4 DEF Goes
  <2>6. CASE Open # {}
    <3>1. AfterCounting(count) = <<Plain("setOnline")>>
      BY <1>7, <2>6 DEF AfterCounting, Plain
    <3>2. Left(j, <<Plain("setOnline")>>, 0)
      BY <2>4, <3>1, Joins
    <3>3. Unregistering(s, jobs[j].todo, jobs[j].count)'
      BY <1>1, <1>7, <2>3, <2>6, <3>2 DEF Unregistering, Left, Holds, Besides
    <3>4. QED BY <3>2, <3>3 DEF Goes
  <2>7. QED BY <2>5, <2>6
<1>8. CASE Holds(Open) /\ Open # {} /\ todo = <<Plain("setOnline")>>
  <2>1. Command(j) = Plain("setOnline") /\ Tail(todo) = <<>>
    BY <1>8, Lists DEF Command
  <2>2. Proceed(j) /\ UNCHANGED <<keys, members, told>>
    BY <2>1, WhatCommandDoes DEF Plain
  <2>3. Left(j, <<>>, count)
    BY <1>1, <1>2, <2>1, <2>2, Proceeded
  <2>4. Right'
    BY <1>1, <1>8, <2>2, <2>3 DEF Right, Left, Holds, Said, Besides
  <2>5. QED BY <2>3, <2>4 DEF Goes, Left
<1>9. CASE Holds(Open) /\ Open = {} /\ todo = AfterCounting(0)
  <2>1. todo = <<Plain("delOnline"), Plain("delMembers"), Plain("offline")>>
    BY <1>9 DEF AfterCounting, Plain
  <2>2. Command(j) = Plain("delOnline") /\ Tail(todo) = Gone2
    BY <2>1, Lists DEF Command
  <2>3. Proceed(j) /\ UNCHANGED <<keys, members, told>>
    BY <2>2, WhatCommandDoes DEF Plain
  <2>4. Left(j, Gone2, count)
    BY <1>1, <1>2, <2>2, <2>3, Proceeded
  <2>5. Unregistering(s, jobs[j].todo, jobs[j].count)'
    BY <1>1, <1>9, <2>3, <2>4 DEF Unregistering, Left, Holds, Besides
  <2>6. QED BY <2>4, <2>5 DEF Goes
<1>10. CASE Holds(Open) /\ Open = {} /\ todo = Gone2
  <2>1. Command(j) = Plain("delMembers") /\ Tail(todo) = Gone1
    BY <1>10, Lists DEF Command
  <2>2. members' = {} /\ Proceed(j) /\ UNCHANGED <<keys, told>>
    BY <2>1, WhatCommandDoes DEF Plain
  <2>3. Left(j, Gone1, count)
    BY <1>1, <1>2, <2>1, <2>2, Proceeded
  <2>4. Unregistering(s, jobs[j].todo, jobs[j].count)'
    BY <1>1, <1>10, <2>2, <2>3 DEF Unregistering, Left, Holds, Besides
  <2>5. QED BY <2>3, <2>4 DEF Goes
<1>11. CASE Holds(Open) /\ Open = {} /\ todo = Gone1
  <2>1. Command(j) = Plain("offline") /\ Tail(todo) = <<>>
    BY <1>11, Lists DEF Command
  <2>2. /\ told' = [told EXCEPT ![NamespaceOf(s)] = "offline"]
        /\ Proceed(j) /\ UNCHANGED <<keys, members>>
    BY <2>1, WhatCommandDoes DEF Plain
  <2>3. Left(j, <<>>, count)
    BY <1>1, <1>2, <2>1, <2>2, Proceeded
  <2>4. told'[turned'] = "offline"
    BY <1>1, <1>11, <2>2, <2>3 DEF Besides, Left, Addressed, NamespaceOf, Namespaces
  <2>5. Right'
    BY <1>11, <2>2, <2>3, <2>4 DEF Right, Left, Holds, Said
  <2>6. QED BY <2>3, <2>5 DEF Goes, Left
<1>12. QED BY <1>3, <1>4, <1>5, <1>6, <1>7, <1>8, <1>9, <1>10, <1>11 DEF Unregistering

\* A question removes nothing as long as every member of the set has its key.
LEMMA QueryGoesOn ==
  ASSUME Typed, NEW j, j = <<"query", Nobody>>, Asking(jobs[j].todo), RedisStep(j)
  PROVE  /\ Goes(j)
         /\ Asking(jobs[j].todo)' \/ (jobs'[j].todo = <<>> /\ Right')
<1> DEFINE todo == jobs[j].todo
<1>1. j \in JobIds /\ keys = Open /\ members = Open /\ Said(Open)
  BY DEF Asking, JobIds, Holds
<1>2. <<>> \o <<>> = <<>> /\ \A left : <<Check(left)>> \o <<>> = <<Check(left)>>
  BY Joins
<1>3. CASE todo = Prune
  <2>1. Command(j) = Plain("members") /\ Tail(todo) = <<>>
    BY <1>3, Lists DEF Command, Prune, Plain
  <2>2. ReadMembers(j)
    BY <2>1, WhatCommandDoes DEF Plain
  <2>3. /\ UNCHANGED <<keys, members, told>>
        /\ Left(j, IF members = {} THEN <<>> ELSE <<Check(members)>> \o <<>>, 0)
    BY <1>1, <1>2, <2>1, <2>2, MembersRead
  <2>4. Left(j, IF Open = {} THEN <<>> ELSE <<Check(Open)>>, 0)
    BY <1>1, <1>2, <2>3
  <2>5. Holds(Open)' /\ Said(Open)'
    BY <1>1, <2>3, <2>4 DEF Holds, Said, Left
  <2>6. CASE Open = {}
    BY <2>4, <2>5, <2>6 DEF Right, Left, Goes
  <2>7. CASE Open # {}
    <3>1. jobs'[j].todo = <<Check(Open')>> /\ Open' \in (SUBSET Open') \ {{}}
      BY <2>4, <2>7 DEF Left
    <3>2. QED BY <2>4, <2>5, <3>1 DEF Asking, Goes
  <2>8. QED BY <2>6, <2>7
<1>4. ASSUME NEW left \in (SUBSET Open) \ {{}}, todo = <<Check(left)>>
      PROVE  /\ Goes(j)
             /\ Asking(jobs[j].todo)' \/ (jobs'[j].todo = <<>> /\ Right')
  <2>1. Command(j) = Check(left) /\ Tail(todo) = <<>>
    BY <1>4, Lists DEF Command
  <2>2. CheckMember(j)
    BY <2>1, WhatCommandDoes DEF Check
  <2>3. left \subseteq keys
    BY <1>1
  <2>4. UNCHANGED <<keys, members, told>>
    BY <1>1, <1>2, <2>1, <2>2, <2>3, MemberChecked
  <2>5. PICK x \in left :
          Left(j, IF left \ {x} = {} THEN <<>> ELSE <<Check(left \ {x})>> \o <<>>, jobs[j].count + 1)
    BY <1>1, <1>2, <2>1, <2>2, <2>3, MemberChecked
  <2>6. Left(j, IF left \ {x} = {} THEN <<>> ELSE <<Check(left \ {x})>>, jobs[j].count + 1)
    BY <1>2, <2>5
  <2>7. Holds(Open)' /\ Said(Open)'
    BY <1>1, <2>4, <2>6 DEF Holds, Said, Left
  <2>8. CASE left \ {x} = {}
    BY <2>6, <2>7, <2>8 DEF Right, Left, Goes
  <2>9. CASE left \ {x} # {}
    <3>1. jobs'[j].todo = <<Check(left \ {x})>> /\ left \ {x} \in (SUBSET Open') \ {{}}
      BY <2>6, <2>9 DEF Left
    <3>2. QED BY <2>6, <2>7, <3>1 DEF Asking, Goes
  <2>10. QED BY <2>8, <2>9
<1>5. QED BY <1>3, <1>4 DEF Asking

-----------------------------------------------------------------------------
(* The steps *)

\* A job on its way has something left to do.
LEMMA MidwayIsActive ==
  ASSUME NEW j, Midway(j)
  PROVE  Active(j)
<1>1. \A s : RegisterSocket(s) # <<>> /\ TouchSocket(s) # <<>> /\ UnregisterSocket(s) # <<>>
  <2> TAKE s
  <2>1. RegisterSocket(s)
          = <<Plain("members"), SetKey(s), Add(s), Plain("setOnline"), Plain("card")>>
    BY Joins DEF RegisterSocket, Prune, Plain, SetKey, Add
  <2>2. UnregisterSocket(s) = <<DelKey(s), Remove(s), Plain("members"), Plain("decide")>>
    <3>1. UnregisterSocket(s) = <<DelKey(s), Remove(s)>> \o <<Plain("members")>> \o <<Plain("decide")>>
      BY DEF UnregisterSocket, Prune, DelKey, Remove, Plain
    <3>2. /\ <<DelKey(s), Remove(s)>> \o <<Plain("members")>> = <<DelKey(s), Remove(s), Plain("members")>>
          /\ <<DelKey(s), Remove(s), Plain("members")>> \o <<Plain("decide")>>
               = <<DelKey(s), Remove(s), Plain("members"), Plain("decide")>>
      BY Joins
    <3>3. QED BY <3>1, <3>2
  <2>3. TouchSocket(s) # <<>>
    BY Lists DEF TouchSocket
  <2>4. QED BY <2>1, <2>2, <2>3, Lists
<1>2. AfterCounting(0) # <<>> /\ Prune # <<>>
  BY Lists DEF AfterCounting, Prune
<1>3. \A s : Registering(s, jobs[j].todo) => Active(j)
  BY <1>1, Lists DEF Registering, Active
<1>4. \A s : Touching(s, jobs[j].todo) => Active(j)
  BY <1>1, Lists DEF Touching, Active
<1>5. ASSUME NEW s, Unregistering(s, jobs[j].todo, jobs[j].count)
      PROVE  Active(j)
  <2> DEFINE todo == jobs[j].todo
  <2>1. \/ todo = UnregisterSocket(s) \/ todo = AfterCounting(0)
        \/ \E c : todo = <<c>>
        \/ \E c, d : todo = <<c, d>>
        \/ \E c, d, e : todo = <<c, d, e>>
    BY <1>5 DEF Unregistering
  <2>2. QED BY <1>1, <1>2, <2>1, Lists DEF Active
<1>6. Asking(jobs[j].todo) => Active(j)
  BY <1>2, Lists DEF Asking, Active
<1>7. QED BY <1>3, <1>4, <1>5, <1>6 DEF Midway

\* Without a job in flight nothing is on its way.
LEMMA QuietIsSettled ==
  ASSUME Inv, calm, Quiet
  PROVE  Right
BY MidwayIsActive DEF Inv, Settled, Right, Quiet

\* Every command leaves the state typed.
LEMMA EveryStepIsTyped ==
  ASSUME Typed, NEW j \in JobIds, RedisStep(j)
  PROVE  Typed' /\ UNCHANGED calm /\ (Addressed => Addressed')
<1>1. \E more, count : Continue(j, more, count)
  <2>1. CASE \E s : CheckMember(j)
    BY <2>1 DEF CheckMember
  <2>2. QED
    BY <2>1 DEF RedisStep, WriteKey, WriteMembers, WriteOnline, ReadMembers, CountMembers,
                Decide, Tell, Proceed
<1>2. PICK more, count : Continue(j, more, count)
  BY <1>1
<1>3. UNCHANGED told \/ Tell(j)
  BY DEF RedisStep, WriteKey, WriteMembers, WriteOnline, ReadMembers, CheckMember, CountMembers,
         Decide, redis
<1>4. Addressed => Addressed'
  BY <1>3 DEF Addressed, Tell
<1>5. QED BY <1>2, <1>4, Continued DEF Left

\* The job that is midway is the only one: its step leaves it midway or is its last.
LEMMA RedisKeepsInv ==
  ASSUME PresenceAssumption, Inv, NEW j \in JobIds, RedisStep(j)
  PROVE  Inv'
<1>1. Typed /\ Typed' /\ Addressed /\ Addressed' /\ UNCHANGED calm
  BY EveryStepIsTyped DEF Inv
<1> SUFFICES ASSUME calm
             PROVE  (Settled \/ \E i \in JobIds : Alone(i) /\ Midway(i))'
  BY <1>1 DEF Inv
<1>2. Active(j)
  BY WhatCommandDoes
<1>3. Alone(j) /\ Midway(j)
  BY <1>2 DEF Inv, Settled, Quiet, Alone
<1>4. Goes(j) /\ (Midway(j)' \/ (jobs'[j].todo = <<>> /\ Right'))
  <2>1. ASSUME NEW s \in Sockets, j = <<"register", s>>, Registering(s, jobs[j].todo)
        PROVE  Goes(j) /\ (Midway(j)' \/ (jobs'[j].todo = <<>> /\ Right'))
    BY <1>1, <2>1, RegisterGoesOn DEF Midway
  <2>2. ASSUME NEW s \in Sockets, j = <<"touch", s>>, Touching(s, jobs[j].todo)
        PROVE  Goes(j) /\ (Midway(j)' \/ (jobs'[j].todo = <<>> /\ Right'))
    BY <1>1, <2>2, TouchGoesOn DEF Midway
  <2>3. ASSUME NEW s \in Sockets, j = <<"unregister", s>>,
               Unregistering(s, jobs[j].todo, jobs[j].count)
        PROVE  Goes(j) /\ (Midway(j)' \/ (jobs'[j].todo = <<>> /\ Right'))
    BY <1>1, <2>3, UnregisterGoesOn DEF Midway
  <2>4. ASSUME j = <<"query", Nobody>>, Asking(jobs[j].todo)
        PROVE  Goes(j) /\ (Midway(j)' \/ (jobs'[j].todo = <<>> /\ Right'))
    BY <1>1, <2>4, QueryGoesOn DEF Midway
  <2>5. QED BY <1>3, <2>1, <2>2, <2>3, <2>4 DEF Midway
<1>5. \A i \in JobIds \ {j} : ~Active(i)'
  BY <1>3, <1>4 DEF Goes, Left, Alone, Active
<1>6. CASE Midway(j)'
  BY <1>5, <1>6 DEF Alone
<1>7. CASE jobs'[j].todo = <<>> /\ Right'
  BY <1>5, <1>7 DEF Settled, Right, Quiet, Active
<1>8. QED BY <1>4, <1>6, <1>7

\* A socket that connects starts the only job, or it is not calm any more.
LEMMA ConnectKeepsInv ==
  ASSUME Inv, NEW s \in Sockets, Connect(s)
  PROVE  Inv'
<1> DEFINE j == <<"register", s>>
<1>1. /\ link[s] = "new" /\ link' = [link EXCEPT ![s] = "open"]
      /\ turned' = IF Open = {} THEN NamespaceOf(s) ELSE turned
      /\ UNCHANGED <<keys, members, told>>
      /\ calm' = (calm /\ Quiet /\ Cardinality({j}) <= 1)
      /\ jobs' = [i \in JobIds |-> IF i \in {j} THEN [todo |-> RegisterSocket(i[2]), count |-> 0]
                                   ELSE jobs[i]]
  BY DEF Connect, Start, redis
<1>2. Typed' /\ Addressed'
  BY <1>1 DEF Inv, Typed, Addressed
<1>3. ASSUME calm'
      PROVE  (\E i \in JobIds : Alone(i) /\ Midway(i))'
  <2>1. calm /\ Quiet
    BY <1>1, <1>3
  <2>2. Holds(Open) /\ Said(Open)
    BY <2>1, QuietIsSettled DEF Right
  <2>3. j \in JobIds /\ jobs'[j].todo = RegisterSocket(s)
    BY <1>1 DEF JobIds
  <2>4. Alone(j)'
    BY <1>1, <2>1 DEF Quiet, Alone, Active
  <2>5. s \in Open' /\ Open' \ {s} = Open
    BY <1>1 DEF Inv, Typed, Open
  <2>6. Besides(Open \ {s}, s)'
    BY <1>1, <2>2, <2>5 DEF Besides, Said
  <2>7. Registering(s, jobs[j].todo)'
    BY <1>1, <2>2, <2>3, <2>5, <2>6 DEF Registering, Holds
  <2>8. QED BY <2>3, <2>4, <2>7 DEF Midway
<1>4. QED BY <1>2, <1>3 DEF Inv

\* So does a heartbeat.
LEMMA HeartbeatKeepsInv ==
  ASSUME Inv, NEW s \in Sockets, Heartbeat(s)
  PROVE  Inv'
<1> DEFINE j == <<"touch", s>>
<1>1. /\ s \in Open
      /\ UNCHANGED <<link, keys, members, told, turned>>
      /\ calm' = (calm /\ Quiet /\ Cardinality({j}) <= 1)
      /\ jobs' = [i \in JobIds |-> IF i \in {j} THEN [todo |-> TouchSocket(i[2]), count |-> 0]
                                   ELSE jobs[i]]
  BY DEF Heartbeat, Start, redis
<1>2. Typed' /\ Addressed'
  BY <1>1 DEF Inv, Typed, Addressed
<1>3. ASSUME calm'
      PROVE  (\E i \in JobIds : Alone(i) /\ Midway(i))'
  <2>1. calm /\ Quiet
    BY <1>1, <1>3
  <2>2. Holds(Open) /\ Said(Open)
    BY <2>1, QuietIsSettled DEF Right
  <2>3. j \in JobIds /\ jobs'[j].todo = TouchSocket(s)
    BY <1>1 DEF JobIds
  <2>4. Alone(j)'
    BY <1>1, <2>1 DEF Quiet, Alone, Active
  <2>5. Touching(s, jobs[j].todo)'
    BY <1>1, <2>2, <2>3 DEF Touching, Holds, Said, Open
  <2>6. QED BY <2>3, <2>4, <2>5 DEF Midway
<1>4. QED BY <1>2, <1>3 DEF Inv

\* So does a question.
LEMMA QueryKeepsInv ==
  ASSUME Inv, GetUserPresence
  PROVE  Inv'
<1> DEFINE j == <<"query", Nobody>>
<1>1. /\ UNCHANGED <<link, keys, members, told, turned>>
      /\ calm' = (calm /\ Quiet /\ Cardinality({j}) <= 1)
      /\ jobs' = [i \in JobIds |-> IF i \in {j} THEN [todo |-> Question(i[2]), count |-> 0]
                                   ELSE jobs[i]]
  BY DEF GetUserPresence, Start, redis
<1>2. Typed' /\ Addressed'
  BY <1>1 DEF Inv, Typed, Addressed
<1>3. ASSUME calm'
      PROVE  (\E i \in JobIds : Alone(i) /\ Midway(i))'
  <2>1. calm /\ Quiet
    BY <1>1, <1>3
  <2>2. Holds(Open) /\ Said(Open)
    BY <2>1, QuietIsSettled DEF Right
  <2>3. j \in JobIds /\ jobs'[j].todo = Prune
    BY <1>1 DEF JobIds, Question
  <2>4. Alone(j)'
    BY <1>1, <2>1 DEF Quiet, Alone, Active
  <2>5. Asking(jobs[j].todo)'
    BY <1>1, <2>2, <2>3 DEF Asking, Holds, Said, Open
  <2>6. QED BY <2>3, <2>4, <2>5 DEF Midway
<1>4. QED BY <1>2, <1>3 DEF Inv

\* Sockets that close together leave the state calm only if there is one.
LEMMA CloseKeepsInv ==
  ASSUME PresenceAssumption, Inv, NEW closing, closing # {}, CloseSockets(closing)
  PROVE  Inv'
<1> DEFINE starting == {<<"unregister", s>> : s \in {x \in closing : Listening(x)}}
<1>1. /\ closing \subseteq Open
      /\ link' = [s \in Sockets |-> IF s \in closing THEN "closed" ELSE link[s]]
      /\ \E s \in closing : turned' = IF Open = closing THEN NamespaceOf(s) ELSE turned
      /\ UNCHANGED <<keys, members, told>>
      /\ calm' = (calm /\ Quiet /\ Cardinality(starting) <= 1)
      /\ jobs' = [i \in JobIds |-> IF i \in starting THEN [todo |-> UnregisterSocket(i[2]), count |-> 0]
                                   ELSE jobs[i]]
  BY DEF CloseSockets, Start, redis
<1>2. Typed' /\ Addressed'
  BY <1>1 DEF Inv, Typed, Addressed
<1>3. ASSUME calm'
      PROVE  (\E i \in JobIds : Alone(i) /\ Midway(i))'
  <2>1. calm /\ Quiet /\ Cardinality(starting) <= 1
    BY <1>1, <1>3
  <2>2. Holds(Open) /\ Said(Open)
    BY <2>1, QuietIsSettled DEF Right
  <2>3. PICK s \in closing : TRUE
    OBVIOUS
  <2>4. \A x \in closing : x \in Sockets /\ <<"unregister", x>> \in starting
    BY <1>1, <2>1 DEF Open, Quiet, Listening, JobIds
  <2>5. starting = {<<"unregister", s>>}
    <3>1. IsFiniteSet(starting)
      <4> DEFINE f == [x \in starting |-> x[2]]
      <4>1. IsFiniteSet(closing)
        BY <1>1, FS_Subset DEF Open, PresenceAssumption
      <4>2. f \in [starting -> closing]
        OBVIOUS
      <4>3. \A a, b \in starting : f[a] = f[b] => a = b
        OBVIOUS
      <4>4. f \in Injection(starting, closing)
        BY <4>2, <4>3, Zenon DEF Injection, IsInjective
      <4>5. QED BY <4>1, <4>4, FS_Injection
    <3>2. Cardinality(starting) \in Nat /\ Cardinality(starting) # 0
      BY <2>4, <3>1, FS_CardinalityType, FS_EmptySet
    <3>3. Cardinality(starting) = 1
      BY <2>1, <3>2
    <3>4. PICK x : starting = {x}
      BY <3>1, <3>3, FS_Singleton
    <3>5. QED BY <2>4, <3>4
  <2>6. closing = {s}
    BY <2>4, <2>5
  <2> DEFINE j == <<"unregister", s>>
  <2>7. j \in JobIds /\ jobs'[j].todo = UnregisterSocket(s)
    BY <1>1, <2>4, <2>5 DEF JobIds
  <2>8. Alone(j)'
    BY <1>1, <2>1, <2>5 DEF Quiet, Alone, Active
  <2>9. s \in Sockets \ Open' /\ s \in Open /\ Open = Open' \cup {s}
    BY <1>1, <2>4, <2>6 DEF Open
  <2>10. /\ Besides(Open, s)'
         /\ keys' = Open' \cup {s} /\ members' = Open' \cup {s}
    BY <1>1, <2>2, <2>6, <2>9 DEF Said, Holds, Besides
  <2>11. Unregistering(s, jobs[j].todo, jobs[j].count)'
    BY <2>7, <2>9, <2>10 DEF Unregistering, Holds
  <2>12. QED BY <2>4, <2>7, <2>8, <2>11 DEF Midway
<1>4. QED BY <1>2, <1>3 DEF Inv

\* A command that fails is not calm.
LEMMA FailureKeepsInv ==
  ASSUME Inv, NEW j \in JobIds, CommandFails(j)
  PROVE  Inv'
<1>1. /\ UNCHANGED <<link, told>> /\ ~calm'
      /\ jobs' = [jobs EXCEPT ![j] = IF j[1] = "unregister"
                                       THEN [todo |-> <<[op |-> "offline"]>>, count |-> 0]
                                     ELSE Done]
  BY DEF CommandFails
<1>2. DOMAIN jobs = JobIds
  BY DEF Inv, Typed
<1>3. jobs' = [i \in JobIds |-> jobs'[i]]
  BY <1>1, <1>2
<1>4. QED BY <1>1, <1>3 DEF Inv, Typed, Addressed

\* In a calm state no key of a closed socket is there to expire, nor a set
\* without keys.
LEMMA ExpiryKeepsInv ==
  ASSUME Inv, Expiry
  PROVE  Inv'
<1>1. UNCHANGED <<link, jobs, told, turned>>
  BY DEF Expiry, KeyExpires, OnlineExpires, MembersExpire
<1>2. Typed' /\ Addressed'
  BY <1>1 DEF Inv, Typed, Addressed
<1>3. ASSUME NEW s \in Sockets, KeyExpires(s)
      PROVE  ~calm'
  <2> SUFFICES ASSUME calm'
               PROVE  FALSE
    OBVIOUS
  <2>1. calm /\ s \notin Open /\ s \in keys /\ \A j \in JobIds : j[2] = s => ~Active(j)
    BY <1>3 DEF KeyExpires
  <2>2. ~Settled
    BY <2>1 DEF Settled, Holds
  <2>3. PICK j \in JobIds : Midway(j)
    BY <2>1, <2>2 DEF Inv
  <2>4. Active(j)
    BY <2>3, MidwayIsActive
  <2>5. \A x : Registering(x, jobs[j].todo) => FALSE
    BY <2>1 DEF Registering, Holds
  <2>6. ~Asking(jobs[j].todo) /\ \A x : ~Touching(x, jobs[j].todo)
    BY <2>1 DEF Asking, Touching, Holds
  <2>7. PICK x \in Sockets : j = <<"unregister", x>> /\ Unregistering(x, jobs[j].todo, jobs[j].count)
    BY <2>3, <2>5, <2>6 DEF Midway
  <2>8. x = s
    BY <2>1, <2>7 DEF Unregistering, Holds
  <2>9. QED BY <2>1, <2>4, <2>7, <2>8
<1>4. ASSUME OnlineExpires, calm'
      PROVE  Settled'
  <2>1. calm /\ Quiet /\ UNCHANGED <<link, keys, members, jobs, told, turned>>
    BY <1>4 DEF OnlineExpires
  <2>2. Right
    BY <2>1, QuietIsSettled
  <2>3. QED BY <2>1, <2>2 DEF Right, Settled, Holds, Said, Quiet, Active, Open
<1>5. ASSUME MembersExpire, calm'
      PROVE  FALSE
  <2>1. calm /\ Quiet /\ members # {} /\ members \cap keys = {}
    BY <1>5 DEF MembersExpire
  <2>2. QED BY <2>1, QuietIsSettled DEF Right, Holds
<1>6. QED BY <1>2, <1>3, <1>4, <1>5 DEF Expiry, Inv

\* Every step keeps the invariant.
LEMMA NextInv == PresenceAssumption /\ Inv /\ [Next]_vars => Inv'
<1> SUFFICES ASSUME PresenceAssumption, Inv, [Next]_vars
             PROVE  Inv'
  OBVIOUS
<1>1. ASSUME NEW s \in Sockets, Connect(s)
      PROVE  Inv'
  BY <1>1, ConnectKeepsInv
<1>2. ASSUME NEW s \in Sockets, Disconnect(s)
      PROVE  Inv'
  BY <1>2, CloseKeepsInv DEF Disconnect
<1>3. ASSUME NEW s \in Sockets, Heartbeat(s)
      PROVE  Inv'
  BY <1>3, HeartbeatKeepsInv
<1>4. ASSUME NEW d \in Devices, RevokeDevice(d)
      PROVE  Inv'
  BY <1>4, CloseKeepsInv DEF RevokeDevice
<1>5. CASE GetUserPresence
  BY <1>5, QueryKeepsInv
<1>6. ASSUME NEW j \in JobIds, RedisStep(j)
      PROVE  Inv'
  BY <1>6, RedisKeepsInv
<1>7. ASSUME NEW j \in JobIds, CommandFails(j)
      PROVE  Inv'
  BY <1>7, FailureKeepsInv
<1>8. CASE Expiry
  BY <1>8, ExpiryKeepsInv
<1>9. CASE UNCHANGED vars
  <2>1. UNCHANGED <<link, keys, members, jobs, told, turned, calm>>
    BY <1>9 DEF vars, redis
  <2>2. /\ (Typed /\ Addressed)' <=> Typed /\ Addressed
        /\ Settled' <=> Settled
        /\ (\E j \in JobIds : Alone(j) /\ Midway(j))' <=> \E j \in JobIds : Alone(j) /\ Midway(j)
    BY <2>1 DEF Typed, Addressed, Settled, Alone, Midway, Quiet, Active, Holds, Said, Besides, Open,
                Registering, Touching, Unregistering, Asking
  <2>3. QED BY <2>1, <2>2 DEF Inv
<1>10. QED BY <1>1, <1>2, <1>3, <1>4, <1>5, <1>6, <1>7, <1>8, <1>9 DEF Next

\* In the initial state no job is running and no key is stored.
LEMMA InitInv == Init => Inv
<1> SUFFICES ASSUME Init
             PROVE  Inv
  OBVIOUS
<1>1. Typed /\ Addressed
  BY DEF Init, Typed, Addressed
<1>2. Open = {} /\ Quiet
  BY DEF Init, Open, Quiet, Active, Done
<1>3. Settled
  BY <1>2 DEF Init, Settled, Holds, Said, Namespaces
<1>4. QED BY <1>1, <1>3 DEF Inv

\* When no two jobs have met and nothing has failed, the last presence event on
\* the namespace where the user last came or went says whether he has a socket.
THEOREM EventsTellTheTruth == Spec => []ToldIsTrue
<1>1. Inv => ToldIsTrue
  BY QuietIsSettled DEF ToldIsTrue, Right, Said
<1>2. QED BY InitInv, NextInv, PresenceAssumption, <1>1, PTL DEF Spec
=============================================================================
