---------------------------- MODULE AccountProofs ----------------------------
(***************************************************************************)
(* What sessions, tokens and mailed codes keep, for any number of users,   *)
(* devices, requests and mails: whatever the interleaving and whichever    *)
(* command fails, a password change is final; and as long as requests are  *)
(* handled one at a time, what was revoked stays dead, a user has one web  *)
(* session and the index lists every session, but for the sessions that    *)
(* have outlived an index, and a code is spent once.                       *)
(*                                                                         *)
(* The invariants are AccountTypeOK with InOrder, which the others rest    *)
(* on, PasswordInv, CalmSessions and CalmCodes, which rests on             *)
(* CalmSessions.  Every step is a command of a request that returns or     *)
(* throws, a command on a code, a request that opens, a password change    *)
(* that opens, a key of Redis that lapses, or a code that expires (lemma   *)
(* Steps).                                                                 *)
(***************************************************************************)
EXTENDS Account, FiniteSetTheorems, TLAPS

Token == [user: Users, dev: Devices, version: Nat]
SessionRow == [user: Users, dev: Devices, token: DOMAIN tokens]
Code == [mail: DOMAIN mail, attempts: Nat]
GrantRow == [user: WithEmail, mail: DOMAIN mail, nth: Nat]

\* The commands of a request, by the fields they have.
DeviceCommands == [kind: {"revokeByDevice", "unindex", "index"}, user: Users, dev: Devices]
TokenCommands == [kind: {"delRefresh", "blacklist", "getUsed", "checkSession", "consume", "markUsed"},
                  token: DOMAIN tokens]
DropCommands == [kind: {"dropRead", "dropKey"}, dev: Devices]
ListCommands == [kind: {"list"}, user: Users, only: SUBSET Devices]
CollectCommands == [kind: {"collect"}, user: Users, left: SUBSET Devices,
                    found: SUBSET SessionRow, only: SUBSET Devices]
IssueCommands == [kind: {"issue"}, token: Token, then: {"create", "update"}]
RowCommands == {c \in [kind: {"create", "update", "updateSet"}, dev: Devices, session: SessionRow] :
                  c.session.dev = c.dev}
VersionCommands == [kind: {"setVersion"}, user: Users, version: Nat \ {0}]
MailCommands == [kind: {"mail"}, user: WithEmail, purpose: Purposes]
AttemptCommands == [kind: {"attempt", "compare"}, user: WithEmail, purpose: Purposes,
                    entered: Nat, code: Code]
EffectCommands == [kind: {"verify", "reset"}, mail: DOMAIN mail]
SpendCommands == [kind: {"spend"}, grant: GrantRow]
RegisterCommands == [kind: {"register"}, user: Users]

Commands ==
  DeviceCommands \cup TokenCommands \cup DropCommands \cup ListCommands \cup CollectCommands
    \cup IssueCommands \cup RowCommands \cup VersionCommands \cup MailCommands
    \cup AttemptCommands \cup EffectCommands \cup SpendCommands \cup RegisterCommands

Request == [todo: Seq(Commands), kills: SUBSET DOMAIN tokens]

\* A request without commands is no request.
SlotsTypeOK ==
  /\ slots \in [Slots -> Request]
  /\ \A r \in Slots : slots[r].todo = <<>> => slots[r] = Idle

SessionTypeOK ==
  /\ version \in [Users -> Nat \ {0}]
  /\ sessions \in [Devices -> SessionRow \cup {NoSession}]
  /\ \A d \in Devices : HasSession(d) => sessions[d].dev = d
  /\ index \in [Users -> SUBSET Devices]
  /\ tokens \in Seq(Token)
  /\ SlotsTypeOK
  /\ calm \in BOOLEAN
  /\ revoked \subseteq DOMAIN tokens
  /\ superseded \subseteq DOMAIN tokens

CodeTypeOK ==
  /\ registered \subseteq Users
  /\ mail \in Seq([user: WithEmail, purpose: Purposes])
  /\ Len(mail) <= MaxCodes
  /\ codes \in [Purposes -> [WithEmail -> Code \cup {NoCode}]]
  /\ grants \subseteq GrantRow
  /\ tries \in [1..MaxCodes -> Nat]
  /\ accepted \in [1..MaxCodes -> Nat]
  /\ resets \in [1..MaxCodes -> Nat]

AccountTypeOK == SessionTypeOK /\ CodeTypeOK

\* Where a command may stand: a new version is the first thing a request
\* writes, and tokens and what is done with them the last.
HeadOnly == {"setVersion", "create", "update", "updateSet", "index", "attempt", "compare",
             "verify", "reset"}
LastOnly == {"issue", "create", "update", "updateSet", "index"}
InOrder ==
  \A r \in Slots : \A i \in DOMAIN slots[r].todo :
    /\ slots[r].todo[i].kind \in HeadOnly => i = 1
    /\ slots[r].todo[i].kind \in LastOnly => i = Len(slots[r].todo)
    /\ slots[r].todo[i].kind = "spend" /\ i # 1 => i = 2 /\ slots[r].todo[1].kind = "setVersion"

-----------------------------------------------------------------------------
(* Password changes *)

\* Nothing newer than the version of user u exists, and what a finished change
\* replaced is older.
VersionsOf(u) ==
  /\ \A n \in IssuedTo(u) : tokens[n].version <= version[u]
  /\ \A r \in Slots : \A i \in DOMAIN slots[r].todo :
       LET c == slots[r].todo[i]
       IN c.kind = "issue" /\ c.token.user = u => c.token.version <= version[u]
  /\ \A n \in superseded : tokens[n].user = u => tokens[n].version < version[u]

\* The change in flight for user u, if there is one, writes the next version.
ChangesOf(u) ==
  /\ \A r, x \in Slots : ChangesPassword(r, u) /\ ChangesPassword(x, u) => r = x
  /\ \A r \in Slots : ChangesPassword(r, u) => Command(r).version = version[u] + 1

PasswordInv ==
  /\ \A u \in Users \ overlapped : VersionsOf(u) /\ ChangesOf(u)
  /\ \A r \in Slots, u \in Users : ChangesPassword(r, u) => slots[r].kills \subseteq IssuedTo(u)

-----------------------------------------------------------------------------
(* One request at a time: sessions *)

OneAtATime == \A r, x \in Slots : slots[r] # Idle /\ slots[x] # Idle => r = x

SessionOf(u, d) == HasSession(d) /\ sessions[d].user = u

\* The session of user u on device d, and the tokens, that the index of a user
\* can lead to: a session that has outlived an index is not looked for.
Found(u, d) == SessionOf(u, d) /\ d \notin strays
Lives(n) == IsLatest(n) /\ tokens[n].dev \notin strays

\* Command c drops the session of user u on device d, or leads to it.
DropsBy(c, u, d) ==
  \/ c.kind = "revokeByDevice" /\ c.user = u /\ c.dev = d
  \/ c.kind \in {"dropRead", "dropKey"} /\ c.dev = d
  \/ c.kind = "list" /\ c.user = u /\ d \in c.only
  \/ /\ c.kind = "collect" /\ c.user = u /\ d \in c.only
     /\ d \in c.left \/ \E s \in c.found : s.dev = d

Drops(todo, u, d) == \E i \in DOMAIN todo : DropsBy(todo[i], u, d)

\* Command c puts a new session of user u on device d, or leads to it.
Makes(c, u, d) ==
  \/ c.kind = "issue" /\ c.then = "create" /\ c.token.user = u /\ c.token.dev = d
  \/ c.kind = "create" /\ c.session.user = u /\ c.dev = d

\* What a request with these commands still relies on.
Relies(todo) ==
  \A i \in DOMAIN todo :
    LET c == todo[i]
    IN /\ c.kind = "unindex" =>
            ~HasSession(c.dev) \/ (i # 1 /\ todo[1].kind = "dropKey" /\ todo[1].dev = c.dev)
       /\ c.kind = "updateSet" => SessionOf(c.session.user, c.dev)
       /\ c.kind \in {"create", "update", "updateSet"} => c.session.token \notin revoked
       /\ \A u \in Users, d \in Devices :
            Makes(c, u, d) =>
              /\ u \in registered \/ (todo[1].kind = "register" /\ todo[1].user = u)
              /\ d \in WebDevices =>
                   \A e \in WebDevices \ {d} : Found(u, e) => Drops(todo, u, e)

\* The tokens a request is to kill are dead, or it still drops their session.
Kills(todo, kills) ==
  \A n \in kills :
    /\ Lives(n) => Drops(todo, tokens[n].user, tokens[n].dev)
    /\ \A i \in DOMAIN todo :
         todo[i].kind \in {"create", "update", "updateSet"} => todo[i].session.token # n

Indexed(d) ==
  HasSession(d) =>
    \/ d \in index[sessions[d].user]
    \/ \E r \in Slots : /\ Doing(r, "index")
                        /\ Command(r).user = sessions[d].user /\ Command(r).dev = d

CalmSessions ==
  calm =>
    /\ OneAtATime
    /\ \A r \in Slots : Relies(slots[r].todo) /\ Kills(slots[r].todo, slots[r].kills)
    /\ \A d \in Devices \ strays : Indexed(d)
    /\ \A d \in Devices : HasSession(d) => sessions[d].user \in registered
    /\ \A d, e \in WebDevices \ strays :
         HasSession(d) /\ HasSession(e) /\ sessions[d].user = sessions[e].user => d = e
    /\ \A n \in revoked : ~Lives(n)

-----------------------------------------------------------------------------
(* One request at a time: codes *)

\* A compare of mail n is in flight: the attempt is written and not counted yet.
Comparing(n) == \E r \in Slots : Doing(r, "compare") /\ Command(r).code.mail = n
Spending(g) == \E r \in Slots : \E i \in DOMAIN slots[r].todo :
                 slots[r].todo[i].kind = "spend" /\ slots[r].todo[i].grant = g

\* A code that is kept was not accepted, and its attempts are the tries made on it.
KeptCode(p, u) ==
  LET code == codes[p][u]
  IN code # NoCode =>
       /\ mail[code.mail] = [user |-> u, purpose |-> p]
       /\ accepted[code.mail] = 0
       /\ code.attempts = tries[code.mail] + IF Comparing(code.mail) THEN 1 ELSE 0

CalmCodes ==
  calm =>
    /\ \A p \in Purposes, u \in WithEmail : KeptCode(p, u)
    /\ \A r \in Slots : Doing(r, "attempt") \/ Doing(r, "compare") =>
         /\ codes[Command(r).purpose][Command(r).user] = Command(r).code
    /\ \A n \in 1..MaxCodes :
         /\ accepted[n] <= 1
         /\ resets[n] <= accepted[n]
         /\ accepted[n] = 1 => tries[n] <= MaxAttempts
         /\ n > Len(mail) => tries[n] = 0 /\ accepted[n] = 0
    /\ \A g \in grants : /\ accepted[g.mail] = 1 /\ g = Grant(g.mail)
                         /\ resets[g.mail] = 0 \/ Spending(g)
    /\ \A r \in Slots : Doing(r, "reset") =>
         /\ accepted[Command(r).mail] = 1
         /\ resets[Command(r).mail] = 0
         /\ \A g \in grants : g.mail # Command(r).mail

-----------------------------------------------------------------------------
(* Commands *)

\* What a command of a kind carries.
LEMMA CommandOf ==
  ASSUME NEW c \in Commands
  PROVE  /\ c.kind \in {"revokeByDevice", "unindex", "index"} => c \in DeviceCommands
         /\ c.kind \in {"delRefresh", "blacklist", "getUsed", "checkSession", "consume", "markUsed"}
              => c \in TokenCommands
         /\ c.kind \in {"dropRead", "dropKey"} => c \in DropCommands
         /\ c.kind = "list" => c \in ListCommands
         /\ c.kind = "collect" => c \in CollectCommands
         /\ c.kind = "issue" => c \in IssueCommands
         /\ c.kind \in {"create", "update", "updateSet"} => c \in RowCommands
         /\ c.kind = "setVersion" => c \in VersionCommands
         /\ c.kind = "mail" => c \in MailCommands
         /\ c.kind \in {"attempt", "compare"} => c \in AttemptCommands
         /\ c.kind \in {"verify", "reset"} => c \in EffectCommands
         /\ c.kind = "spend" => c \in SpendCommands
         /\ c.kind = "register" => c \in RegisterCommands
BY DEF Commands, DeviceCommands, TokenCommands, DropCommands, ListCommands, CollectCommands,
       IssueCommands, RowCommands, VersionCommands, MailCommands, AttemptCommands,
       EffectCommands, SpendCommands, RegisterCommands

\* Tokens and mails are only ever added: what referred to them still does.
Grows ==
  /\ DOMAIN tokens \subseteq DOMAIN tokens'
  /\ DOMAIN mail \subseteq DOMAIN mail'

LEMMA RowsGrow ==
  ASSUME Grows
  PROVE  SessionRow \subseteq SessionRow' /\ Code \subseteq Code' /\ GrantRow \subseteq GrantRow'
BY DEF Grows, SessionRow, Code, GrantRow

LEMMA CommandsGrow ==
  ASSUME Grows
  PROVE  Commands \subseteq Commands'
<1>1. SessionRow \subseteq SessionRow' /\ Code \subseteq Code' /\ GrantRow \subseteq GrantRow'
  BY RowsGrow
<1>2. TokenCommands \subseteq TokenCommands' /\ EffectCommands \subseteq EffectCommands'
  BY DEF Grows, TokenCommands, EffectCommands
<1>3. CollectCommands \subseteq CollectCommands' /\ RowCommands \subseteq RowCommands'
  BY <1>1 DEF CollectCommands, RowCommands
<1>4. AttemptCommands \subseteq AttemptCommands' /\ SpendCommands \subseteq SpendCommands'
  BY <1>1 DEF AttemptCommands, SpendCommands
<1>5. /\ DeviceCommands' = DeviceCommands /\ DropCommands' = DropCommands
      /\ ListCommands' = ListCommands /\ IssueCommands' = IssueCommands
      /\ VersionCommands' = VersionCommands /\ MailCommands' = MailCommands
      /\ RegisterCommands' = RegisterCommands
  BY DEF DeviceCommands, DropCommands, ListCommands, IssueCommands, VersionCommands,
         MailCommands, RegisterCommands, Token
<1> QED BY <1>2, <1>3, <1>4, <1>5 DEF Commands

LEMMA TodosGrow ==
  ASSUME Grows
  PROVE  Seq(Commands) \subseteq Seq(Commands)'
BY CommandsGrow

\* What a sequence holds.
LEMMA Indexes ==
  ASSUME NEW S, NEW s \in Seq(S)
  PROVE  Len(s) \in Nat /\ DOMAIN s = 1..Len(s) /\ \A i \in DOMAIN s : s[i] \in S
OBVIOUS

LEMMA Joined ==
  ASSUME NEW S, NEW s \in Seq(S), NEW t \in Seq(S)
  PROVE  /\ s \o t \in Seq(S)
         /\ Len(s \o t) = Len(s) + Len(t) /\ DOMAIN (s \o t) = 1..Len(s) + Len(t)
         /\ \A i \in DOMAIN s : (s \o t)[i] = s[i]
         /\ \A i \in DOMAIN t : (s \o t)[Len(s) + i] = t[i]
OBVIOUS

LEMMA Single ==
  ASSUME NEW S, NEW s \in Seq(S), Len(s) = 1
  PROVE  s = <<s[1]>> /\ Tail(s) = <<>>
<1>1. DOMAIN s = {1} /\ s[1] \in S
  OBVIOUS
<1>2. s \in [{1} -> S]
  BY <1>1
<1>3. <<s[1]>> \in [{1} -> S]
  BY <1>1
<1>4. s = <<s[1]>>
  BY <1>2, <1>3
<1>5. Tail(<<s[1]>>) = <<>>
  OBVIOUS
<1> QED BY <1>4, <1>5, Zenon

LEMMA OneMore ==
  ASSUME NEW S, NEW s \in Seq(S), NEW last \in Seq(S), DOMAIN last = {1}
  PROVE  LET all == s \o last
         IN /\ all \in Seq(S) /\ Len(all) = Len(s) + 1 /\ Len(s) \in Nat
            /\ Len(s) + 1 \in DOMAIN all /\ all[Len(s) + 1] = last[1]
            /\ \A i \in DOMAIN s : i \in DOMAIN all /\ all[i] = s[i]
            /\ \A i \in DOMAIN all : (i \in DOMAIN s /\ all[i] = s[i]) \/ i = Len(s) + 1
<1> DEFINE all == s \o last
<1>1. /\ all \in Seq(S) /\ Len(all) = Len(s) + Len(last) /\ DOMAIN all = 1..Len(s) + Len(last)
      /\ \A i \in DOMAIN s : all[i] = s[i]
      /\ \A i \in DOMAIN last : all[Len(s) + i] = last[i]
  BY Joined
<1>2. DOMAIN s = 1..Len(s) /\ Len(s) \in Nat /\ Len(last) \in Nat /\ DOMAIN last = 1..Len(last)
  BY Indexes
<1> HIDE DEF all
<1>3. Len(last) = 1
  BY <1>2
<1>4. /\ Len(s) + 1 \in DOMAIN all /\ all[Len(s) + 1] = last[1]
      /\ \A i \in DOMAIN s : i \in DOMAIN all /\ all[i] = s[i]
      /\ \A i \in DOMAIN all : (i \in DOMAIN s /\ all[i] = s[i]) \/ i = Len(s) + 1
  BY <1>1, <1>2, <1>3
<1>5. Len(all) = Len(s) + 1
  BY <1>1, <1>3
<1> QED BY <1>1, <1>2, <1>4, <1>5 DEF all

\* A command, and after it one or none of each of two kinds.
LEMMA Parts ==
  ASSUME NEW S, NEW first \in S, NEW mid \in Seq(S), Len(mid) <= 1, NEW last \in Seq(S), Len(last) <= 1
  PROVE  LET all == <<first>> \o mid \o last
         IN /\ all \in Seq(S) /\ all # <<>>
            /\ 1 \in DOMAIN all /\ all[1] = first
            /\ \A i \in DOMAIN all :
                 i = 1 \/ (i = 2 /\ 1 \in DOMAIN mid /\ all[i] = mid[1])
                   \/ (i = Len(all) /\ 1 \in DOMAIN last /\ all[i] = last[1])
            /\ 1 \in DOMAIN mid => 2 \in DOMAIN all /\ all[2] = mid[1]
            /\ 1 \in DOMAIN last => Len(all) \in DOMAIN all /\ all[Len(all)] = last[1]
<1> DEFINE two == <<first>> \o mid
           all == two \o last
<1>1. /\ Len(mid) \in Nat /\ DOMAIN mid = 1..Len(mid)
      /\ Len(last) \in Nat /\ DOMAIN last = 1..Len(last)
  BY Indexes
<1>2. <<first>> \in Seq(S) /\ Len(<<first>>) = 1 /\ DOMAIN <<first>> = {1} /\ <<first>>[1] = first
  OBVIOUS
<1> HIDE DEF two
<1>3. /\ two \in Seq(S) /\ Len(two) = 1 + Len(mid) /\ DOMAIN two = 1..1 + Len(mid)
      /\ two[1] = first
      /\ \A i \in DOMAIN mid : two[1 + i] = mid[i]
  <2> DEFINE one == <<first>>
  <2>1. one \in Seq(S) /\ Len(one) = 1 /\ DOMAIN one = {1} /\ one[1] = first
    BY <1>2
  <2>2. two = one \o mid
    BY DEF two
  <2> HIDE DEF one
  <2>3. LET both == one \o mid
        IN /\ both \in Seq(S) /\ Len(both) = Len(one) + Len(mid) /\ DOMAIN both = 1..Len(one) + Len(mid)
           /\ \A i \in DOMAIN one : both[i] = one[i]
           /\ \A i \in DOMAIN mid : both[Len(one) + i] = mid[i]
    <3>1. one \in Seq(S) /\ mid \in Seq(S)
      BY <2>1
    <3> QED BY <3>1, Joined
  <2>4. /\ two \in Seq(S) /\ Len(two) = Len(one) + Len(mid) /\ DOMAIN two = 1..Len(one) + Len(mid)
        /\ \A i \in DOMAIN one : two[i] = one[i]
        /\ \A i \in DOMAIN mid : two[Len(one) + i] = mid[i]
    BY <2>2, <2>3, Zenon
  <2> QED BY <1>1, <2>1, <2>4
<1>4. /\ all \in Seq(S) /\ Len(all) = Len(two) + Len(last) /\ DOMAIN all = 1..Len(two) + Len(last)
      /\ \A i \in DOMAIN two : all[i] = two[i]
      /\ \A i \in DOMAIN last : all[Len(two) + i] = last[i]
  BY <1>3, Joined
<1> HIDE DEF all
<1>5. all # <<>>
  BY <1>1, <1>3, <1>4
<1>6. \A i \in DOMAIN all :
        i = 1 \/ (i = 2 /\ 1 \in DOMAIN mid /\ all[i] = mid[1])
          \/ (i = Len(all) /\ 1 \in DOMAIN last /\ all[i] = last[1])
  BY <1>1, <1>3, <1>4
<1>7. /\ 1 \in DOMAIN all /\ all[1] = first
      /\ 1 \in DOMAIN mid => 2 \in DOMAIN all /\ all[2] = mid[1]
      /\ 1 \in DOMAIN last => Len(all) \in DOMAIN all /\ all[Len(all)] = last[1]
  BY <1>1, <1>3, <1>4
<1> QED BY <1>4, <1>5, <1>6, <1>7 DEF all, two

\* More commands may come before the rest of the request.
Fits(r, more) ==
  LET todo == slots[r].todo
  IN /\ todo[1].kind = "setVersion" => more = <<>>
     /\ \A i \in DOMAIN more :
          /\ more[i].kind \in HeadOnly => i = 1
          /\ more[i].kind \in LastOnly => i = Len(more) /\ Len(todo) = 1
          /\ more[i].kind # "spend"

\* What a request does next, for a command that was found at its head.
LEMMA Current ==
  ASSUME AccountTypeOK, NEW r \in Slots, slots[r] # Idle
  PROVE  /\ slots[r].todo \in Seq(Commands) /\ slots[r].todo # <<>>
         /\ 1 \in DOMAIN slots[r].todo
         /\ Command(r) = slots[r].todo[1] /\ Command(r) \in Commands
         /\ slots[r].kills \subseteq DOMAIN tokens
BY DEF AccountTypeOK, SessionTypeOK, SlotsTypeOK, Request, Command

\* A command that returns changes the request it belongs to.
LEMMA Proceeds ==
  ASSUME AccountTypeOK, NEW r \in Slots, slots[r] # Idle, Grows,
         NEW more \in Seq(Commands)', Proceed(r, more)
  PROVE  LET rest == more \o Tail(slots[r].todo)
         IN /\ SlotsTypeOK'
            /\ \A x \in Slots : x # r => slots'[x] = slots[x]
            /\ slots'[r].todo = rest
            /\ IF rest = <<>> THEN slots'[r] = Idle /\ revoked' = revoked \cup slots[r].kills
                              ELSE slots'[r].kills = slots[r].kills /\ revoked' = revoked
            /\ revoked' \subseteq DOMAIN tokens'
            /\ UNCHANGED <<tokens, started, calm>>
<1> DEFINE rest == more \o Tail(slots[r].todo)
<1>1. /\ slots[r].todo \in Seq(Commands) /\ slots[r].todo # <<>>
      /\ slots[r].kills \subseteq DOMAIN tokens /\ slots[r] \in Request
      /\ slots \in [Slots -> Request]
  BY Current DEF AccountTypeOK, SessionTypeOK, SlotsTypeOK
<1>2. rest \in Seq(Commands)'
  BY <1>1, TodosGrow
<1> HIDE DEF rest
<1>3. /\ slots' = [slots EXCEPT ![r] = IF rest = <<>> THEN Idle ELSE [slots[r] EXCEPT !.todo = rest]]
      /\ revoked' = IF rest = <<>> THEN revoked \cup slots[r].kills ELSE revoked
      /\ UNCHANGED <<tokens, started, calm>>
  BY DEF Proceed, rest, counters
<1>4. slots'[r] = IF rest = <<>> THEN Idle ELSE [slots[r] EXCEPT !.todo = rest]
  BY <1>1, <1>3
<1>5. \A x \in Slots : x # r => slots'[x] = slots[x]
  BY <1>1, <1>3
<1>6. Request \subseteq Request'
  BY <1>3, TodosGrow DEF Request
<1>7. slots'[r] \in Request' /\ slots'[r].todo = rest
  BY <1>1, <1>2, <1>3, <1>4 DEF Request, Idle
<1>8. slots' \in [Slots -> Request']
  BY <1>1, <1>3, <1>5, <1>6, <1>7
<1>9. \A x \in Slots : slots'[x].todo = <<>> => slots'[x] = Idle
  BY <1>4, <1>5, <1>7 DEF AccountTypeOK, SessionTypeOK, SlotsTypeOK
<1> QED BY <1>1, <1>3, <1>4, <1>5, <1>7, <1>8, <1>9
       DEF rest, Request, AccountTypeOK, SessionTypeOK, SlotsTypeOK

\* Order is kept.
LEMMA ProceedsInOrder ==
  ASSUME AccountTypeOK, InOrder, NEW r \in Slots, slots[r] # Idle, Grows,
         NEW more \in Seq(Commands)', Fits(r, more), Proceed(r, more)
  PROVE  InOrder'
<1> DEFINE todo == slots[r].todo
           rest == more \o Tail(todo)
<1>1. todo \in Seq(Commands)' /\ todo # <<>>
  BY Current, TodosGrow
<1>2. slots'[r].todo = rest /\ \A x \in Slots : x # r => slots'[x] = slots[x]
  BY Proceeds
<1>3. \A i \in DOMAIN todo : /\ todo[i].kind \in HeadOnly => i = 1
                             /\ todo[i].kind \in LastOnly => i = Len(todo)
                             /\ todo[i].kind = "spend" /\ i # 1 => i = 2 /\ todo[1].kind = "setVersion"
  BY DEF InOrder
<1>4. /\ todo[1].kind = "setVersion" => more = <<>>
      /\ \A i \in DOMAIN more : /\ more[i].kind \in HeadOnly => i = 1
                                /\ more[i].kind \in LastOnly => i = Len(more) /\ Len(todo) = 1
                                /\ more[i].kind # "spend"
  BY DEF Fits
<1>5. /\ Len(rest) = Len(more) + Len(todo) - 1
      /\ Len(more) \in Nat /\ Len(todo) \in Nat /\ (more = <<>> => Len(more) = 0)
      /\ \A i \in DOMAIN rest :
           IF i <= Len(more) THEN i \in DOMAIN more /\ rest[i] = more[i]
           ELSE i - Len(more) + 1 \in DOMAIN todo /\ rest[i] = todo[i - Len(more) + 1]
      /\ DOMAIN rest \subseteq Nat \ {0}
  BY <1>1
<1> HIDE DEF rest, todo
<1>6. ASSUME NEW i \in DOMAIN rest
      PROVE  /\ rest[i].kind \in HeadOnly => i = 1
             /\ rest[i].kind \in LastOnly => i = Len(rest)
             /\ rest[i].kind = "spend" => i = 1
  <2>1. CASE i <= Len(more)
    BY <1>4, <1>5, <2>1
  <2>2. CASE ~(i <= Len(more))
    <3> DEFINE j == i - Len(more) + 1
    <3>1. j \in DOMAIN todo /\ rest[i] = todo[j] /\ j # 1 /\ i = j + Len(more) - 1 /\ i \in Nat
      BY <1>5, <2>2
    <3> HIDE DEF j
    <3>2. rest[i].kind \notin HeadOnly
      BY <3>1, <1>3
    <3>3. rest[i].kind \in LastOnly => i = Len(rest)
      BY <3>1, <1>3, <1>5
    <3>4. rest[i].kind = "spend" => i = 1
      BY <3>1, <1>3, <1>4, <1>5
    <3> QED BY <3>2, <3>3, <3>4
  <2> QED BY <2>1, <2>2
<1>7. \A x \in Slots : \A i \in DOMAIN slots'[x].todo :
        /\ slots'[x].todo[i].kind \in HeadOnly => i = 1
        /\ slots'[x].todo[i].kind \in LastOnly => i = Len(slots'[x].todo)
        /\ slots'[x].todo[i].kind = "spend" /\ i # 1 => i = 2 /\ slots'[x].todo[1].kind = "setVersion"
  BY <1>2, <1>6 DEF InOrder
<1> QED BY <1>7 DEF InOrder

\* A request that throws is gone.
LEMMA Throws ==
  ASSUME AccountTypeOK, InOrder, NEW r \in Slots, Throw(r), UNCHANGED mail
  PROVE  /\ SlotsTypeOK'
         /\ slots'[r] = Idle
         /\ \A x \in Slots : x # r => slots'[x] = slots[x]
         /\ UNCHANGED <<tokens, revoked>>
         /\ InOrder'
<1>1. /\ slots' = [slots EXCEPT ![r] = Idle]
      /\ UNCHANGED <<tokens, revoked, mail>>
      /\ slots \in [Slots -> Request]
  BY DEF Throw, AccountTypeOK, SessionTypeOK, SlotsTypeOK
<1>2. Grows /\ Request \subseteq Request'
  BY <1>1, TodosGrow DEF Grows, Request
<1>3. Idle \in Request'
  BY DEF Idle, Request
<1>4. slots'[r] = Idle /\ \A x \in Slots : x # r => slots'[x] = slots[x]
  BY <1>1
<1>5. slots' \in [Slots -> Request']
  BY <1>1, <1>2, <1>3
<1>6. \A x \in Slots : slots'[x].todo = <<>> => slots'[x] = Idle
  BY <1>4 DEF AccountTypeOK, SessionTypeOK, SlotsTypeOK
<1>7. InOrder'
  BY <1>4 DEF InOrder, Idle
<1> QED BY <1>1, <1>4, <1>5, <1>6, <1>7 DEF SlotsTypeOK

\* A request that starts.
LEMMA Starts ==
  ASSUME AccountTypeOK, NEW r \in Slots, NEW todo \in Seq(Commands), todo # <<>>,
         NEW kills \in SUBSET DOMAIN tokens, Start(r, todo, kills), UNCHANGED mail
  PROVE  /\ SlotsTypeOK'
         /\ slots[r] = Idle
         /\ slots'[r] = [todo |-> todo, kills |-> kills]
         /\ \A x \in Slots : x # r => slots'[x] = slots[x]
         /\ calm' \in BOOLEAN
         /\ calm' => calm /\ \A x \in Slots : slots[x] = Idle
         /\ UNCHANGED <<version, redis, tokens, revoked, superseded>>
<1>1. /\ slots[r] = Idle
      /\ slots' = [slots EXCEPT ![r] = [todo |-> todo, kills |-> kills]]
      /\ calm' = (calm /\ \A x \in Slots : slots[x] = Idle)
      /\ UNCHANGED <<version, redis, tokens, revoked, superseded, mail>>
      /\ slots \in [Slots -> Request]
  BY DEF Start, AccountTypeOK, SessionTypeOK, SlotsTypeOK
<1>2. Grows /\ Request \subseteq Request' /\ todo \in Seq(Commands)'
  BY <1>1, TodosGrow DEF Grows, Request
<1>3. [todo |-> todo, kills |-> kills] \in Request'
  BY <1>1, <1>2 DEF Request
<1>4. /\ slots'[r] = [todo |-> todo, kills |-> kills]
      /\ \A x \in Slots : x # r => slots'[x] = slots[x]
  BY <1>1
<1>5. slots' \in [Slots -> Request']
  BY <1>1, <1>2, <1>3
<1>6. \A x \in Slots : slots'[x].todo = <<>> => slots'[x] = Idle
  BY <1>4 DEF AccountTypeOK, SessionTypeOK, SlotsTypeOK
<1> QED BY <1>1, <1>4, <1>5, <1>6 DEF SlotsTypeOK

-----------------------------------------------------------------------------
(* Types and order *)

\* Commands that may stand anywhere.
PlainKinds == {"revokeByDevice", "delRefresh", "blacklist", "dropRead", "dropKey", "unindex",
               "list", "collect", "markUsed"}
Plain(more) == \A i \in DOMAIN more : more[i].kind \in PlainKinds

LEMMA NothingMore == <<>> \in Seq(Commands) /\ DOMAIN <<>> = {} /\ Plain(<<>>)
<1>1. DOMAIN <<>> = {}
  OBVIOUS
<1> QED BY <1>1 DEF Plain

LEMMA PlainFits ==
  ASSUME AccountTypeOK, NEW r \in Slots, slots[r] # Idle, NEW more, Plain(more),
         Command(r).kind # "setVersion"
  PROVE  Fits(r, more)
BY Current DEF Plain, PlainKinds, Fits, HeadOnly, LastOnly

\* The commands that revoke a session that was read.
LEMMA RevokeCommands ==
  ASSUME NEW s \in SessionRow
  PROVE  /\ RevokeSessionObject(s) \in Seq(Commands)
         /\ Plain(RevokeSessionObject(s))
         /\ 3 \in DOMAIN RevokeSessionObject(s)
         /\ RevokeSessionObject(s)[3] = [kind |-> "dropRead", dev |-> s.dev]
         /\ \A i \in DOMAIN RevokeSessionObject(s) :
              RevokeSessionObject(s)[i].kind \in {"delRefresh", "blacklist", "dropRead"}
<1> DEFINE a == [kind |-> "delRefresh", token |-> s.token]
           b == [kind |-> "blacklist", token |-> s.token]
           c == [kind |-> "dropRead", dev |-> s.dev]
<1>1. a \in TokenCommands /\ b \in TokenCommands /\ c \in DropCommands
  BY DEF SessionRow, TokenCommands, DropCommands
<1>2. RevokeSessionObject(s) = <<a, b, c>>
  BY DEF RevokeSessionObject
<1>3. a \in Commands /\ b \in Commands /\ c \in Commands
  BY <1>1 DEF Commands
<1>4. /\ a.kind \in {"delRefresh", "blacklist", "dropRead"}
      /\ b.kind \in {"delRefresh", "blacklist", "dropRead"}
      /\ c.kind \in {"delRefresh", "blacklist", "dropRead"}
  OBVIOUS
<1>5. c = [kind |-> "dropRead", dev |-> s.dev]
  OBVIOUS
<1> HIDE DEF a, b, c
<1>6. /\ RevokeSessionObject(s) \in Seq(Commands)
      /\ 3 \in DOMAIN RevokeSessionObject(s) /\ RevokeSessionObject(s)[3] = c
  BY <1>2, <1>3
<1>7. \A i \in DOMAIN RevokeSessionObject(s) :
        RevokeSessionObject(s)[i].kind \in {"delRefresh", "blacklist", "dropRead"}
  BY <1>2, <1>4
<1> QED BY <1>5, <1>6, <1>7 DEF Plain, PlainKinds

\* The next command of a collection.
LEMMA CollectCommand ==
  ASSUME NEW u \in Users, NEW left \in SUBSET Devices, NEW found \in SUBSET SessionRow,
         NEW only \in SUBSET Devices
  PROVE  /\ Collect(u, left, found, only) \in Seq(Commands)
         /\ Plain(Collect(u, left, found, only))
         /\ DOMAIN Collect(u, left, found, only) = {1}
         /\ Collect(u, left, found, only)[1] =
              [kind |-> "collect", user |-> u, left |-> left, found |-> found, only |-> only]
<1> DEFINE c == [kind |-> "collect", user |-> u, left |-> left, found |-> found, only |-> only]
<1>1. c \in Commands
  BY DEF Commands, CollectCommands
<1>2. Collect(u, left, found, only) = <<c>> /\ c.kind = "collect"
  BY DEF Collect
<1> HIDE DEF c
<1> QED BY <1>1, <1>2 DEF Plain, PlainKinds, c

\* What a command was to drop is dropped by the commands that replace it, and a
\* device is only taken off an index when its session is gone.
HandsOver(r, more) ==
  /\ \A u \in Users, d \in Devices :
       SessionOf(u, d) /\ d \in index[u] /\ DropsBy(Command(r), u, d) => Drops(more, u, d)
  /\ \A i \in DOMAIN more :
       more[i].kind = "unindex" =>
         ~HasSession(more[i].dev) \/ (i # 1 /\ more[1].kind = "dropKey" /\ more[1].dev = more[i].dev)

\* A command that is replaced by plain commands, none or some.
PlainStep(r) ==
  \E more \in Seq(Commands) : Proceed(r, more) /\ Plain(more) /\ HandsOver(r, more)

\* A command that is not about sessions returns.
LEMMA ReturnIsPlain ==
  ASSUME NEW r \in Slots, Proceed(r, <<>>),
         Command(r).kind \notin {"revokeByDevice", "dropRead", "dropKey", "list", "collect"}
  PROVE  PlainStep(r)
<1>1. HandsOver(r, <<>>)
  BY NothingMore DEF HandsOver, DropsBy
<1> QED BY <1>1, NothingMore DEF PlainStep

LEMMA ReadDeviceIsPlain ==
  ASSUME AccountTypeOK, NEW r \in Slots, ReadDevice(r)
  PROVE  PlainStep(r)
<1> DEFINE s == sessions[Command(r).dev]
<1>1. Command(r) \in DeviceCommands /\ Command(r).kind = "revokeByDevice"
  BY Current, CommandOf DEF ReadDevice, Doing, Command
<1>2. Command(r).dev \in Devices /\ Command(r).user \in Users
  BY <1>1 DEF DeviceCommands
<1>3. CASE s # NoSession /\ s.user = Command(r).user
  <2>1. s \in SessionRow /\ s.dev = Command(r).dev
    BY <1>2, <1>3 DEF AccountTypeOK, SessionTypeOK, HasSession
  <2>2. Proceed(r, RevokeSessionObject(s))
    BY <1>3 DEF ReadDevice
  <2> DEFINE more == RevokeSessionObject(s)
  <2> HIDE DEF s
  <2>3. /\ more \in Seq(Commands) /\ Plain(more) /\ 3 \in DOMAIN more
        /\ more[3] = [kind |-> "dropRead", dev |-> s.dev]
        /\ \A i \in DOMAIN more : more[i].kind \in {"delRefresh", "blacklist", "dropRead"}
    BY <2>1, RevokeCommands
  <2>4. Proceed(r, more)
    BY <2>2
  <2> HIDE DEF more
  <2>5. HandsOver(r, more)
    BY <1>1, <2>1, <2>3 DEF HandsOver, Drops, DropsBy
  <2> QED BY <2>3, <2>4, <2>5 DEF PlainStep
<1>4. CASE ~(s # NoSession /\ s.user = Command(r).user)
  <2>1. Proceed(r, <<>>)
    BY <1>4 DEF ReadDevice
  <2>2. HandsOver(r, <<>>)
    BY <1>1, <1>4, NothingMore DEF HandsOver, DropsBy, SessionOf, HasSession
  <2> QED BY <2>1, <2>2, NothingMore DEF PlainStep
<1> QED BY <1>3, <1>4

LEMMA DropReadIsPlain ==
  ASSUME AccountTypeOK, NEW r \in Slots, DropRead(r)
  PROVE  PlainStep(r)
<1> DEFINE d == Command(r).dev
           drop == [kind |-> "dropKey", dev |-> d]
           off == [kind |-> "unindex", user |-> sessions[d].user, dev |-> d]
           more == <<drop>> \o (IF HasSession(d) THEN <<off>> ELSE <<>>)
<1>1. Command(r) \in DropCommands /\ Command(r).kind = "dropRead"
  BY Current, CommandOf DEF DropRead, Doing, Command
<1>2. d \in Devices
  BY <1>1 DEF DropCommands
<1>3. Proceed(r, more)
  BY DEF DropRead
<1>4. drop \in Commands /\ drop.kind = "dropKey" /\ drop.dev = d
  BY <1>2 DEF Commands, DropCommands
<1>5. HasSession(d) => off \in Commands /\ off.kind = "unindex" /\ off.dev = d
  BY <1>2 DEF AccountTypeOK, SessionTypeOK, HasSession, SessionRow, Commands, DeviceCommands
<1>6. /\ more \in Seq(Commands) /\ 1 \in DOMAIN more /\ more[1] = drop
      /\ \A i \in DOMAIN more : i = 1 \/ (more[i].kind = "unindex" /\ more[i].dev = d)
  <2> HIDE DEF drop, off, d
  <2>1. CASE HasSession(d)
    BY <1>4, <1>5, <2>1
  <2>2. CASE ~HasSession(d)
    BY <1>4, <2>2
  <2> QED BY <2>1, <2>2
<1>7. Plain(more)
  BY <1>4, <1>6 DEF Plain, PlainKinds
<1>8. HandsOver(r, more)
  <2> HIDE DEF more
  <2> QED BY <1>1, <1>4, <1>6 DEF HandsOver, Drops, DropsBy
<1> HIDE DEF more
<1> QED BY <1>3, <1>6, <1>7, <1>8 DEF PlainStep

LEMMA ListIsPlain ==
  ASSUME AccountTypeOK, NEW r \in Slots, ListDevices(r)
  PROVE  PlainStep(r)
<1> DEFINE c == Command(r)
           more == Collect(c.user, index[c.user], {}, c.only)
<1>1. c \in ListCommands /\ c.kind = "list"
  BY Current, CommandOf DEF ListDevices, Doing, Command
<1>2. c.user \in Users /\ c.only \in SUBSET Devices /\ index[c.user] \in SUBSET Devices
  BY <1>1 DEF ListCommands, AccountTypeOK, SessionTypeOK
<1>3. Proceed(r, more)
  BY DEF ListDevices
<1>4. /\ more \in Seq(Commands) /\ Plain(more) /\ DOMAIN more = {1}
      /\ more[1] = [kind |-> "collect", user |-> c.user, left |-> index[c.user],
                    found |-> {}, only |-> c.only]
  <2>1. {} \in SUBSET SessionRow
    OBVIOUS
  <2>2. ASSUME NEW u \in Users, NEW left \in SUBSET Devices, NEW only \in SUBSET Devices
        PROVE  LET all == Collect(u, left, {}, only)
               IN /\ all \in Seq(Commands) /\ Plain(all) /\ DOMAIN all = {1}
                  /\ all[1] = [kind |-> "collect", user |-> u, left |-> left,
                               found |-> {}, only |-> only]
    BY <2>1, CollectCommand
  <2> QED BY <1>2, <2>2
<1> HIDE DEF more
<1>5. HandsOver(r, more)
  BY <1>1, <1>4 DEF HandsOver, Drops, DropsBy
<1> QED BY <1>3, <1>4, <1>5 DEF PlainStep

LEMMA CollectNextIsPlain ==
  ASSUME AccountTypeOK, NEW r \in Slots, CollectNext(r)
  PROVE  PlainStep(r)
<1> DEFINE c == Command(r)
<1>1. c \in CollectCommands /\ c.kind = "collect"
  BY Current, CommandOf DEF CollectNext, Doing, Command
<1>2. /\ c.user \in Users /\ c.left \in SUBSET Devices
      /\ c.found \in SUBSET SessionRow /\ c.only \in SUBSET Devices
  BY <1>1 DEF CollectCommands
<1> HIDE DEF c
<1>3. PICK d \in c.left :
        Proceed(r, (IF HasSession(d) THEN <<>> ELSE <<[kind |-> "unindex", user |-> c.user, dev |-> d]>>)
                   \o Collect(c.user, c.left \ {d},
                              IF HasSession(d) THEN c.found \cup {sessions[d]} ELSE c.found, c.only))
  BY DEF CollectNext, c
<1> DEFINE left == c.left \ {d}
           found == IF HasSession(d) THEN c.found \cup {sessions[d]} ELSE c.found
           off == [kind |-> "unindex", user |-> c.user, dev |-> d]
           all == Collect(c.user, left, found, c.only)
           more == (IF HasSession(d) THEN <<>> ELSE <<off>>) \o all
<1>4. left \in SUBSET Devices /\ found \in SUBSET SessionRow /\ d \in Devices
  BY <1>2 DEF AccountTypeOK, SessionTypeOK, HasSession
<1>5. HasSession(d) => sessions[d] \in found /\ sessions[d].dev = d
  BY <1>4 DEF AccountTypeOK, SessionTypeOK
<1>6. c.found \subseteq found
  OBVIOUS
<1>7. off \in Commands /\ off.kind = "unindex" /\ off.dev = d
  BY <1>2, <1>4 DEF Commands, DeviceCommands
<1>8. Proceed(r, more)
  BY <1>3
<1> HIDE DEF left, found, off
<1>9. /\ all \in Seq(Commands) /\ DOMAIN all = {1}
      /\ all[1] = [kind |-> "collect", user |-> c.user, left |-> left, found |-> found, only |-> c.only]
  <2>1. ASSUME NEW u \in Users, NEW l \in SUBSET Devices, NEW f \in SUBSET SessionRow,
               NEW o \in SUBSET Devices
        PROVE  /\ Collect(u, l, f, o) \in Seq(Commands) /\ DOMAIN Collect(u, l, f, o) = {1}
               /\ Collect(u, l, f, o)[1] =
                    [kind |-> "collect", user |-> u, left |-> l, found |-> f, only |-> o]
    BY CollectCommand
  <2> QED BY <1>2, <1>4, <2>1
<1> DEFINE last == [kind |-> "collect", user |-> c.user, left |-> left, found |-> found, only |-> c.only]
<1>10. /\ last.kind = "collect" /\ last.user = c.user /\ last.left = left /\ last.found = found
       /\ last.only = c.only
  OBVIOUS
<1> HIDE DEF all, last
<1>11. /\ more \in Seq(Commands)
       /\ \E i \in DOMAIN more : more[i] = last
       /\ \A i \in DOMAIN more : more[i] = last \/ (~HasSession(d) /\ more[i] = off)
  <2>1. Len(all) = 1 /\ all[1] = last
    BY <1>9 DEF last
  <2>2. CASE HasSession(d)
    <3>1. more = all
      BY <2>2, <1>9
    <3> QED BY <3>1, <2>1, <1>9
  <2>3. CASE ~HasSession(d)
    <3>1. <<off>> \in Seq(Commands) /\ Len(<<off>>) = 1 /\ DOMAIN <<off>> = {1} /\ <<off>>[1] = off
      BY <1>7
    <3>2. more = <<off>> \o all
      BY <2>3
    <3> QED BY <2>1, <2>3, <3>1, <3>2, <1>9, OneMore
  <2> QED BY <2>2, <2>3
<1> HIDE DEF more
<1>12. Plain(more)
  BY <1>7, <1>10, <1>11 DEF Plain, PlainKinds
<1>13. HandsOver(r, more)
  <2>1. ASSUME NEW u \in Users, NEW e \in Devices, SessionOf(u, e), DropsBy(c, u, e)
        PROVE  DropsBy(last, u, e)
    <3>1. c.user = u /\ e \in c.only /\ (e \in c.left \/ \E s \in c.found : s.dev = e)
      BY <2>1, <1>1 DEF DropsBy
    <3>2. e \in left \/ \E s \in found : s.dev = e
      BY <2>1, <3>1, <1>5, <1>6 DEF SessionOf, left
    <3> QED BY <3>1, <3>2, <1>10 DEF DropsBy
  <2> QED BY <2>1, <1>7, <1>10, <1>11 DEF HandsOver, Drops, c
<1> QED BY <1>8, <1>11, <1>12, <1>13 DEF PlainStep

LEMMA RevokeFoundIsPlain ==
  ASSUME AccountTypeOK, NEW r \in Slots, RevokeFound(r)
  PROVE  PlainStep(r)
<1> DEFINE c == Command(r)
<1>1. c \in CollectCommands /\ c.kind = "collect"
  BY Current, CommandOf DEF RevokeFound, Doing, Command
<1>2. /\ c.user \in Users /\ c.left = {}
      /\ c.found \in SUBSET SessionRow /\ c.only \in SUBSET Devices
  BY <1>1 DEF CollectCommands, RevokeFound
<1> DEFINE hit == {s \in c.found : s.dev \in c.only}
<1>3. ASSUME NEW u \in Users, NEW d \in Devices, DropsBy(c, u, d)
      PROVE  c.user = u /\ d \in c.only /\ \E s \in hit : s.dev = d
  BY <1>1, <1>2, <1>3 DEF DropsBy
<1>4. hit \in SUBSET SessionRow
  BY <1>2
<1>5. CASE hit = {}
  <2>1. Proceed(r, <<>>)
    BY <1>5 DEF RevokeFound
  <2>2. HandsOver(r, <<>>)
    BY <1>3, <1>5, NothingMore DEF HandsOver
  <2> QED BY <2>1, <2>2, NothingMore DEF PlainStep
<1>6. CASE hit # {}
  <2>1. PICK s \in hit : Proceed(r, RevokeSessionObject(s) \o Collect(c.user, {}, hit \ {s}, c.only))
    BY <1>6 DEF RevokeFound
  <2> HIDE DEF hit, c
  <2> DEFINE all == Collect(c.user, {}, hit \ {s}, c.only)
             drop == RevokeSessionObject(s)
             more == drop \o all
             last == [kind |-> "collect", user |-> c.user, left |-> {}, found |-> hit \ {s}, only |-> c.only]
  <2>2. s \in SessionRow /\ hit \ {s} \in SUBSET SessionRow
    BY <1>4
  <2>3. /\ all \in Seq(Commands) /\ DOMAIN all = {1} /\ all[1] = last
    <3> DEFINE rest == hit \ {s}
    <3>1. {} \in SUBSET Devices /\ rest \in SUBSET SessionRow
      BY <2>2
    <3>2. ASSUME NEW u \in Users, NEW f \in SUBSET SessionRow, NEW o \in SUBSET Devices
          PROVE  /\ Collect(u, {}, f, o) \in Seq(Commands) /\ DOMAIN Collect(u, {}, f, o) = {1}
                 /\ Collect(u, {}, f, o)[1] =
                      [kind |-> "collect", user |-> u, left |-> {}, found |-> f, only |-> o]
      BY <3>1, CollectCommand
    <3> HIDE DEF rest
    <3>3. LET these == Collect(c.user, {}, rest, c.only)
          IN /\ these \in Seq(Commands) /\ DOMAIN these = {1}
             /\ these[1] = [kind |-> "collect", user |-> c.user, left |-> {}, found |-> rest,
                            only |-> c.only]
      BY <1>2, <3>1, <3>2
    <3> QED BY <3>3 DEF rest
  <2>4. /\ drop \in Seq(Commands) /\ 3 \in DOMAIN drop
        /\ drop[3] = [kind |-> "dropRead", dev |-> s.dev]
        /\ \A i \in DOMAIN drop : drop[i].kind \in {"delRefresh", "blacklist", "dropRead"}
    BY <2>2, RevokeCommands
  <2>5. /\ last.kind = "collect" /\ last.user = c.user /\ last.found = hit \ {s}
        /\ last.only = c.only
    OBVIOUS
  <2>6. Proceed(r, more)
    BY <2>1
  <2> HIDE DEF all, drop, last
  <2>7. /\ more \in Seq(Commands)
        /\ \E i \in DOMAIN more : more[i] = last
        /\ \E i \in DOMAIN more : more[i] = [kind |-> "dropRead", dev |-> s.dev]
        /\ \A i \in DOMAIN more :
             more[i] = last \/ more[i].kind \in {"delRefresh", "blacklist", "dropRead"}
    <3>2. /\ more \in Seq(Commands)
          /\ Len(drop) + 1 \in DOMAIN more /\ more[Len(drop) + 1] = last
          /\ \A i \in DOMAIN drop : i \in DOMAIN more /\ more[i] = drop[i]
          /\ \A i \in DOMAIN more : (i \in DOMAIN drop /\ more[i] = drop[i]) \/ i = Len(drop) + 1
      BY <2>3, <2>4, OneMore
    <3> HIDE DEF more
    <3> QED BY <2>4, <3>2
  <2> HIDE DEF more
  <2>8. Plain(more)
    BY <2>5, <2>7 DEF Plain, PlainKinds
  <2>9. HandsOver(r, more)
    <3>1. ASSUME NEW u \in Users, NEW d \in Devices, DropsBy(c, u, d) PROVE Drops(more, u, d)
      <4>1. c.user = u /\ d \in c.only /\ \E x \in hit : x.dev = d
        BY <3>1, <1>3
      <4>2. CASE s.dev = d
        BY <2>7, <4>2 DEF Drops, DropsBy
      <4>3. CASE s.dev # d
        <5>1. DropsBy(last, u, d)
          BY <2>5, <4>1, <4>3 DEF DropsBy
        <5> QED BY <2>7, <5>1 DEF Drops
      <4> QED BY <4>2, <4>3
    <3> QED BY <3>1, <2>5, <2>7 DEF HandsOver, c
  <2> QED BY <2>6, <2>7, <2>8, <2>9 DEF PlainStep
<1> QED BY <1>5, <1>6

LEMMA ConsumeIsPlain ==
  ASSUME AccountTypeOK, NEW r \in Slots, Consume(r)
  PROVE  PlainStep(r)
<1>1. Command(r) \in TokenCommands /\ Command(r).kind = "consume"
  BY Current, CommandOf DEF Consume, Doing, Command
<1>2. CASE Command(r).token \in stored
  <2> DEFINE c == [kind |-> "markUsed", token |-> Command(r).token]
             more == <<c>>
  <2>1. Proceed(r, more)
    BY <1>2 DEF Consume
  <2>2. c \in Commands /\ c.kind = "markUsed"
    BY <1>1 DEF TokenCommands, Commands
  <2> HIDE DEF c
  <2>3. more \in Seq(Commands) /\ DOMAIN more = {1} /\ more[1] = c
    BY <2>2
  <2> HIDE DEF more
  <2>4. Plain(more) /\ HandsOver(r, more)
    BY <1>1, <2>2, <2>3 DEF Plain, PlainKinds, HandsOver, DropsBy
  <2> QED BY <2>1, <2>3, <2>4 DEF PlainStep
<1>3. CASE Command(r).token \notin stored
  <2>1. Proceed(r, <<>>)
    BY <1>3 DEF Consume
  <2> QED BY <2>1, <1>1, ReturnIsPlain
<1> QED BY <1>2, <1>3

\* The commands that change neither a session, an index nor a version.
LEMMA PlainCommands ==
  ASSUME AccountTypeOK, NEW r \in Slots
  PROVE  /\ ReadDevice(r) \/ DelRefresh(r) \/ AddToBlacklist(r) \/ DropRead(r) \/ ListDevices(r)
              \/ CollectNext(r) \/ RevokeFound(r) \/ Consume(r) \/ MarkUsed(r)
            => PlainStep(r)
         /\ CheckSession(r) /\ IsLatest(Command(r).token) => PlainStep(r)
<1>1. DelRefresh(r) \/ AddToBlacklist(r) \/ MarkUsed(r) => PlainStep(r)
  BY ReturnIsPlain DEF DelRefresh, AddToBlacklist, MarkUsed, Doing, Command
<1>2. CheckSession(r) /\ IsLatest(Command(r).token) => PlainStep(r)
  BY ReturnIsPlain DEF CheckSession, Doing, Command
<1> QED BY <1>1, <1>2, ReadDeviceIsPlain, DropReadIsPlain, ListIsPlain, CollectNextIsPlain,
           RevokeFoundIsPlain, ConsumeIsPlain

\* They keep the types and the order.
LEMMA PlainTypes ==
  ASSUME AccountTypeOK, InOrder, NEW r \in Slots, slots[r] # Idle, PlainStep(r),
         Command(r).kind # "setVersion", UNCHANGED <<version, sessions, index, superseded, codeVars>>
  PROVE  AccountTypeOK' /\ InOrder'
<1> PICK more \in Seq(Commands) : Proceed(r, more) /\ Plain(more)
  BY DEF PlainStep
<1>1. Fits(r, more)
  BY PlainFits
<1>2. Grows /\ more \in Seq(Commands)'
  BY TodosGrow DEF Grows, Proceed, codeVars
<1>3. InOrder' /\ SlotsTypeOK' /\ revoked' \subseteq DOMAIN tokens' /\ UNCHANGED <<tokens, calm>>
  BY <1>1, <1>2, ProceedsInOrder, Proceeds
<1>4. SessionRow' = SessionRow /\ Code' = Code /\ GrantRow' = GrantRow
  BY <1>3 DEF SessionRow, Code, GrantRow, codeVars
<1> QED BY <1>3, <1>4 DEF AccountTypeOK, SessionTypeOK, CodeTypeOK, HasSession, codeVars, codeHistory

\* A command that returns without another, whatever it writes.
LEMMA Returns ==
  ASSUME AccountTypeOK, InOrder, NEW r \in Slots, slots[r] # Idle, Proceed(r, <<>>), Grows
  PROVE  SlotsTypeOK' /\ InOrder' /\ revoked' \subseteq DOMAIN tokens' /\ UNCHANGED <<tokens, calm>>
<1> DEFINE more == <<>>
<1>1. more \in Seq(Commands)' /\ Fits(r, more) /\ Proceed(r, more)
  BY DEF Fits
<1> HIDE DEF more
<1> QED BY <1>1, ProceedsInOrder, Proceeds

\* The new session or the command that leads to it takes the place of a command.
LEMMA ReplacedBy ==
  ASSUME AccountTypeOK, InOrder, NEW r \in Slots, slots[r] # Idle, Grows,
         NEW c \in Commands', Proceed(r, <<c>>), c.kind \notin {"spend", "setVersion"},
         Command(r).kind # "setVersion",
         c.kind \in LastOnly => Command(r).kind \in LastOnly
  PROVE  SlotsTypeOK' /\ InOrder' /\ revoked' \subseteq DOMAIN tokens' /\ UNCHANGED <<tokens, calm>>
<1> DEFINE more == <<c>>
<1>1. more \in Seq(Commands)' /\ DOMAIN more = {1} /\ more[1] = c /\ Len(more) = 1
  OBVIOUS
<1>2. Command(r).kind \in LastOnly => Len(slots[r].todo) = 1
  BY Current DEF InOrder
<1>3. Proceed(r, more)
  OBVIOUS
<1> HIDE DEF more
<1>4. Fits(r, more)
  BY <1>1, <1>2, Current DEF Fits
<1> QED BY <1>1, <1>3, <1>4, ProceedsInOrder, Proceeds

LEMMA SameRows ==
  ASSUME UNCHANGED <<tokens, mail>>
  PROVE  Grows /\ SessionRow' = SessionRow /\ Code' = Code /\ GrantRow' = GrantRow
BY DEF Grows, SessionRow, Code, GrantRow

\* Deleting and indexing.
LEMMA IndexTypes ==
  ASSUME AccountTypeOK, InOrder, NEW r \in Slots, UNCHANGED codeVars,
         DropKey(r) \/ Unindex(r) \/ AddToIndex(r) \/ SetVersion(r)
  PROVE  AccountTypeOK' /\ InOrder'
<1>1. slots[r] # Idle /\ Proceed(r, <<>>)
  BY DEF DropKey, Unindex, AddToIndex, SetVersion, Doing
<1>2. UNCHANGED <<tokens, mail>>
  BY <1>1 DEF Proceed, codeVars
<1>3. Grows /\ SessionRow' = SessionRow /\ Code' = Code /\ GrantRow' = GrantRow
  BY <1>2, SameRows
<1>4. InOrder' /\ SlotsTypeOK' /\ revoked' \subseteq DOMAIN tokens' /\ UNCHANGED <<tokens, calm>>
  BY <1>1, <1>3, Returns
<1>5. Command(r) \in Commands /\ slots[r].kills \subseteq DOMAIN tokens
  BY <1>1, Current
<1>6. /\ sessions' \in [Devices -> SessionRow \cup {NoSession}]
      /\ \A d \in Devices : HasSession(d)' => sessions'[d].dev = d
  <2>1. CASE DropKey(r)
    BY <2>1 DEF DropKey, AccountTypeOK, SessionTypeOK, HasSession
  <2>2. CASE UNCHANGED sessions
    BY <2>2 DEF AccountTypeOK, SessionTypeOK, HasSession
  <2> QED BY <2>1, <2>2 DEF Unindex, AddToIndex, SetVersion, redis
<1>7. index' \in [Users -> SUBSET Devices]
  <2>1. CASE Unindex(r) \/ AddToIndex(r)
    <3>1. Command(r) \in DeviceCommands
      BY <2>1, <1>5, CommandOf DEF Unindex, AddToIndex, Doing, Command
    <3> QED BY <2>1, <3>1, SMTT(30) DEF DeviceCommands, Unindex, AddToIndex, AccountTypeOK, SessionTypeOK
  <2>2. CASE UNCHANGED index
    BY <2>2 DEF AccountTypeOK, SessionTypeOK
  <2> QED BY <2>1, <2>2 DEF DropKey, SetVersion, redis
<1>8. version' \in [Users -> Nat \ {0}] /\ superseded' \subseteq DOMAIN tokens'
  <2>1. CASE SetVersion(r)
    <3>1. Command(r) \in VersionCommands
      BY <2>1, <1>5, CommandOf DEF SetVersion, Doing, Command
    <3> QED BY <2>1, <3>1, <1>2, <1>5 DEF VersionCommands, SetVersion, AccountTypeOK, SessionTypeOK
  <2>2. CASE UNCHANGED <<version, superseded>>
    BY <2>2, <1>2 DEF AccountTypeOK, SessionTypeOK
  <2> QED BY <2>1, <2>2 DEF DropKey, Unindex, AddToIndex, history
<1> QED BY <1>2, <1>3, <1>4, <1>6, <1>7, <1>8
       DEF AccountTypeOK, SessionTypeOK, CodeTypeOK, codeVars, codeHistory

\* Writing a session.
LEMMA RowTypes ==
  ASSUME AccountTypeOK, InOrder, NEW r \in Slots, UNCHANGED codeVars,
         CreateSession(r) \/ UpdateRead(r)
  PROVE  AccountTypeOK' /\ InOrder'
<1>1. slots[r] # Idle /\ Command(r) \in Commands
  BY Current DEF CreateSession, WriteSession, UpdateRead, Doing
<1>2. Command(r) \in RowCommands /\ Command(r).kind \in {"create", "update", "updateSet"}
  BY <1>1, CommandOf DEF CreateSession, WriteSession, UpdateRead, Doing, Command
<1>3. UNCHANGED <<tokens, mail, version, superseded>>
  BY DEF CreateSession, WriteSession, UpdateRead, Proceed, codeVars, history
<1>4. Grows /\ SessionRow' = SessionRow /\ Code' = Code /\ GrantRow' = GrantRow
  BY <1>3, SameRows
<1>5. InOrder' /\ SlotsTypeOK' /\ revoked' \subseteq DOMAIN tokens' /\ UNCHANGED <<tokens, calm>>
  <2>1. CASE Proceed(r, <<>>)
    BY <2>1, <1>1, <1>4, Returns
  <2>2. CASE CreateSession(r) /\ Doing(r, "create")
    <3> DEFINE c == [kind |-> "index", user |-> Command(r).session.user, dev |-> Command(r).dev]
    <3>1. c \in Commands /\ c.kind = "index"
      BY <1>2 DEF RowCommands, SessionRow, Commands, DeviceCommands
    <3>2. Proceed(r, <<c>>)
      BY <2>2 DEF CreateSession, WriteSession
    <3> HIDE DEF c
    <3> QED BY <3>1, <3>2, <1>1, <1>2, <1>4, CommandsGrow, ReplacedBy DEF LastOnly
  <2>3. CASE UpdateRead(r) /\ HasSession(Command(r).dev)
    <3> DEFINE d == Command(r).dev
               c == [kind |-> "updateSet", dev |-> d,
                     session |-> [sessions[d] EXCEPT !.token = Command(r).session.token]]
    <3>1. /\ d \in Devices /\ sessions[d] \in SessionRow /\ sessions[d].dev = d
          /\ Command(r).session.token \in DOMAIN tokens
      BY <2>3, <1>2 DEF RowCommands, SessionRow, AccountTypeOK, SessionTypeOK, HasSession
    <3>2. c \in RowCommands /\ c.kind = "updateSet"
      BY <3>1 DEF RowCommands, SessionRow
    <3>3. Proceed(r, <<c>>)
      BY <2>3 DEF UpdateRead
    <3> HIDE DEF c
    <3> QED BY <3>2, <3>3, <1>1, <1>2, <1>4, CommandsGrow, ReplacedBy DEF LastOnly, Commands
  <2> QED BY <2>1, <2>2, <2>3 DEF CreateSession, WriteSession, UpdateRead
<1>6. /\ sessions' \in [Devices -> SessionRow \cup {NoSession}]
      /\ \A d \in Devices : HasSession(d)' => sessions'[d].dev = d
  <2>1. CASE CreateSession(r)
    <3>1. sessions' = [sessions EXCEPT ![Command(r).dev] = Command(r).session]
      BY <2>1 DEF CreateSession, WriteSession
    <3>2. /\ Command(r).dev \in Devices /\ Command(r).session \in SessionRow
          /\ Command(r).session.dev = Command(r).dev
      BY <1>2 DEF RowCommands
    <3> QED BY <3>1, <3>2 DEF AccountTypeOK, SessionTypeOK, HasSession
  <2>2. CASE UpdateRead(r)
    BY <2>2 DEF UpdateRead, redis, AccountTypeOK, SessionTypeOK, HasSession
  <2> QED BY <2>1, <2>2
<1>7. index' = index
  BY DEF CreateSession, WriteSession, UpdateRead, redis
<1> QED BY <1>3, <1>4, <1>5, <1>6, <1>7
       DEF AccountTypeOK, SessionTypeOK, CodeTypeOK, codeVars, codeHistory

\* What Issue adds and what comes after it.
LEMMA Issues ==
  ASSUME AccountTypeOK, InOrder, NEW r \in Slots, Issue(r), UNCHANGED mail
  PROVE  LET c == Command(r)
             n == Len(tokens) + 1
             row == [user |-> c.token.user, dev |-> c.token.dev, token |-> n]
             next == [kind |-> c.then, dev |-> c.token.dev, session |-> row]
         IN /\ c \in IssueCommands /\ c.kind = "issue" /\ slots[r] # Idle
            /\ tokens' \in Seq(Token) /\ tokens' = Append(tokens, c.token)
            /\ DOMAIN tokens' = DOMAIN tokens \cup {n} /\ n \notin DOMAIN tokens
            /\ \A m \in DOMAIN tokens : tokens'[m] = tokens[m]
            /\ tokens'[n] = c.token
            /\ next \in RowCommands' /\ row \in SessionRow'
            /\ slots'[r] = [todo |-> <<next>>, kills |-> slots[r].kills]
            /\ \A x \in Slots : x # r => slots'[x] = slots[x]
            /\ SlotsTypeOK' /\ InOrder' /\ Grows
            /\ slots[r].todo = <<c>>
<1> DEFINE c == Command(r)
           n == Len(tokens) + 1
           row == [user |-> c.token.user, dev |-> c.token.dev, token |-> n]
           next == [kind |-> c.then, dev |-> c.token.dev, session |-> row]
<1>1. slots[r] # Idle /\ c \in IssueCommands /\ c.kind = "issue"
  BY Current, CommandOf DEF Issue, Doing, Command
<1>2. c.token \in Token /\ c.then \in {"create", "update"}
  BY <1>1 DEF IssueCommands
<1>3. Len(slots[r].todo) = 1 /\ slots[r].todo \in Seq(Commands)
  BY <1>1, Current DEF InOrder, LastOnly
<1>4. slots[r].todo = <<c>> /\ Tail(slots[r].todo) = <<>>
  BY <1>3, <1>1, Current, Single
<1>5. /\ tokens' = Append(tokens, c.token)
      /\ slots' = [slots EXCEPT ![r].todo = <<next>> \o Tail(slots[r].todo)]
  BY DEF Issue
<1>6. tokens \in Seq(Token) /\ slots \in [Slots -> Request]
  BY DEF AccountTypeOK, SessionTypeOK, SlotsTypeOK
<1>7. /\ tokens' \in Seq(Token) /\ DOMAIN tokens' = DOMAIN tokens \cup {n} /\ n \notin DOMAIN tokens
      /\ \A m \in DOMAIN tokens : tokens'[m] = tokens[m]
      /\ tokens'[n] = c.token
  <2> HIDE DEF c
  <2> QED BY <1>2, <1>5, <1>6
<1>8. row \in SessionRow' /\ next \in RowCommands'
  BY <1>2, <1>7 DEF SessionRow, RowCommands, Token
<1>9. Grows
  BY <1>7 DEF Grows
<1> HIDE DEF c, row, next, n
<1>10. <<next>> \o Tail(slots[r].todo) = <<next>>
  BY <1>4
<1>11. slots'[r] = [todo |-> <<next>>, kills |-> slots[r].kills]
  BY <1>5, <1>6, <1>10 DEF Request
<1>12. \A x \in Slots : x # r => slots'[x] = slots[x]
  BY <1>5, <1>6
<1>13. Request \subseteq Request'
  BY <1>9, TodosGrow DEF Grows, Request
<1>14. slots'[r] \in Request'
  <2>1. <<next>> \in Seq(Commands)'
    BY <1>8 DEF Commands
  <2>2. slots[r].kills \subseteq DOMAIN tokens'
    BY <1>1, <1>9, Current DEF Grows
  <2> QED BY <2>1, <2>2, <1>11 DEF Request
<1>15. SlotsTypeOK'
  <2>1. slots' \in [Slots -> Request']
    BY <1>5, <1>6, <1>12, <1>13, <1>14
  <2>2. slots'[r].todo # <<>>
    BY <1>11
  <2>3. \A x \in Slots : slots'[x].todo = <<>> => slots'[x] = Idle
    BY <1>12, <2>2 DEF AccountTypeOK, SessionTypeOK, SlotsTypeOK
  <2> QED BY <2>1, <2>3 DEF SlotsTypeOK
<1>16. InOrder'
  <2>1. next.kind \in {"create", "update"}
    BY <1>2 DEF next
  <2>2. \A i \in DOMAIN slots'[r].todo : i = 1 /\ i = Len(slots'[r].todo) /\ slots'[r].todo[i] = next
    BY <1>11
  <2> QED BY <1>12, <2>1, <2>2 DEF InOrder
<1> QED BY <1>1, <1>4, <1>5, <1>7, <1>8, <1>9, <1>11, <1>12, <1>15, <1>16 DEF c, row, next, n

\* A token that was used before revokes the session of its device.
LEMMA UsedTypes ==
  ASSUME AccountTypeOK, InOrder, NEW r \in Slots, GetUsed(r), UNCHANGED codeVars
  PROVE  /\ AccountTypeOK' /\ InOrder'
         /\ \A x \in Slots : x # r => slots'[x] = slots[x]
         /\ UNCHANGED <<tokens, calm, revoked>>
         /\ \/ slots'[r] = Idle
            \/ \E u \in Users, d \in Devices :
                 slots'[r] = [todo |-> <<[kind |-> "revokeByDevice", user |-> u, dev |-> d]>>,
                              kills |-> IssuedFor(u, d)]
<1>1. slots[r] # Idle /\ UNCHANGED <<tokens, mail, calm, revoked>>
  BY DEF GetUsed, Doing, Throw, codeVars, counters
<1>2. Grows /\ SessionRow' = SessionRow /\ Code' = Code /\ GrantRow' = GrantRow
  BY <1>1, SameRows
<1>3. /\ SlotsTypeOK' /\ InOrder'
      /\ \A x \in Slots : x # r => slots'[x] = slots[x]
      /\ \/ slots'[r] = Idle
         \/ \E u \in Users, d \in Devices :
              slots'[r] = [todo |-> <<[kind |-> "revokeByDevice", user |-> u, dev |-> d]>>,
                           kills |-> IssuedFor(u, d)]
  <2>1. CASE Throw(r)
    BY <1>1, <2>1, Throws
  <2>2. CASE ~Throw(r)
    <3> DEFINE t == tokens[Command(r).token]
               c == [kind |-> "revokeByDevice", user |-> t.user, dev |-> t.dev]
               request == [todo |-> <<c>>, kills |-> IssuedFor(t.user, t.dev)]
    <3>1. Command(r) \in TokenCommands
      BY <1>1, Current, CommandOf DEF GetUsed, Doing, Command
    <3>2. t.user \in Users /\ t.dev \in Devices
      <4>1. Command(r).token \in DOMAIN tokens /\ tokens \in Seq(Token)
        BY <3>1 DEF TokenCommands, AccountTypeOK, SessionTypeOK
      <4>2. t \in Token
        BY <4>1
      <4> QED BY <4>2 DEF Token
    <3>3. slots' = [slots EXCEPT ![r] = request] /\ slots \in [Slots -> Request]
      BY <2>2 DEF GetUsed, RevokeByDevice, AccountTypeOK, SessionTypeOK, SlotsTypeOK
    <3>4. c \in Commands' /\ c.kind = "revokeByDevice"
      BY <3>2 DEF Commands, DeviceCommands
    <3> HIDE DEF c
    <3>5. request \in Request' /\ request.todo = <<c>>
      BY <3>4, <1>1 DEF Request, IssuedFor, IssuedTo
    <3>6. Request \subseteq Request'
      BY <1>1, <1>2, TodosGrow DEF Request
    <3> HIDE DEF request
    <3>7. slots'[r] = request /\ \A x \in Slots : x # r => slots'[x] = slots[x]
      BY <3>3
    <3>8. SlotsTypeOK'
      <4>1. slots' \in [Slots -> Request']
        BY <3>3, <3>5, <3>6
      <4>2. request.todo # <<>>
        BY <3>5
      <4> QED BY <3>7, <4>1, <4>2 DEF SlotsTypeOK, AccountTypeOK, SessionTypeOK
    <3>9. InOrder'
      <4>1. \A i \in DOMAIN slots'[r].todo : i = 1 /\ slots'[r].todo[i] = c
        BY <3>5, <3>7
      <4> QED BY <4>1, <3>4, <3>7 DEF InOrder, HeadOnly, LastOnly
    <3> QED BY <3>2, <3>7, <3>8, <3>9 DEF request, c
  <2> QED BY <2>1, <2>2
<1>4. UNCHANGED <<version, sessions, index, superseded>>
  BY DEF GetUsed, redis, history
<1> QED BY <1>1, <1>2, <1>3, <1>4
       DEF AccountTypeOK, SessionTypeOK, CodeTypeOK, HasSession, codeVars, codeHistory

\* A request that throws keeps the types and the order.
LEMMA ThrowTypes ==
  ASSUME AccountTypeOK, InOrder, NEW r \in Slots, Throw(r), calm' \in BOOLEAN,
         UNCHANGED <<version, sessions, index, superseded, codeVars>>
  PROVE  AccountTypeOK' /\ InOrder'
<1>1. UNCHANGED <<tokens, mail, revoked>>
  BY DEF Throw, codeVars
<1>2. SlotsTypeOK' /\ InOrder'
  BY <1>1, Throws
<1>3. Grows /\ SessionRow' = SessionRow /\ Code' = Code /\ GrantRow' = GrantRow
  BY <1>1, SameRows
<1> QED BY <1>1, <1>2, <1>3
       DEF AccountTypeOK, SessionTypeOK, CodeTypeOK, HasSession, codeVars, codeHistory

LEMMA IssueTypes ==
  ASSUME AccountTypeOK, InOrder, NEW r \in Slots, Issue(r), UNCHANGED codeVars
  PROVE  AccountTypeOK' /\ InOrder'
<1>1. UNCHANGED <<version, sessions, index, superseded, calm, revoked, mail>>
  BY DEF Issue, codeVars, counters, history
<1>2. SlotsTypeOK' /\ InOrder' /\ Grows /\ tokens' \in Seq(Token) /\ Token' = Token
  BY <1>1, Issues DEF Token
<1>3. SessionRow \subseteq SessionRow' /\ Code' = Code /\ GrantRow' = GrantRow
  BY <1>1, <1>2, RowsGrow DEF Code, GrantRow
<1> QED BY <1>1, <1>2, <1>3
       DEF AccountTypeOK, SessionTypeOK, CodeTypeOK, HasSession, codeVars, codeHistory, Grows

\* Every command on sessions and tokens keeps the types and the order.
LEMMA RedisTypes ==
  ASSUME AccountTypeOK, InOrder, NEW r \in Slots, RedisCommand(r), UNCHANGED codeVars
  PROVE  AccountTypeOK' /\ InOrder'
<1>1. CASE ReadDevice(r) \/ DelRefresh(r) \/ AddToBlacklist(r) \/ DropRead(r) \/ ListDevices(r)
             \/ CollectNext(r) \/ RevokeFound(r) \/ Consume(r) \/ MarkUsed(r)
  <2>1. PlainStep(r)
    BY <1>1, PlainCommands
  <2>2. slots[r] # Idle /\ Command(r).kind # "setVersion"
    BY <1>1 DEF ReadDevice, DelRefresh, AddToBlacklist, DropRead, ListDevices, CollectNext,
                RevokeFound, Consume, MarkUsed, Doing, Command
  <2>3. UNCHANGED <<version, sessions, index, superseded, codeVars>>
    BY <1>1 DEF ReadDevice, DelRefresh, AddToBlacklist, DropRead, ListDevices, CollectNext,
                RevokeFound, Consume, MarkUsed, redis, history
  <2> QED BY <2>1, <2>2, <2>3, PlainTypes
<1>2. CASE DropKey(r) \/ Unindex(r) \/ AddToIndex(r) \/ SetVersion(r)
  BY <1>2, IndexTypes
<1>3. CASE CreateSession(r) \/ UpdateRead(r)
  BY <1>3, RowTypes
<1>4. CASE Issue(r)
  BY <1>4, IssueTypes
<1>5. CASE GetUsed(r)
  BY <1>5, UsedTypes
<1>6. CASE CheckSession(r)
  <2>1. /\ slots[r] # Idle /\ Command(r).kind # "setVersion"
        /\ UNCHANGED <<version, sessions, index, superseded, codeVars>>
    BY <1>6 DEF CheckSession, Doing, Command, redis, history
  <2>2. CASE IsLatest(Command(r).token)
    BY <1>6, <2>1, <2>2, PlainCommands, PlainTypes
  <2>3. CASE ~IsLatest(Command(r).token)
    BY <1>6, <2>1, <2>3, ThrowTypes DEF CheckSession, AccountTypeOK, SessionTypeOK
  <2> QED BY <2>2, <2>3
<1>7. CASE CommandFails(r)
  BY <1>7, ThrowTypes DEF CommandFails, redis, history
<1> QED BY <1>1, <1>2, <1>3, <1>4, <1>5, <1>6, <1>7 DEF RedisCommand

\* And so does every command on codes.
LEMMA CodeTypes ==
  ASSUME AccountTypeOK, InOrder, NEW r \in Slots, CodeCommand(r)
  PROVE  AccountTypeOK' /\ InOrder'
<1>1. /\ slots[r] # Idle /\ Command(r) \in Commands
      /\ UNCHANGED <<version, sessions, index, superseded, tokens, calm>>
  BY Current DEF CodeCommand, MailCode, WriteAttempt, CompareCode, VerifyEmail, GrantReset,
     SpendGrant, InsertUser, AccountCall, Doing, Proceed, redis, history, counters
<1>2. CASE MailCode(r)
  <2> DEFINE m == [user |-> Command(r).user, purpose |-> Command(r).purpose]
  <2>1. Command(r) \in MailCommands
    BY <1>1, <1>2, CommandOf DEF MailCode, Doing, Command
  <2>2. m \in [user: WithEmail, purpose: Purposes]
    BY <2>1 DEF MailCommands
  <2>3. /\ mail' = Append(mail, m) /\ Len(mail) < MaxCodes
        /\ codes' = [codes EXCEPT ![Command(r).purpose][Command(r).user] =
                       [mail |-> Len(mail'), attempts |-> 0]]
        /\ Proceed(r, <<>>)
        /\ UNCHANGED <<registered, grants, codeHistory>>
    BY <1>2 DEF MailCode, AccountCall
  <2>4. mail \in Seq([user: WithEmail, purpose: Purposes])
    BY DEF AccountTypeOK, CodeTypeOK
  <2> HIDE DEF m
  <2>5. /\ mail' \in Seq([user: WithEmail, purpose: Purposes])
        /\ Len(mail') = Len(mail) + 1 /\ Len(mail) \in Nat
        /\ DOMAIN mail \subseteq DOMAIN mail' /\ Len(mail') \in DOMAIN mail'
    BY <2>2, <2>3, <2>4
  <2>6. Len(mail') <= MaxCodes
    BY <2>3, <2>5, AccountAssumption
  <2>7. Grows /\ SessionRow' = SessionRow /\ Code \subseteq Code' /\ GrantRow \subseteq GrantRow'
    BY <1>1, <2>5, RowsGrow DEF Grows, SessionRow
  <2>8. codes' \in [Purposes -> [WithEmail -> Code' \cup {NoCode}]]
    <3>1. [mail |-> Len(mail'), attempts |-> 0] \in Code'
      BY <2>5 DEF Code
    <3> QED BY <2>1, <2>3, <2>7, <3>1 DEF MailCommands, AccountTypeOK, CodeTypeOK
  <2>9. InOrder' /\ SlotsTypeOK' /\ revoked' \subseteq DOMAIN tokens'
    BY <1>1, <2>3, <2>7, Returns
  <2> QED BY <1>1, <2>3, <2>5, <2>6, <2>7, <2>8, <2>9
         DEF AccountTypeOK, SessionTypeOK, CodeTypeOK, HasSession, codeHistory
<1>3. CASE ~MailCode(r)
  <2>1. UNCHANGED mail
    BY <1>3 DEF CodeCommand, WriteAttempt, CompareCode, VerifyEmail, GrantReset,
       SpendGrant, InsertUser
  <2>2. Grows /\ SessionRow' = SessionRow /\ Code' = Code /\ GrantRow' = GrantRow
    BY <1>1, <2>1, SameRows
  <2>3. CASE WriteAttempt(r)
    <3> DEFINE c == Command(r)
               counted == [c.code EXCEPT !.attempts = @ + 1]
               next == [c EXCEPT !.kind = "compare", !.code = counted]
    <3>1. c \in AttemptCommands
      BY <1>1, <2>3, CommandOf DEF WriteAttempt, Doing, Command
    <3>2. counted \in Code /\ c.purpose \in Purposes /\ c.user \in WithEmail
      BY <3>1 DEF AttemptCommands, Code
    <3>3. next \in AttemptCommands /\ next.kind = "compare"
      BY <3>1, <3>2 DEF AttemptCommands
    <3>4. /\ Proceed(r, <<next>>)
          /\ codes' = [codes EXCEPT ![c.purpose][c.user] = counted]
          /\ UNCHANGED <<registered, grants, codeHistory>>
      BY <2>3 DEF WriteAttempt
    <3>5. c.kind = "attempt"
      BY <2>3 DEF WriteAttempt, Doing, Command
    <3> HIDE DEF next, counted
    <3>6. InOrder' /\ SlotsTypeOK' /\ revoked' \subseteq DOMAIN tokens'
      BY <1>1, <2>2, <3>3, <3>4, <3>5, CommandsGrow, ReplacedBy DEF Commands, LastOnly
    <3>7. codes' \in [Purposes -> [WithEmail -> Code \cup {NoCode}]]
      BY <3>2, <3>4 DEF AccountTypeOK, CodeTypeOK
    <3> QED BY <1>1, <2>1, <2>2, <3>4, <3>6, <3>7
           DEF AccountTypeOK, SessionTypeOK, CodeTypeOK, HasSession, codeHistory
  <2>4. CASE CompareCode(r)
    <3> DEFINE c == Command(r)
               n == c.code.mail
               right == ~(c.code.attempts > MaxAttempts) /\ c.entered = n
               next == [kind |-> c.purpose, mail |-> n]
    <3>1. c \in AttemptCommands /\ c.kind = "compare"
      BY <1>1, <2>4, CommandOf DEF CompareCode, Doing, Command
    <3>2. /\ n \in DOMAIN mail /\ c.purpose \in Purposes /\ c.user \in WithEmail
          /\ n \in 1..MaxCodes
      BY <3>1, AccountAssumption DEF AttemptCommands, Code, AccountTypeOK, CodeTypeOK
    <3>3. next \in EffectCommands /\ next.kind \in {"verify", "reset"}
      BY <3>2 DEF EffectCommands, Purposes
    <3>4. /\ Proceed(r, IF right THEN <<next>> ELSE <<>>)
          /\ UNCHANGED <<registered, grants, resets>>
          /\ tries' = [tries EXCEPT ![n] = @ + 1]
          /\ accepted' = accepted \/ accepted' = [accepted EXCEPT ![n] = @ + 1]
          /\ codes' = codes \/ codes' = [codes EXCEPT ![c.purpose][c.user] = NoCode]
      BY <2>4 DEF CompareCode
    <3> HIDE DEF next, right, n
    <3>5. InOrder' /\ SlotsTypeOK' /\ revoked' \subseteq DOMAIN tokens'
      <4>1. CASE right
        BY <4>1, <1>1, <2>2, <3>1, <3>3, <3>4, CommandsGrow, ReplacedBy DEF Commands, LastOnly
      <4>2. CASE ~right
        BY <4>2, <1>1, <2>2, <3>4, Returns
      <4> QED BY <4>1, <4>2
    <3>6. codes' \in [Purposes -> [WithEmail -> Code \cup {NoCode}]]
      <4>1. codes \in [Purposes -> [WithEmail -> Code \cup {NoCode}]]
        BY DEF AccountTypeOK, CodeTypeOK
      <4>2. ASSUME NEW p \in Purposes, NEW u \in WithEmail
            PROVE  [codes EXCEPT ![p][u] = NoCode] \in [Purposes -> [WithEmail -> Code \cup {NoCode}]]
        BY <4>1
      <4>3. [codes EXCEPT ![c.purpose][c.user] = NoCode] \in [Purposes -> [WithEmail -> Code \cup {NoCode}]]
        BY <3>2, <4>2
      <4> QED BY <3>4, <4>1, <4>3
    <3>7. tries' \in [1..MaxCodes -> Nat] /\ accepted' \in [1..MaxCodes -> Nat]
      BY <3>2, <3>4 DEF AccountTypeOK, CodeTypeOK
    <3> QED BY <1>1, <2>1, <2>2, <3>4, <3>5, <3>6, <3>7, SMTT(40)
           DEF AccountTypeOK, SessionTypeOK, CodeTypeOK, HasSession
  <2>5. CASE VerifyEmail(r) \/ GrantReset(r) \/ SpendGrant(r) \/ InsertUser(r)
    <3>1. Proceed(r, <<>>) /\ UNCHANGED <<codes, codeHistory>>
      BY <2>5 DEF VerifyEmail, GrantReset, SpendGrant, InsertUser, AccountCall, codeVars
    <3>2. InOrder' /\ SlotsTypeOK' /\ revoked' \subseteq DOMAIN tokens'
      BY <1>1, <2>2, <3>1, Returns
    <3>3. registered' \subseteq Users
      <4>1. CASE InsertUser(r)
        <5>1. Command(r) \in RegisterCommands
          BY <1>1, <4>1, CommandOf DEF InsertUser, Doing, Command
        <5> QED BY <4>1, <5>1 DEF InsertUser, RegisterCommands, AccountTypeOK, CodeTypeOK
      <4> QED BY <2>5, <4>1 DEF VerifyEmail, GrantReset, SpendGrant, AccountTypeOK, CodeTypeOK
    <3>4. grants' \subseteq GrantRow
      <4>1. CASE GrantReset(r)
        <5>1. Command(r) \in EffectCommands
          BY <1>1, <4>1, CommandOf DEF GrantReset, Doing, Command
        <5>2. Command(r).mail \in DOMAIN mail /\ Command(r).mail \in 1..MaxCodes
          BY <5>1, AccountAssumption DEF EffectCommands, AccountTypeOK, CodeTypeOK
        <5>3. mail[Command(r).mail].user \in WithEmail
          <6>1. mail \in Seq([user: WithEmail, purpose: Purposes])
            BY DEF AccountTypeOK, CodeTypeOK
          <6>2. mail[Command(r).mail] \in [user: WithEmail, purpose: Purposes]
            BY <5>2, <6>1, Indexes
          <6> QED BY <6>2
        <5>4. Grant(Command(r).mail) \in GrantRow
          BY <5>2, <5>3 DEF Grant, GrantRow, AccountTypeOK, CodeTypeOK
        <5> QED BY <4>1, <5>4 DEF GrantReset, AccountTypeOK, CodeTypeOK
      <4> QED BY <2>5, <4>1 DEF VerifyEmail, SpendGrant, InsertUser, AccountTypeOK, CodeTypeOK
    <3> QED BY <1>1, <2>1, <2>2, <3>1, <3>2, <3>3, <3>4
           DEF AccountTypeOK, SessionTypeOK, CodeTypeOK, HasSession, codeHistory
  <2> QED BY <1>3, <2>3, <2>4, <2>5 DEF CodeCommand
<1> QED BY <1>2, <1>3

-----------------------------------------------------------------------------
(* Requests that start *)

\* The commands a request starts with, and the tokens it is to kill: whatever it
\* kills it drops, and it makes a session of a registered user, or registers
\* him, after it has dropped his other sessions on the web.
StartKinds == {"revokeByDevice", "list", "issue", "getUsed", "checkSession", "consume", "blacklist",
               "mail", "attempt", "register"}
Opening(todo, kills) ==
  /\ todo \in Seq(Commands) /\ todo # <<>> /\ kills \subseteq DOMAIN tokens
  /\ \A n \in kills : Drops(todo, tokens[n].user, tokens[n].dev)
  /\ \A i \in DOMAIN todo :
       LET c == todo[i]
       IN /\ c.kind \in StartKinds
          /\ c.kind = "attempt" => i = 1 /\ codes[c.purpose][c.user] = c.code
          /\ c.kind = "issue" => i = Len(todo) /\ c.token.version <= version[c.token.user]
          /\ \A u \in Users, d \in Devices :
               Makes(c, u, d) =>
                 /\ u \in registered \/ (todo[1].kind = "register" /\ todo[1].user = u)
                 /\ d \in WebDevices =>
                      u \notin registered \/ \A e \in WebDevices \ {d} : Drops(todo, u, e)

\* Requests of one command.
LEMMA OpensWithOne ==
  ASSUME NEW c \in Commands, c.kind \in StartKinds \ {"issue"},
         NEW kills \in SUBSET DOMAIN tokens,
         \A n \in kills : DropsBy(c, tokens[n].user, tokens[n].dev),
         c.kind = "attempt" => codes[c.purpose][c.user] = c.code
  PROVE  Opening(<<c>>, kills)
<1> DEFINE todo == <<c>>
<1>1. todo \in Seq(Commands) /\ DOMAIN todo = {1} /\ todo[1] = c /\ todo # <<>>
  OBVIOUS
<1> HIDE DEF todo
<1>2. \A u \in Users, d \in Devices : ~Makes(c, u, d)
  BY DEF Makes, StartKinds
<1>3. Opening(todo, kills)
  BY <1>1, <1>2 DEF Opening, Drops
<1> QED BY <1>3 DEF todo

LEMMA IssuedTyped ==
  ASSUME AccountTypeOK, NEW u, NEW d
  PROVE  /\ IssuedTo(u) \subseteq DOMAIN tokens /\ IssuedFor(u, d) \subseteq DOMAIN tokens
         /\ IssuedTo(u) \ IssuedFor(u, d) \subseteq DOMAIN tokens
         /\ \A n \in IssuedTo(u) : tokens[n].user = u /\ tokens[n].dev \in Devices
         /\ \A n \in IssuedFor(u, d) : tokens[n].user = u /\ tokens[n].dev = d
         /\ \A n \in IssuedTo(u) \ IssuedFor(u, d) : tokens[n].dev \in Devices \ {d}
<1>1. tokens \in Seq(Token)
  BY DEF AccountTypeOK, SessionTypeOK
<1>2. \A n \in DOMAIN tokens : tokens[n] \in Token
  BY <1>1, Indexes
<1> QED BY <1>2 DEF IssuedTo, IssuedFor, Token

LEMMA TokenTyped ==
  ASSUME AccountTypeOK, NEW n \in DOMAIN tokens
  PROVE  /\ tokens[n] \in Token
         /\ tokens[n].user \in Users /\ tokens[n].dev \in Devices /\ tokens[n].version \in Nat
<1>1. tokens \in Seq(Token)
  BY DEF AccountTypeOK, SessionTypeOK
<1>2. tokens[n] \in Token
  BY <1>1, Indexes
<1> QED BY <1>2 DEF Token

\* A request other than a password change starts with such commands.
Opens(r) ==
  \E todo, kills : Begin(r, todo, kills) /\ Opening(todo, kills)

LEMMA ListOpens ==
  ASSUME NEW u \in Users, NEW ds \in SUBSET Devices, NEW kills \in SUBSET DOMAIN tokens,
         \A n \in kills : tokens[n].user = u /\ tokens[n].dev \in ds
  PROVE  Opening(RevokeListed(u, ds), kills)
<1> DEFINE c == [kind |-> "list", user |-> u, only |-> ds]
<1>1. c \in Commands /\ c.kind = "list" /\ c.user = u /\ c.only = ds
  BY DEF Commands, ListCommands
<1>2. RevokeListed(u, ds) = <<c>>
  BY DEF RevokeListed
<1> HIDE DEF c
<1> QED BY <1>1, <1>2, OpensWithOne DEF StartKinds, DropsBy

LEMMA RevokeOpens ==
  ASSUME AccountTypeOK, NEW u \in Users, NEW d \in Devices
  PROVE  Opening(RevokeByDevice(u, d), IssuedFor(u, d))
<1> DEFINE c == [kind |-> "revokeByDevice", user |-> u, dev |-> d]
<1>1. c \in Commands /\ c.kind = "revokeByDevice" /\ c.user = u /\ c.dev = d
  BY DEF Commands, DeviceCommands
<1>2. RevokeByDevice(u, d) = <<c>>
  BY DEF RevokeByDevice
<1> HIDE DEF c
<1> QED BY <1>1, <1>2, OpensWithOne, IssuedTyped DEF StartKinds, DropsBy

\* Logins: the device's session, the other web sessions, and a new one.
LEMMA LoginOpens ==
  ASSUME AccountTypeOK, NEW u \in registered, NEW d \in Devices
  PROVE  Opening(LoginCalls(u, d), IssuedFor(u, d))
<1> DEFINE first == [kind |-> "revokeByDevice", user |-> u, dev |-> d]
           others == [kind |-> "list", user |-> u, only |-> WebDevices \ {d}]
           last == [kind |-> "issue", token |-> [user |-> u, dev |-> d, version |-> version[u]],
                    then |-> "create"]
           list == IF d \in WebDevices THEN <<others>> ELSE <<>>
           todo == <<first>> \o list \o <<last>>
<1>1. u \in Users /\ version[u] \in Nat
  BY DEF AccountTypeOK, SessionTypeOK, CodeTypeOK
<1>2. /\ first \in Commands /\ first.kind = "revokeByDevice" /\ first.user = u /\ first.dev = d
      /\ others \in Commands /\ others.kind = "list" /\ others.user = u
      /\ others.only = WebDevices \ {d}
      /\ last \in Commands /\ last.kind = "issue" /\ last.token.version = version[last.token.user]
      /\ last.token.user = u /\ last.token.dev = d
  BY <1>1, SessionAssumption
     DEF Commands, DeviceCommands, ListCommands, IssueCommands, Token
<1>3. LoginCalls(u, d) = todo
  BY DEF LoginCalls, RevokeByDevice, RevokeListed, IssueCalls
<1> HIDE DEF first, others, last
<1>4. <<last>> \in Seq(Commands) /\ list \in Seq(Commands) /\ Len(list) <= 1 /\ Len(<<last>>) <= 1
  BY <1>2
<1>5. /\ d \in WebDevices => DOMAIN list = {1} /\ list[1] = others
      /\ d \notin WebDevices => DOMAIN list = {}
      /\ DOMAIN <<last>> = {1} /\ <<last>>[1] = last
  BY <1>2
<1> HIDE DEF list
<1>6. LET these == <<first>> \o list \o <<last>>
      IN /\ these \in Seq(Commands) /\ these # <<>>
         /\ 1 \in DOMAIN these /\ these[1] = first
         /\ \A i \in DOMAIN these :
              i = 1 \/ (i = 2 /\ 1 \in DOMAIN list /\ these[i] = list[1])
                \/ (i = Len(these) /\ 1 \in DOMAIN <<last>> /\ these[i] = <<last>>[1])
         /\ 1 \in DOMAIN list => 2 \in DOMAIN these /\ these[2] = list[1]
  BY <1>2, <1>4, Parts
<1>7. todo = <<first>> \o list \o <<last>>
  OBVIOUS
<1> HIDE DEF todo
<1>8. todo \in Seq(Commands) /\ todo # <<>>
  BY <1>6, <1>7
<1>9. /\ 1 \in DOMAIN todo /\ todo[1] = first
      /\ d \in WebDevices => \E i \in DOMAIN todo : todo[i] = others
      /\ \A i \in DOMAIN todo : todo[i] \in {first, others} \/ (i = Len(todo) /\ todo[i] = last)
  BY <1>5, <1>6, <1>7
<1>10. \A i \in DOMAIN todo :
         /\ todo[i].kind \in StartKinds \ {"attempt"}
         /\ todo[i].kind = "issue" => i = Len(todo) /\ todo[i] = last
  BY <1>2, <1>9 DEF StartKinds
<1>11. Drops(todo, u, d)
  BY <1>2, <1>9 DEF Drops, DropsBy
<1>12. d \in WebDevices => \A e \in WebDevices \ {d} : Drops(todo, u, e)
  BY <1>2, <1>9 DEF Drops, DropsBy
<1>13. \A i \in DOMAIN todo, x \in Users, e \in Devices : Makes(todo[i], x, e) => x = u /\ e = d
  BY <1>2, <1>10 DEF Makes, StartKinds
<1>14. last.token.version <= version[last.token.user]
  BY <1>1, <1>2
<1>15. /\ IssuedFor(u, d) \subseteq DOMAIN tokens
       /\ \A n \in IssuedFor(u, d) : tokens[n].user = u /\ tokens[n].dev = d
  BY IssuedTyped
<1>16. Opening(todo, IssuedFor(u, d))
  BY <1>1, <1>8, <1>10, <1>11, <1>12, <1>13, <1>14, <1>15 DEF Opening
<1> QED BY <1>3, <1>16

\* A request that makes no session, from what each of its commands is.
LEMMA OpensWithout ==
  ASSUME NEW todo \in Seq(Commands), todo # <<>>, NEW kills \in SUBSET DOMAIN tokens,
         \A n \in kills : Drops(todo, tokens[n].user, tokens[n].dev),
         \A i \in DOMAIN todo :
           /\ todo[i].kind \in StartKinds \ {"attempt"}
           /\ todo[i].kind = "issue" => /\ i = Len(todo) /\ todo[i].then # "create"
                                        /\ todo[i].token.version <= version[todo[i].token.user]
  PROVE  Opening(todo, kills)
<1>1. \A i \in DOMAIN todo, u \in Users, d \in Devices : ~Makes(todo[i], u, d)
  BY DEF Makes, StartKinds
<1> QED BY <1>1 DEF Opening

LEMMA RefreshOpens ==
  ASSUME AccountTypeOK, NEW n \in DOMAIN tokens, CurrentVersion(n)
  PROVE  Opening(<<[kind |-> "checkSession", token |-> n]>> \o <<[kind |-> "consume", token |-> n]>>
                   \o IssueCalls(tokens[n].user, tokens[n].dev, tokens[n].version, "update"), {})
<1> DEFINE first == [kind |-> "checkSession", token |-> n]
           mid == [kind |-> "consume", token |-> n]
           last == [kind |-> "issue", token |-> [user |-> tokens[n].user, dev |-> tokens[n].dev,
                                                 version |-> tokens[n].version], then |-> "update"]
           todo == <<first>> \o <<mid>> \o <<last>>
<1>1. /\ tokens[n].user \in Users /\ tokens[n].dev \in Devices /\ tokens[n].version \in Nat
      /\ tokens[n].version = version[tokens[n].user]
  BY TokenTyped DEF CurrentVersion
<1>2. /\ first \in Commands /\ first.kind = "checkSession"
      /\ mid \in Commands /\ mid.kind = "consume"
      /\ last \in Commands /\ last.kind = "issue" /\ last.then = "update"
      /\ last.token.version = version[last.token.user] /\ last.token.version \in Nat
  BY <1>1 DEF Commands, TokenCommands, IssueCommands, Token
<1>3. todo = <<[kind |-> "checkSession", token |-> n]>> \o <<[kind |-> "consume", token |-> n]>>
               \o IssueCalls(tokens[n].user, tokens[n].dev, tokens[n].version, "update")
  BY DEF IssueCalls
<1> HIDE DEF first, mid, last
<1>4. /\ <<mid>> \in Seq(Commands) /\ Len(<<mid>>) <= 1 /\ DOMAIN <<mid>> = {1} /\ <<mid>>[1] = mid
      /\ <<last>> \in Seq(Commands) /\ Len(<<last>>) <= 1 /\ DOMAIN <<last>> = {1} /\ <<last>>[1] = last
  BY <1>2
<1>5. LET these == <<first>> \o <<mid>> \o <<last>>
      IN /\ these \in Seq(Commands) /\ these # <<>>
         /\ 1 \in DOMAIN these /\ these[1] = first
         /\ \A i \in DOMAIN these :
              i = 1 \/ (i = 2 /\ 1 \in DOMAIN <<mid>> /\ these[i] = <<mid>>[1])
                \/ (i = Len(these) /\ 1 \in DOMAIN <<last>> /\ these[i] = <<last>>[1])
  BY <1>2, <1>4, Parts
<1>6. /\ todo \in Seq(Commands) /\ todo # <<>>
      /\ \A i \in DOMAIN todo : todo[i] \in {first, mid} \/ (i = Len(todo) /\ todo[i] = last)
  BY <1>4, <1>5
<1> HIDE DEF todo
<1>7. \A i \in DOMAIN todo :
        /\ todo[i].kind \in StartKinds \ {"attempt"}
        /\ todo[i].kind = "issue" => /\ i = Len(todo) /\ todo[i].then # "create"
                                     /\ todo[i].token.version <= version[todo[i].token.user]
  BY <1>2, <1>6 DEF StartKinds
<1>8. Opening(todo, {})
  BY <1>6, <1>7, OpensWithout
<1> QED BY <1>3, <1>8

LEMMA LogoutOpens ==
  ASSUME AccountTypeOK, NEW n \in DOMAIN tokens, NEW u \in Users, NEW d \in Devices
  PROVE  Opening(RevokeByDevice(u, d) \o <<[kind |-> "blacklist", token |-> n]>>, IssuedFor(u, d))
<1> DEFINE first == [kind |-> "revokeByDevice", user |-> u, dev |-> d]
           last == [kind |-> "blacklist", token |-> n]
           todo == <<first>> \o <<last>>
<1>1. /\ first \in Commands /\ first.kind = "revokeByDevice" /\ first.user = u /\ first.dev = d
      /\ last \in Commands /\ last.kind = "blacklist"
  BY DEF Commands, DeviceCommands, TokenCommands
<1>2. RevokeByDevice(u, d) \o <<[kind |-> "blacklist", token |-> n]>> = todo
  BY DEF RevokeByDevice
<1> HIDE DEF first, last
<1>3. /\ <<first>> \in Seq(Commands) /\ Len(<<first>>) = 1 /\ DOMAIN <<first>> = {1} /\ <<first>>[1] = first
      /\ <<last>> \in Seq(Commands) /\ DOMAIN <<last>> = {1} /\ <<last>>[1] = last
  BY <1>1
<1>4. LET these == <<first>> \o <<last>>
      IN /\ these \in Seq(Commands) /\ Len(these) = Len(<<first>>) + 1
         /\ Len(<<first>>) + 1 \in DOMAIN these /\ these[Len(<<first>>) + 1] = <<last>>[1]
         /\ \A i \in DOMAIN <<first>> : i \in DOMAIN these /\ these[i] = <<first>>[i]
         /\ \A i \in DOMAIN these :
              (i \in DOMAIN <<first>> /\ these[i] = <<first>>[i]) \/ i = Len(<<first>>) + 1
  BY <1>3, OneMore
<1>5. /\ todo \in Seq(Commands) /\ Len(todo) = 2 /\ 1 \in DOMAIN todo /\ todo[1] = first
      /\ \A i \in DOMAIN todo : todo[i] \in {first, last}
  BY <1>3, <1>4
<1> HIDE DEF todo
<1>6. todo # <<>>
  <2>1. Len(<<>>) = 0 /\ 2 # 0
    OBVIOUS
  <2>2. Len(todo) = 2
    BY <1>5
  <2> QED BY <2>1, <2>2, Zenon
<1>7. \A i \in DOMAIN todo : todo[i].kind \in StartKinds \ {"attempt", "issue"}
  BY <1>1, <1>5 DEF StartKinds
<1>8. Drops(todo, u, d)
  BY <1>1, <1>5 DEF Drops, DropsBy
<1>9. /\ IssuedFor(u, d) \subseteq DOMAIN tokens
      /\ \A m \in IssuedFor(u, d) : tokens[m].user = u /\ tokens[m].dev = d
  BY IssuedTyped
<1>10. Opening(todo, IssuedFor(u, d))
  BY <1>5, <1>6, <1>7, <1>8, <1>9, OpensWithout
<1> QED BY <1>2, <1>10

LEMMA RegisterOpens ==
  ASSUME AccountTypeOK, NEW u \in Users, u \notin registered, NEW d \in Devices,
         NEW verification \in BOOLEAN
  PROVE  Opening(<<[kind |-> "register", user |-> u]>>
                   \o (IF u \in WithEmail THEN MailCall(u, "verify") ELSE <<>>)
                   \o (IF verification THEN <<>> ELSE IssueCalls(u, d, 1, "create")), {})
<1> DEFINE first == [kind |-> "register", user |-> u]
           letter == [kind |-> "mail", user |-> u, purpose |-> "verify"]
           new == [kind |-> "issue", token |-> [user |-> u, dev |-> d, version |-> 1], then |-> "create"]
           mid == IF u \in WithEmail THEN <<letter>> ELSE <<>>
           last == IF verification THEN <<>> ELSE <<new>>
           todo == <<first>> \o mid \o last
<1>1. version[u] \in Nat \ {0}
  BY DEF AccountTypeOK, SessionTypeOK
<1>2. /\ first \in Commands /\ first.kind = "register" /\ first.user = u
      /\ u \in WithEmail => letter \in Commands
      /\ letter.kind = "mail"
      /\ new \in Commands /\ new.kind = "issue" /\ new.token.user = u /\ new.token.version = 1
  BY DEF Commands, RegisterCommands, MailCommands, IssueCommands, Token, Purposes
<1>3. todo = <<[kind |-> "register", user |-> u]>>
                \o (IF u \in WithEmail THEN MailCall(u, "verify") ELSE <<>>)
                \o (IF verification THEN <<>> ELSE IssueCalls(u, d, 1, "create"))
  BY DEF MailCall, IssueCalls
<1> HIDE DEF first, letter, new
<1>4. /\ mid \in Seq(Commands) /\ Len(mid) <= 1 /\ \A i \in DOMAIN mid : mid[i] = letter
      /\ last \in Seq(Commands) /\ Len(last) <= 1 /\ \A i \in DOMAIN last : last[i] = new
  <2>1. mid \in Seq(Commands) /\ Len(mid) <= 1 /\ \A i \in DOMAIN mid : mid[i] = letter
    <3>1. CASE u \in WithEmail
      BY <1>2, <3>1
    <3>2. CASE u \notin WithEmail
      BY <3>2
    <3> QED BY <3>1, <3>2
  <2>2. last \in Seq(Commands) /\ Len(last) <= 1 /\ \A i \in DOMAIN last : last[i] = new
    <3>1. CASE verification
      BY <3>1
    <3>2. CASE ~verification
      BY <1>2, <3>2
    <3> QED BY <3>1, <3>2
  <2> QED BY <2>1, <2>2
<1> HIDE DEF mid, last
<1>5. LET these == <<first>> \o mid \o last
      IN /\ these \in Seq(Commands) /\ these # <<>>
         /\ 1 \in DOMAIN these /\ these[1] = first
         /\ \A i \in DOMAIN these :
              i = 1 \/ (i = 2 /\ 1 \in DOMAIN mid /\ these[i] = mid[1])
                \/ (i = Len(these) /\ 1 \in DOMAIN last /\ these[i] = last[1])
  BY <1>2, <1>4, Parts
<1>6. /\ todo \in Seq(Commands) /\ todo # <<>> /\ todo[1] = first
      /\ \A i \in DOMAIN todo : todo[i] \in {first, letter} \/ (i = Len(todo) /\ todo[i] = new)
  BY <1>4, <1>5
<1> HIDE DEF todo
<1>7. \A i \in DOMAIN todo :
        /\ todo[i].kind \in StartKinds \ {"attempt"}
        /\ todo[i].kind = "issue" => i = Len(todo) /\ todo[i] = new
  BY <1>2, <1>6 DEF StartKinds
<1>8. \A i \in DOMAIN todo, x \in Users, e \in Devices : Makes(todo[i], x, e) => x = u
  BY <1>2, <1>7 DEF Makes, StartKinds
<1>9. Opening(todo, {})
  BY <1>1, <1>2, <1>6, <1>7, <1>8 DEF Opening
<1> QED BY <1>3, <1>9

\* The requests about codes.
LEMMA CodeOpens ==
  ASSUME AccountTypeOK, NEW u \in WithEmail, NEW purpose \in Purposes
  PROVE  /\ Opening(MailCall(u, purpose), {})
         /\ \A n \in Nat : codes[purpose][u] # NoCode =>
              Opening(<<[kind |-> "attempt", user |-> u, purpose |-> purpose,
                         entered |-> n, code |-> codes[purpose][u]]>>, {})
<1>1. Opening(MailCall(u, purpose), {})
  <2> DEFINE c == [kind |-> "mail", user |-> u, purpose |-> purpose]
  <2>1. c \in Commands /\ c.kind = "mail"
    BY DEF Commands, MailCommands
  <2>2. MailCall(u, purpose) = <<c>>
    BY DEF MailCall
  <2> HIDE DEF c
  <2> QED BY <2>1, <2>2, OpensWithOne DEF StartKinds
<1>2. ASSUME NEW n \in Nat, codes[purpose][u] # NoCode
      PROVE  Opening(<<[kind |-> "attempt", user |-> u, purpose |-> purpose,
                        entered |-> n, code |-> codes[purpose][u]]>>, {})
  <2> DEFINE c == [kind |-> "attempt", user |-> u, purpose |-> purpose,
                   entered |-> n, code |-> codes[purpose][u]]
  <2>1. codes[purpose][u] \in Code
    BY <1>2 DEF AccountTypeOK, CodeTypeOK
  <2>2. /\ c \in Commands /\ c.kind = "attempt"
        /\ codes[c.purpose][c.user] = c.code
    BY <2>1 DEF Commands, AttemptCommands
  <2> HIDE DEF c
  <2>3. Opening(<<c>>, {})
    BY <2>2, OpensWithOne DEF StartKinds
  <2> QED BY <2>3 DEF c
<1> QED BY <1>1, <1>2

\* A token that was used before.
LEMMA ReuseOpens ==
  ASSUME NEW n \in DOMAIN tokens
  PROVE  Opening(<<[kind |-> "getUsed", token |-> n]>>, {})
<1> DEFINE c == [kind |-> "getUsed", token |-> n]
<1>1. c \in Commands /\ c.kind = "getUsed"
  BY DEF Commands, TokenCommands
<1> HIDE DEF c
<1>2. Opening(<<c>>, {})
  BY <1>1, OpensWithOne DEF StartKinds
<1> QED BY <1>2 DEF c

\* A request that changes a password: the version, the grant if there is one,
\* and every session of the user.
Renewal(todo, u) ==
  /\ todo \in Seq(Commands) /\ todo # <<>>
  /\ todo[1].kind = "setVersion" /\ todo[1].user = u /\ todo[1].version = version[u] + 1
  /\ \A i \in DOMAIN todo : i # 1 => \/ i = 2 /\ todo[i].kind = "spend"
                                     \/ todo[i].kind = "list"
  /\ \A d \in Devices : Drops(todo, u, d)

Renews(r, u) ==
  \E todo : /\ Start(r, todo, IssuedTo(u)) /\ Renewal(todo, u)
            /\ overlapped' = IF \E x \in Slots : ChangesPassword(x, u) THEN overlapped \cup {u}
                             ELSE overlapped

LEMMA RenewalOf ==
  ASSUME AccountTypeOK, NEW u \in Users, NEW following \in Seq(SpendCommands), Len(following) <= 1
  PROVE  LET todo == <<[kind |-> "setVersion", user |-> u, version |-> version[u] + 1]>>
                       \o following \o RevokeListed(u, Devices)
         IN /\ Renewal(todo, u)
            /\ 1 \in DOMAIN following => \E i \in DOMAIN todo : todo[i] = following[1]
<1> DEFINE first == [kind |-> "setVersion", user |-> u, version |-> version[u] + 1]
           last == [kind |-> "list", user |-> u, only |-> Devices]
           todo == <<first>> \o following \o <<last>>
<1>1. /\ first \in Commands /\ first.kind = "setVersion" /\ first.user = u
      /\ first.version = version[u] + 1
      /\ last \in Commands /\ last.kind = "list" /\ last.user = u /\ last.only = Devices
  BY DEF AccountTypeOK, SessionTypeOK, Commands, VersionCommands, ListCommands
<1>2. todo = <<[kind |-> "setVersion", user |-> u, version |-> version[u] + 1]>>
               \o following \o RevokeListed(u, Devices)
  BY DEF RevokeListed
<1> HIDE DEF first, last
<1>3. /\ following \in Seq(Commands)
      /\ \A i \in DOMAIN following : following[i].kind = "spend"
  <2>1. SpendCommands \subseteq Commands /\ \A c \in SpendCommands : c.kind = "spend"
    BY DEF Commands, SpendCommands
  <2> QED BY <2>1
<1>4. <<last>> \in Seq(Commands) /\ Len(<<last>>) <= 1 /\ DOMAIN <<last>> = {1} /\ <<last>>[1] = last
  BY <1>1
<1>5. LET these == <<first>> \o following \o <<last>>
      IN /\ these \in Seq(Commands) /\ these # <<>>
         /\ 1 \in DOMAIN these /\ these[1] = first
         /\ \A i \in DOMAIN these :
              i = 1 \/ (i = 2 /\ 1 \in DOMAIN following /\ these[i] = following[1])
                \/ (i = Len(these) /\ 1 \in DOMAIN <<last>> /\ these[i] = <<last>>[1])
         /\ 1 \in DOMAIN following => 2 \in DOMAIN these /\ these[2] = following[1]
         /\ 1 \in DOMAIN <<last>> => Len(these) \in DOMAIN these /\ these[Len(these)] = <<last>>[1]
  BY <1>1, <1>3, <1>4, Parts
<1>6. /\ todo \in Seq(Commands) /\ todo # <<>> /\ todo[1] = first
      /\ \A i \in DOMAIN todo :
           i = 1 \/ (i = 2 /\ todo[i].kind = "spend") \/ todo[i] = last
      /\ 1 \in DOMAIN following => \E i \in DOMAIN todo : todo[i] = following[1]
      /\ \E i \in DOMAIN todo : todo[i] = last
  BY <1>3, <1>4, <1>5
<1> HIDE DEF todo
<1>7. Renewal(todo, u)
  BY <1>1, <1>6 DEF Renewal, Drops, DropsBy
<1> QED BY <1>2, <1>6, <1>7

\* Whatever else is not a command is the start of a request.
LEMMA TokensOpen ==
  ASSUME AccountTypeOK, NEW r \in Slots, TokenUseCase(r)
  PROVE  Opens(r) \/ \E u \in Users : Renews(r, u)
<1> PICK n \in DOMAIN tokens :
      \/ RefreshToken(r, n)
      \/ ReuseRefreshToken(r, n)
      \/ LogoutAll(r, n)
      \/ RevokeOtherSessions(r, n)
      \/ ChangePassword(r, n)
      \/ \E d \in Devices : Logout(r, n, d)
      \/ \E d \in Devices : RevokeSession(r, n, d)
  BY DEF TokenUseCase
<1> DEFINE u == tokens[n].user
           e == tokens[n].dev
<1>1. u \in Users /\ e \in Devices
  BY TokenTyped
<1> HIDE DEF u, e
<1>2. CASE RefreshToken(r, n)
  BY <1>2, RefreshOpens DEF RefreshToken, Opens
<1>3. CASE ReuseRefreshToken(r, n)
  BY <1>3, ReuseOpens DEF ReuseRefreshToken, Opens
<1>4. CASE LogoutAll(r, n)
  <2>1. Begin(r, RevokeListed(u, Devices), IssuedTo(u))
    BY <1>4 DEF LogoutAll, u
  <2>2. IssuedTo(u) \subseteq DOMAIN tokens /\ \A m \in IssuedTo(u) : tokens[m].user = u /\ tokens[m].dev \in Devices
    BY IssuedTyped
  <2>3. Opening(RevokeListed(u, Devices), IssuedTo(u))
    BY <1>1, <2>2, ListOpens
  <2> QED BY <2>1, <2>3 DEF Opens
<1>5. CASE RevokeOtherSessions(r, n)
  <2> DEFINE kills == IssuedTo(u) \ IssuedFor(u, e)
             ds == Devices \ {e}
  <2>1. Begin(r, RevokeListed(u, ds), kills)
    BY <1>5 DEF RevokeOtherSessions, u, e
  <2>2. /\ kills \in SUBSET DOMAIN tokens /\ ds \in SUBSET Devices
        /\ \A m \in kills : tokens[m].user = u /\ tokens[m].dev \in ds
    BY IssuedTyped
  <2> HIDE DEF kills, ds
  <2>3. Opening(RevokeListed(u, ds), kills)
    BY <1>1, <2>2, ListOpens
  <2> QED BY <2>1, <2>3 DEF Opens
<1>6. CASE ChangePassword(r, n)
  <2> DEFINE following == <<>>
             todo == <<[kind |-> "setVersion", user |-> u, version |-> version[u] + 1]>>
                       \o following \o RevokeListed(u, Devices)
  <2>1. ChangePasswordOf(r, u, following)
    BY <1>6 DEF ChangePassword, u
  <2>2. following \in Seq(SpendCommands) /\ Len(following) <= 1
    OBVIOUS
  <2> HIDE DEF following
  <2>3. Renewal(todo, u)
    BY <1>1, <2>2, RenewalOf
  <2> QED BY <1>1, <2>1, <2>3 DEF ChangePasswordOf, Renews
<1>7. CASE \E d \in Devices : Logout(r, n, d)
  <2> PICK d \in Devices : Logout(r, n, d)
    BY <1>7
  <2>1. Begin(r, RevokeByDevice(u, d) \o <<[kind |-> "blacklist", token |-> n]>>, IssuedFor(u, d))
    BY DEF Logout, u
  <2>2. Opening(RevokeByDevice(u, d) \o <<[kind |-> "blacklist", token |-> n]>>, IssuedFor(u, d))
    BY <1>1, LogoutOpens
  <2> QED BY <2>1, <2>2 DEF Opens
<1>8. CASE \E d \in Devices : RevokeSession(r, n, d)
  <2> PICK d \in Devices : RevokeSession(r, n, d)
    BY <1>8
  <2>1. Begin(r, RevokeByDevice(u, d), IssuedFor(u, d))
    BY DEF RevokeSession, u
  <2>2. Opening(RevokeByDevice(u, d), IssuedFor(u, d))
    BY <1>1, RevokeOpens
  <2> QED BY <2>1, <2>2 DEF Opens
<1> QED BY <1>2, <1>3, <1>4, <1>5, <1>6, <1>7, <1>8

\* A reset starts with the version and then spends the grant.
Resets(r, g) ==
  \E todo : /\ Start(r, todo, IssuedTo(g.user)) /\ Renewal(todo, g.user)
            /\ \E i \in DOMAIN todo : todo[i].kind = "spend" /\ todo[i].grant = g
            /\ overlapped' = IF \E x \in Slots : ChangesPassword(x, g.user) THEN overlapped \cup {g.user}
                             ELSE overlapped

LEMMA ResetOpens ==
  ASSUME AccountTypeOK, NEW r \in Slots, NEW g \in grants, ResetPassword(r, g)
  PROVE  /\ Resets(r, g) /\ Renews(r, g.user)
         /\ g \in GrantRow /\ g.user \in Users /\ g.mail \in 1..MaxCodes
<1> DEFINE c == [kind |-> "spend", grant |-> g]
           following == <<c>>
           todo == <<[kind |-> "setVersion", user |-> g.user, version |-> version[g.user] + 1]>>
                     \o following \o RevokeListed(g.user, Devices)
<1>1. g \in GrantRow
  BY DEF AccountTypeOK, CodeTypeOK
<1>2. g.user \in Users /\ g.mail \in 1..MaxCodes
  BY <1>1, AccountAssumption DEF GrantRow, AccountTypeOK, CodeTypeOK
<1>3. c \in SpendCommands /\ c.kind = "spend" /\ c.grant = g
  BY <1>1 DEF SpendCommands
<1>4. ChangePasswordOf(r, g.user, following)
  BY DEF ResetPassword
<1> HIDE DEF c
<1>5. following \in Seq(SpendCommands) /\ Len(following) <= 1 /\ DOMAIN following = {1} /\ following[1] = c
  BY <1>3
<1> HIDE DEF following
<1>6. Renewal(todo, g.user) /\ \E i \in DOMAIN todo : todo[i] = following[1]
  BY <1>2, <1>5, RenewalOf
<1>7. Start(r, todo, IssuedTo(g.user))
      /\ overlapped' = IF \E x \in Slots : ChangesPassword(x, g.user) THEN overlapped \cup {g.user}
                       ELSE overlapped
  BY <1>4 DEF ChangePasswordOf
<1> HIDE DEF todo
<1>8. Resets(r, g)
  BY <1>3, <1>5, <1>6, <1>7 DEF Resets
<1>9. Renews(r, g.user)
  BY <1>6, <1>7 DEF Renews
<1> QED BY <1>1, <1>2, <1>8, <1>9

LEMMA AccountOpens ==
  ASSUME AccountTypeOK, NEW r \in Slots, AccountUseCase(r)
  PROVE  \/ Opens(r) /\ UNCHANGED codeVars
         \/ \E g \in grants : ResetPassword(r, g)
<1>1. ASSUME NEW u \in WithEmail, NEW purpose \in Purposes, RequestCode(r, u, purpose)
      PROVE  Opens(r) /\ UNCHANGED codeVars
  BY <1>1, CodeOpens DEF RequestCode, AccountStart, Opens
<1>2. ASSUME NEW u \in WithEmail, NEW purpose \in Purposes, NEW n \in 0..Len(mail),
             EnterCode(r, u, purpose, n)
      PROVE  Opens(r) /\ UNCHANGED codeVars
  <2>1. mail \in Seq([user: WithEmail, purpose: Purposes])
    BY DEF AccountTypeOK, CodeTypeOK
  <2>2. n \in Nat
    BY <2>1
  <2> QED BY <1>2, <2>2, CodeOpens DEF EnterCode, AccountStart, Opens
<1>3. ASSUME NEW u \in Users, NEW d \in Devices, NEW verification \in BOOLEAN,
             Register(r, u, d, verification)
      PROVE  Opens(r) /\ UNCHANGED codeVars
  BY <1>3, RegisterOpens DEF Register, AccountStart, Opens
<1> QED BY <1>1, <1>2, <1>3 DEF AccountUseCase

LEMMA OpenTypes ==
  ASSUME AccountTypeOK, InOrder, NEW r \in Slots, Opens(r), UNCHANGED codeVars
  PROVE  AccountTypeOK' /\ InOrder'
<1> PICK todo, kills : Begin(r, todo, kills) /\ Opening(todo, kills)
  BY DEF Opens
<1>1. Start(r, todo, kills) /\ UNCHANGED mail /\ todo \in Seq(Commands) /\ todo # <<>>
      /\ kills \in SUBSET DOMAIN tokens
  BY DEF Begin, Opening, codeVars
<1>2. /\ SlotsTypeOK'
      /\ slots'[r] = [todo |-> todo, kills |-> kills]
      /\ \A x \in Slots : x # r => slots'[x] = slots[x]
      /\ calm' \in BOOLEAN
      /\ UNCHANGED <<version, redis, tokens, revoked, superseded>>
  BY <1>1, Starts
<1>3. \A i \in DOMAIN todo : /\ todo[i].kind \in HeadOnly => i = 1
                             /\ todo[i].kind \in LastOnly => i = Len(todo)
                             /\ todo[i].kind # "spend"
  BY DEF Opening, StartKinds, HeadOnly, LastOnly
<1>4. InOrder'
  BY <1>2, <1>3 DEF InOrder
<1>5. SessionRow' = SessionRow /\ Code' = Code /\ GrantRow' = GrantRow
  BY <1>1, <1>2, SameRows
<1> QED BY <1>2, <1>4, <1>5
       DEF AccountTypeOK, SessionTypeOK, CodeTypeOK, HasSession, codeVars, codeHistory, redis

LEMMA RenewTypes ==
  ASSUME AccountTypeOK, InOrder, NEW r \in Slots, NEW u \in Users, Renews(r, u),
         UNCHANGED <<registered, verified, codes, mail, expired, grants, tries, accepted>>,
         resets' \in [1..MaxCodes -> Nat]
  PROVE  AccountTypeOK' /\ InOrder'
<1> DEFINE kills == IssuedTo(u)
<1> PICK todo : Start(r, todo, kills) /\ Renewal(todo, u)
  BY DEF Renews
<1>1. kills \in SUBSET DOMAIN tokens
  BY DEF IssuedTo
<1>2. todo \in Seq(Commands) /\ todo # <<>>
  BY DEF Renewal
<1> HIDE DEF kills
<1>3. /\ SlotsTypeOK'
      /\ slots'[r] = [todo |-> todo, kills |-> kills]
      /\ \A x \in Slots : x # r => slots'[x] = slots[x]
      /\ calm' \in BOOLEAN
      /\ UNCHANGED <<version, redis, tokens, revoked, superseded>>
  BY <1>1, <1>2, Starts
<1>4. \A i \in DOMAIN todo : /\ todo[i].kind \in HeadOnly => i = 1
                             /\ todo[i].kind \in LastOnly => i = Len(todo)
                             /\ todo[i].kind = "spend" /\ i # 1 => i = 2 /\ todo[1].kind = "setVersion"
  BY DEF Renewal, HeadOnly, LastOnly
<1>5. InOrder'
  BY <1>3, <1>4 DEF InOrder
<1>6. SessionRow' = SessionRow /\ Code' = Code /\ GrantRow' = GrantRow
  BY <1>3, SameRows
<1> QED BY <1>3, <1>5, <1>6
       DEF AccountTypeOK, SessionTypeOK, CodeTypeOK, HasSession, redis

\* Every step, one lemma: a case for each kind of step.
Pass(r) == RedisCommand(r) /\ UNCHANGED codeVars
Opened(r) == Opens(r) /\ UNCHANGED codeVars
Renewed(r, u) == /\ Renews(r, u)
                 /\ UNCHANGED <<registered, verified, codes, mail, expired, grants, tries, accepted>>
                 /\ \/ UNCHANGED resets
                    \/ \E g \in grants : ResetPassword(r, g)
Lapses == Lapse /\ UNCHANGED codeVars
Expires == UNCHANGED <<vars, registered, verified, codes, mail, codeHistory>> /\ grants' \subseteq grants

LEMMA Steps ==
  ASSUME AccountTypeOK, AccountNext
  PROVE  \/ \E r \in Slots : Pass(r) \/ CodeCommand(r) \/ Opened(r) \/ \E u \in Users : Renewed(r, u)
         \/ Lapses \/ Expires
<1>1. ASSUME NEW r \in Slots, SessionStep(r)
      PROVE  Pass(r) \/ Opened(r) \/ \E u \in Users : Renewed(r, u)
  <2>1. ASSUME NEW u \in registered, NEW d \in Devices, Login(r, u, d) PROVE Opens(r)
    BY <2>1, LoginOpens DEF Login, Opens
  <2>2. ASSUME TokenUseCase(r) PROVE Opens(r) \/ \E u \in Users : Renews(r, u)
    BY <2>2, TokensOpen
  <2> QED BY <1>1, <2>1, <2>2 DEF SessionStep, Pass, Opened, Renewed, codeVars, codeHistory
<1>2. ASSUME NEW r \in Slots, AccountUseCase(r)
      PROVE  Opened(r) \/ \E u \in Users : Renewed(r, u)
  <2>1. ASSUME NEW g \in grants, ResetPassword(r, g) PROVE \E u \in Users : Renewed(r, u)
    BY <2>1, ResetOpens DEF Renewed, ResetPassword
  <2> QED BY <1>2, <2>1, AccountOpens DEF Opened
<1>3. ASSUME NEW u, NEW purpose, ExpireCode(u, purpose) PROVE Expires
  BY <1>3 DEF ExpireCode, Expires
<1>4. ASSUME NEW g, ExpireGrant(g) PROVE Expires
  BY <1>4 DEF ExpireGrant, Expires
<1> QED BY <1>1, <1>2, <1>3, <1>4 DEF AccountNext, Lapses

\* What lapses is a session, or the index of a user whose sessions were all
\* written after it; and in a calm behaviour nothing is in flight then.
LEMMA Lapsing ==
  ASSUME SessionTypeOK, Lapse
  PROVE  /\ calm' \in BOOLEAN
         /\ calm' => calm /\ \A r \in Slots : slots[r] = Idle
         /\ UNCHANGED <<version, stored, used, blacklist, tokens, slots, started, revoked,
                        superseded, overlapped>>
         /\ \/ \E d \in Devices : /\ sessions' = [sessions EXCEPT ![d] = NoSession]
                                  /\ strays' = strays \ {d}
                                  /\ UNCHANGED index
            \/ \E u \in Users : /\ index' = [index EXCEPT ![u] = {}]
                                /\ strays' = strays \cup DevicesOf(u)
                                /\ UNCHANGED sessions
BY DEF Lapse, SessionLapses, IndexLapses, Passes, SessionTypeOK, history

LEMMA LapsesTypes ==
  ASSUME AccountTypeOK, InOrder, Lapses
  PROVE  AccountTypeOK' /\ InOrder'
<1>1. /\ calm' \in BOOLEAN
      /\ UNCHANGED <<version, tokens, slots, revoked, superseded, mail>>
  BY Lapsing DEF Lapses, codeVars, AccountTypeOK
<1>2. /\ SessionRow' = SessionRow /\ Code' = Code /\ GrantRow' = GrantRow
      /\ Commands' = Commands
  BY <1>1, SameRows DEF Commands, TokenCommands, EffectCommands, CollectCommands, RowCommands,
     AttemptCommands, SpendCommands, DeviceCommands, DropCommands, ListCommands, IssueCommands,
     VersionCommands, MailCommands, RegisterCommands, Token, SessionRow
<1>3. SlotsTypeOK'
  BY <1>1, <1>2 DEF AccountTypeOK, SessionTypeOK, SlotsTypeOK, Request
<1>4. /\ sessions' \in [Devices -> SessionRow \cup {NoSession}]
      /\ \A d \in Devices : HasSession(d)' => sessions'[d].dev = d
      /\ index' \in [Users -> SUBSET Devices]
  <2>1. \/ \E d \in Devices : sessions' = [sessions EXCEPT ![d] = NoSession] /\ UNCHANGED index
        \/ \E u \in Users : index' = [index EXCEPT ![u] = {}] /\ UNCHANGED sessions
    BY Lapsing DEF Lapses, AccountTypeOK
  <2> QED BY <2>1 DEF AccountTypeOK, SessionTypeOK, HasSession
<1>5. SessionTypeOK'
  BY <1>1, <1>2, <1>3, <1>4 DEF AccountTypeOK, SessionTypeOK
<1>6. CodeTypeOK'
  BY <1>1, <1>2 DEF Lapses, codeVars, codeHistory, AccountTypeOK, CodeTypeOK
<1>7. InOrder'
  BY <1>1 DEF InOrder
<1> QED BY <1>5, <1>6, <1>7 DEF AccountTypeOK

LEMMA ExpiresTypes ==
  ASSUME AccountTypeOK, InOrder, Expires
  PROVE  AccountTypeOK' /\ InOrder'
<1>1. UNCHANGED <<tokens, mail>>
  BY DEF Expires, vars
<1>2. /\ SessionRow' = SessionRow /\ Code' = Code /\ GrantRow' = GrantRow
      /\ Commands' = Commands
  BY <1>1, SameRows DEF Commands, TokenCommands, EffectCommands, CollectCommands, RowCommands,
     AttemptCommands, SpendCommands, DeviceCommands, DropCommands, ListCommands, IssueCommands,
     VersionCommands, MailCommands, RegisterCommands, Token, SessionRow
<1>3. SlotsTypeOK'
  BY <1>2 DEF Expires, vars, AccountTypeOK, SessionTypeOK, SlotsTypeOK, Request
<1> QED BY <1>2, <1>3
       DEF Expires, vars, redis, counters, history, codeHistory, AccountTypeOK, SessionTypeOK,
           CodeTypeOK, InOrder, HasSession

\* The types and the order of the commands are invariant.
LEMMA TypesKept ==
  ASSUME AccountTypeOK, InOrder, AccountNext
  PROVE  AccountTypeOK' /\ InOrder'
<1>1. ASSUME NEW r \in Slots, Pass(r) PROVE AccountTypeOK' /\ InOrder'
  BY <1>1, RedisTypes DEF Pass
<1>2. ASSUME NEW r \in Slots, CodeCommand(r) PROVE AccountTypeOK' /\ InOrder'
  BY <1>2, CodeTypes
<1>3. ASSUME NEW r \in Slots, Opened(r) PROVE AccountTypeOK' /\ InOrder'
  BY <1>3, OpenTypes DEF Opened
<1>4. ASSUME NEW r \in Slots, NEW u \in Users, Renewed(r, u) PROVE AccountTypeOK' /\ InOrder'
  <2>1. resets' \in [1..MaxCodes -> Nat]
    <3>1. ASSUME NEW g \in grants, ResetPassword(r, g) PROVE resets' \in [1..MaxCodes -> Nat]
      <4>1. g.mail \in 1..MaxCodes
        BY <3>1, ResetOpens
      <4>2. resets' = [resets EXCEPT ![g.mail] = @ + 1]
        BY <3>1 DEF ResetPassword
      <4> QED BY <4>1, <4>2 DEF AccountTypeOK, CodeTypeOK
    <3> QED BY <1>4, <3>1 DEF Renewed, AccountTypeOK, CodeTypeOK
  <2> QED BY <1>4, <2>1, RenewTypes DEF Renewed
<1>5. ASSUME Expires PROVE AccountTypeOK' /\ InOrder'
  BY <1>5, ExpiresTypes
<1>6. ASSUME Lapses PROVE AccountTypeOK' /\ InOrder'
  BY <1>6, LapsesTypes
<1> QED BY <1>1, <1>2, <1>3, <1>4, <1>5, <1>6, Steps

-----------------------------------------------------------------------------
(* Password changes *)

\* A request after a command: the commands that came in its place, and the
\* others, of which none is the change of a version.
LEMMA RestOf ==
  ASSUME AccountTypeOK, InOrder, NEW r \in Slots, slots[r] # Idle, Grows,
         NEW more \in Seq(Commands)', Proceed(r, more)
  PROVE  /\ \A x \in Slots : x # r => slots'[x] = slots[x]
         /\ \A i \in DOMAIN slots'[r].todo :
              \/ i \in DOMAIN more /\ slots'[r].todo[i] = more[i]
              \/ /\ i \notin DOMAIN more
                 /\ \E j \in DOMAIN slots[r].todo :
                      /\ j # 1 /\ slots'[r].todo[i] = slots[r].todo[j]
                      /\ i = j + Len(more) - 1
                 /\ slots'[r].todo[i].kind \notin HeadOnly
         /\ \A i \in DOMAIN more : i \in DOMAIN slots'[r].todo /\ slots'[r].todo[i] = more[i]
         /\ \A j \in DOMAIN slots[r].todo : j # 1 =>
              /\ j + Len(more) - 1 \in DOMAIN slots'[r].todo
              /\ slots'[r].todo[j + Len(more) - 1] = slots[r].todo[j]
         /\ DOMAIN more = 1..Len(more) /\ Len(more) \in Nat /\ DOMAIN slots[r].todo \subseteq Nat \ {0}
         /\ slots'[r].todo \in Seq(Commands)'
<1> DEFINE todo == slots[r].todo
           rest == slots'[r].todo
<1>1. todo \in Seq(Commands) /\ todo # <<>> /\ todo \in Seq(Commands)'
  BY Current, TodosGrow
<1>2. rest = more \o Tail(todo) /\ \A x \in Slots : x # r => slots'[x] = slots[x]
  BY Proceeds
<1>3. \A j \in DOMAIN todo : todo[j].kind \in HeadOnly => j = 1
  BY DEF InOrder
<1>4. DOMAIN more = 1..Len(more) /\ Len(more) \in Nat /\ DOMAIN todo \subseteq Nat \ {0}
  BY <1>1
<1> HIDE DEF todo, rest
<1>5. /\ rest \in Seq(Commands)'
      /\ \A i \in DOMAIN rest :
           IF i <= Len(more) THEN i \in DOMAIN more /\ rest[i] = more[i]
           ELSE i - Len(more) + 1 \in DOMAIN todo /\ rest[i] = todo[i - Len(more) + 1]
      /\ \A i \in DOMAIN more : i \in DOMAIN rest /\ rest[i] = more[i]
      /\ \A j \in DOMAIN todo : j # 1 =>
           j + Len(more) - 1 \in DOMAIN rest /\ rest[j + Len(more) - 1] = todo[j]
  BY <1>1, <1>2
<1>6. DOMAIN rest \subseteq Nat
  BY <1>5
<1>7. ASSUME NEW i \in DOMAIN rest
      PROVE  \/ i \in DOMAIN more /\ rest[i] = more[i]
             \/ /\ i \notin DOMAIN more
                /\ \E j \in DOMAIN todo : j # 1 /\ rest[i] = todo[j] /\ i = j + Len(more) - 1
                /\ rest[i].kind \notin HeadOnly
  <2>1. CASE i <= Len(more)
    BY <2>1, <1>5
  <2>2. CASE ~(i <= Len(more))
    <3> DEFINE j == i - Len(more) + 1
    <3>1. j \in DOMAIN todo /\ rest[i] = todo[j] /\ j # 1 /\ i = j + Len(more) - 1 /\ i \notin DOMAIN more
      BY <2>2, <1>4, <1>5, <1>6
    <3> HIDE DEF j
    <3> QED BY <3>1, <1>3
  <2> QED BY <2>1, <2>2
<1> QED BY <1>2, <1>4, <1>5, <1>7 DEF todo, rest

\* A step that writes no version and adds no change of one.
LEMMA PasswordKept ==
  ASSUME AccountTypeOK, PasswordInv, NEW r \in Slots, UNCHANGED <<version, superseded>>,
         overlapped \subseteq overlapped',
         \A x \in Slots : x # r => slots'[x] = slots[x],
         DOMAIN tokens \subseteq DOMAIN tokens',
         \A n \in DOMAIN tokens : tokens'[n] = tokens[n],
         \A u \in Users \ overlapped :
           /\ \A n \in DOMAIN tokens' \ DOMAIN tokens :
                tokens'[n].user = u => tokens'[n].version <= version[u]
           /\ \A i \in DOMAIN slots'[r].todo :
                slots'[r].todo[i].kind = "issue" /\ slots'[r].todo[i].token.user = u
                  => slots'[r].todo[i].token.version <= version[u],
         \A u \in Users : ~ChangesPassword(r, u)'
  PROVE  PasswordInv'
<1>1. \A x \in Slots, u \in Users :
        ChangesPassword(x, u)' => /\ ChangesPassword(x, u) /\ x # r
                                  /\ Command(x)' = Command(x) /\ slots'[x] = slots[x]
  BY DEF ChangesPassword, Doing, Command
<1>2. \A u \in Users : IssuedTo(u) \subseteq IssuedTo(u)'
  BY DEF IssuedTo
<1>3. superseded \subseteq DOMAIN tokens
  BY DEF AccountTypeOK, SessionTypeOK
<1>4. ASSUME NEW u \in Users \ overlapped'
      PROVE  VersionsOf(u)' /\ ChangesOf(u)'
  <2>1. u \in Users \ overlapped /\ VersionsOf(u) /\ ChangesOf(u)
    BY DEF PasswordInv
  <2>2. \A n \in IssuedTo(u)' : tokens'[n].version <= version'[u]
    BY <2>1 DEF VersionsOf, IssuedTo
  <2>3. \A x \in Slots : \A i \in DOMAIN slots'[x].todo :
          slots'[x].todo[i].kind = "issue" /\ slots'[x].todo[i].token.user = u
            => slots'[x].todo[i].token.version <= version'[u]
    BY <2>1 DEF VersionsOf
  <2>4. \A n \in superseded' : tokens'[n].user = u => tokens'[n].version < version'[u]
    BY <2>1, <1>3 DEF VersionsOf
  <2>5. ChangesOf(u)'
    BY <2>1, <1>1 DEF ChangesOf
  <2> QED BY <2>2, <2>3, <2>4, <2>5 DEF VersionsOf
<1>5. \A x \in Slots, u \in Users : ChangesPassword(x, u)' => slots'[x].kills \subseteq IssuedTo(u)'
  BY <1>1, <1>2 DEF PasswordInv
<1> QED BY <1>4, <1>5 DEF PasswordInv

\* A command other than the change of a version is replaced by others.
LEMMA PasswordProceeds ==
  ASSUME AccountTypeOK, InOrder, PasswordInv, NEW r \in Slots, slots[r] # Idle, Grows,
         NEW more \in Seq(Commands)', Proceed(r, more), UNCHANGED <<version, superseded, overlapped>>,
         \A i \in DOMAIN more : more[i].kind \notin {"issue", "setVersion"}
  PROVE  PasswordInv'
<1>1. /\ \A x \in Slots : x # r => slots'[x] = slots[x]
      /\ \A i \in DOMAIN slots'[r].todo :
           \/ i \in DOMAIN more /\ slots'[r].todo[i] = more[i]
           \/ /\ i \notin DOMAIN more
              /\ \E j \in DOMAIN slots[r].todo : j # 1 /\ slots'[r].todo[i] = slots[r].todo[j]
              /\ slots'[r].todo[i].kind \notin HeadOnly
      /\ slots'[r].todo \in Seq(Commands)'
  BY RestOf
<1>2. UNCHANGED tokens /\ SlotsTypeOK'
  BY Proceeds
<1>3. \A i \in DOMAIN slots'[r].todo :
        /\ slots'[r].todo[i].kind # "setVersion"
        /\ slots'[r].todo[i].kind = "issue" =>
             \E j \in DOMAIN slots[r].todo : slots'[r].todo[i] = slots[r].todo[j]
  BY <1>1 DEF HeadOnly
<1>4. \A u \in Users : ~ChangesPassword(r, u)'
  <2>1. slots'[r].todo = <<>> => slots'[r] = Idle
    BY <1>2 DEF SlotsTypeOK
  <2>2. slots'[r].todo # <<>> => 1 \in DOMAIN slots'[r].todo /\ Head(slots'[r].todo) = slots'[r].todo[1]
    BY <1>1
  <2> QED BY <1>3, <2>1, <2>2 DEF ChangesPassword, Doing
<1>5. \A u \in Users \ overlapped : \A i \in DOMAIN slots'[r].todo :
        slots'[r].todo[i].kind = "issue" /\ slots'[r].todo[i].token.user = u
          => slots'[r].todo[i].token.version <= version[u]
  BY <1>3 DEF PasswordInv, VersionsOf
<1> QED BY <1>1, <1>2, <1>4, <1>5, PasswordKept

\* A request that is gone, or has started anew without a change of a version.
LEMMA PasswordElse ==
  ASSUME AccountTypeOK, PasswordInv, NEW r \in Slots, UNCHANGED <<version, superseded, tokens>>,
         overlapped \subseteq overlapped',
         \A x \in Slots : x # r => slots'[x] = slots[x],
         slots'[r] = Idle \/ (slots'[r].todo \in Seq(Commands) /\ slots'[r].todo # <<>>),
         \A i \in DOMAIN slots'[r].todo :
           LET c == slots'[r].todo[i]
           IN c.kind # "setVersion" /\ (c.kind = "issue" => c.token.version <= version[c.token.user])
  PROVE  PasswordInv'
<1>1. \A u \in Users : ~ChangesPassword(r, u)'
  <2>1. slots'[r] # Idle => 1 \in DOMAIN slots'[r].todo /\ Head(slots'[r].todo) = slots'[r].todo[1]
    OBVIOUS
  <2> QED BY <2>1 DEF ChangesPassword, Doing
<1> QED BY <1>1, PasswordKept

LEMMA PasswordIssue ==
  ASSUME AccountTypeOK, InOrder, PasswordInv, NEW r \in Slots, Issue(r), UNCHANGED mail
  PROVE  PasswordInv'
<1> DEFINE c == Command(r)
           n == Len(tokens) + 1
           next == [kind |-> c.then, dev |-> c.token.dev,
                    session |-> [user |-> c.token.user, dev |-> c.token.dev, token |-> n]]
<1>1. /\ c \in IssueCommands /\ c.kind = "issue" /\ slots[r] # Idle
      /\ DOMAIN tokens' = DOMAIN tokens \cup {n}
      /\ \A m \in DOMAIN tokens : tokens'[m] = tokens[m]
      /\ tokens'[n] = c.token
      /\ slots'[r] = [todo |-> <<next>>, kills |-> slots[r].kills]
      /\ \A x \in Slots : x # r => slots'[x] = slots[x]
  BY Issues
<1>2. next.kind \in {"create", "update"}
  BY <1>1 DEF IssueCommands
<1>3. 1 \in DOMAIN slots[r].todo /\ slots[r].todo[1] = c
  BY <1>1, Current
<1>4. UNCHANGED <<version, superseded, overlapped>>
  BY DEF Issue, history
<1>5. \A u \in Users \ overlapped : c.token.user = u => c.token.version <= version[u]
  BY <1>1, <1>3 DEF PasswordInv, VersionsOf
<1> HIDE DEF next, c, n
<1>6. slots'[r].todo = <<next>>
  BY <1>1
<1>7. \A u \in Users : ~ChangesPassword(r, u)'
  BY <1>2, <1>6 DEF ChangesPassword, Doing
<1>8. \A i \in DOMAIN slots'[r].todo : slots'[r].todo[i].kind # "issue"
  BY <1>2, <1>6
<1>9. \A u \in Users \ overlapped : \A m \in DOMAIN tokens' \ DOMAIN tokens :
        tokens'[m].user = u => tokens'[m].version <= version[u]
  BY <1>1, <1>5
<1> QED BY <1>1, <1>4, <1>7, <1>8, <1>9, PasswordKept

\* The new version is newer than whatever the user had before.
LEMMA PasswordSet ==
  ASSUME AccountTypeOK, InOrder, PasswordInv, NEW r \in Slots, SetVersion(r), UNCHANGED mail
  PROVE  PasswordInv'
<1> DEFINE c == Command(r)
           u == c.user
           more == <<>>
<1>1. slots[r] # Idle /\ c.kind = "setVersion" /\ Proceed(r, more)
  BY DEF SetVersion, Doing, Command
<1>2. c \in VersionCommands /\ slots[r].kills \subseteq DOMAIN tokens
  BY <1>1, Current, CommandOf
<1>3. u \in Users /\ c.version \in Nat
  BY <1>2 DEF VersionCommands
<1>4. /\ version' = [version EXCEPT ![u] = c.version]
      /\ superseded' = superseded \cup slots[r].kills
      /\ UNCHANGED overlapped
  BY DEF SetVersion
<1>5. UNCHANGED tokens /\ Grows
  BY <1>1 DEF Proceed, Grows
<1>6. more \in Seq(Commands)' /\ DOMAIN more = {}
  OBVIOUS
<1> HIDE DEF more
<1>7. /\ \A x \in Slots : x # r => slots'[x] = slots[x]
      /\ \A i \in DOMAIN slots'[r].todo :
           /\ \E j \in DOMAIN slots[r].todo : j # 1 /\ slots'[r].todo[i] = slots[r].todo[j]
           /\ slots'[r].todo[i].kind \notin HeadOnly
      /\ slots'[r].todo \in Seq(Commands)'
  <2>1. /\ \A x \in Slots : x # r => slots'[x] = slots[x]
        /\ \A i \in DOMAIN slots'[r].todo :
             \/ i \in DOMAIN more /\ slots'[r].todo[i] = more[i]
             \/ /\ i \notin DOMAIN more
                /\ \E j \in DOMAIN slots[r].todo :
                     /\ j # 1 /\ slots'[r].todo[i] = slots[r].todo[j]
                     /\ i = j + Len(more) - 1
                /\ slots'[r].todo[i].kind \notin HeadOnly
        /\ slots'[r].todo \in Seq(Commands)'
    BY <1>1, <1>5, <1>6, RestOf
  <2> QED BY <1>6, <2>1
<1>8. SlotsTypeOK'
  BY <1>1, <1>5, <1>6, Proceeds
<1>9. \A v \in Users : ~ChangesPassword(r, v)'
  <2>1. slots'[r].todo = <<>> => slots'[r] = Idle
    BY <1>8 DEF SlotsTypeOK
  <2>2. slots'[r].todo # <<>> => 1 \in DOMAIN slots'[r].todo /\ Head(slots'[r].todo) = slots'[r].todo[1]
    BY <1>7
  <2> QED BY <1>7, <2>1, <2>2 DEF ChangesPassword, Doing, HeadOnly
<1>10. ChangesPassword(r, u) /\ \A v \in Users : ChangesPassword(r, v) => v = u
  BY <1>1 DEF ChangesPassword, Doing, Command
<1>11. slots[r].kills \subseteq IssuedTo(u)
  BY <1>3, <1>10 DEF PasswordInv
<1>12. \A x \in Slots, v \in Users :
         ChangesPassword(x, v)' => /\ x # r /\ ChangesPassword(x, v)
                                   /\ Command(x)' = Command(x) /\ slots'[x] = slots[x]
  BY <1>7, <1>9 DEF ChangesPassword, Doing, Command
<1>13. \A v \in Users : IssuedTo(v)' = IssuedTo(v)
  BY <1>5 DEF IssuedTo
<1>14. version \in [Users -> Nat \ {0}] /\ superseded \subseteq DOMAIN tokens
  BY DEF AccountTypeOK, SessionTypeOK
<1> HIDE DEF c, u
<1>15. ASSUME NEW v \in Users \ overlapped
       PROVE  VersionsOf(v)' /\ ChangesOf(v)'
  <2>1. VersionsOf(v) /\ ChangesOf(v)
    BY DEF PasswordInv
  <2>2. version[v] \in Nat /\ version'[v] = IF v = u THEN c.version ELSE version[v]
    BY <1>3, <1>4, <1>14
  <2>3. v = u => c.version = version[u] + 1
    BY <1>10, <2>1 DEF ChangesOf, c
  <2>4. version[v] <= version'[v]
    BY <2>2, <2>3
  <2>5. /\ \A n \in DOMAIN tokens : tokens[n].version \in Nat
        /\ \A x \in Slots : \A i \in DOMAIN slots'[x].todo :
             \E j \in DOMAIN slots[x].todo : slots'[x].todo[i] = slots[x].todo[j]
    BY <1>7, TokenTyped
  <2>6. \A n \in IssuedTo(v) : tokens[n].version <= version[v] /\ tokens[n].version \in Nat
    BY <2>1, <2>5 DEF VersionsOf, IssuedTo
  <2>7. \A n \in IssuedTo(v)' : tokens'[n].version <= version'[v]
    BY <1>5, <1>13, <2>2, <2>3, <2>6
  <2>8. \A x \in Slots : \A i \in DOMAIN slots'[x].todo :
          slots'[x].todo[i].kind = "issue" /\ slots'[x].todo[i].token.user = v
            => slots'[x].todo[i].token.version <= version'[v]
    <3>1. ASSUME NEW x \in Slots, NEW i \in DOMAIN slots'[x].todo,
                 slots'[x].todo[i].kind = "issue", slots'[x].todo[i].token.user = v
          PROVE  slots'[x].todo[i].token.version <= version'[v]
      <4>1. PICK j \in DOMAIN slots[x].todo : slots'[x].todo[i] = slots[x].todo[j]
        BY <2>5
      <4>2. slots[x].todo[j].token.version <= version[v]
        BY <2>1, <3>1, <4>1 DEF VersionsOf
      <4>3. slots[x].todo[j].token.version \in Nat
        <5>1. slots[x].todo \in Seq(Commands)
          BY DEF AccountTypeOK, SessionTypeOK, SlotsTypeOK, Request
        <5>2. slots[x].todo[j] \in Commands
          BY <5>1, Indexes
        <5> QED BY <3>1, <4>1, <5>2, CommandOf DEF IssueCommands, Token
      <4> QED BY <2>2, <2>3, <4>1, <4>2, <4>3
    <3> QED BY <3>1
  <2>9. \A n \in superseded' : tokens'[n].user = v => tokens'[n].version < version'[v]
    <3>1. ASSUME NEW n \in superseded, tokens[n].user = v PROVE tokens[n].version < version'[v]
      <4>1. tokens[n].version < version[v] /\ tokens[n].version \in Nat
        BY <2>1, <2>5, <3>1, <1>14 DEF VersionsOf
      <4> QED BY <4>1, <2>2, <2>3
    <3>2. ASSUME NEW n \in slots[r].kills, tokens[n].user = v PROVE tokens[n].version < version'[v]
      <4>1. n \in IssuedTo(u) /\ v = u
        BY <1>11, <3>2 DEF IssuedTo
      <4>2. tokens[n].version <= version[v] /\ tokens[n].version \in Nat
        BY <2>6, <4>1
      <4> QED BY <4>1, <4>2, <2>2, <2>3
    <3> QED BY <1>4, <1>5, <3>1, <3>2
  <2>10. ChangesOf(v)'
    <3>1. \A x, y \in Slots : ChangesPassword(x, v)' /\ ChangesPassword(y, v)' => x = y
      BY <1>12, <2>1 DEF ChangesOf
    <3>2. ASSUME NEW x \in Slots, ChangesPassword(x, v)' PROVE Command(x)'.version = version'[v] + 1
      <4>1. x # r /\ ChangesPassword(x, v) /\ Command(x)' = Command(x)
        BY <1>12, <3>2
      <4>2. v # u
        BY <4>1, <1>10, <2>1 DEF ChangesOf
      <4> QED BY <4>1, <4>2, <2>1, <2>2 DEF ChangesOf
    <3> QED BY <3>1, <3>2 DEF ChangesOf
  <2> QED BY <2>7, <2>8, <2>9, <2>10 DEF VersionsOf
<1>16. \A x \in Slots, v \in Users : ChangesPassword(x, v)' => slots'[x].kills \subseteq IssuedTo(v)'
  BY <1>12, <1>13 DEF PasswordInv
<1> QED BY <1>4, <1>15, <1>16 DEF PasswordInv

\* A change starts: no other of that user is in flight, or two overlap.
LEMMA PasswordRenew ==
  ASSUME AccountTypeOK, InOrder, PasswordInv, NEW r \in Slots, NEW u \in Users, Renews(r, u),
         UNCHANGED mail
  PROVE  PasswordInv'
<1> DEFINE kills == IssuedTo(u)
<1> PICK todo : /\ Start(r, todo, kills) /\ Renewal(todo, u)
                /\ overlapped' = IF \E x \in Slots : ChangesPassword(x, u) THEN overlapped \cup {u}
                                 ELSE overlapped
  BY DEF Renews
<1>1. kills \in SUBSET DOMAIN tokens
  BY DEF IssuedTo
<1>2. todo \in Seq(Commands) /\ todo # <<>>
  BY DEF Renewal
<1>3. kills = IssuedTo(u)
  OBVIOUS
<1> HIDE DEF kills
<1>4. /\ slots[r] = Idle
      /\ slots'[r] = [todo |-> todo, kills |-> kills]
      /\ \A x \in Slots : x # r => slots'[x] = slots[x]
      /\ UNCHANGED <<version, redis, tokens, revoked, superseded>>
  BY <1>1, <1>2, Starts
<1>5. /\ todo[1].kind = "setVersion" /\ todo[1].user = u /\ todo[1].version = version[u] + 1
      /\ \A i \in DOMAIN todo : todo[i].kind # "issue"
  BY DEF Renewal
<1>6. Head(todo) = todo[1]
  BY <1>2
<1>7. \A v \in Users : ChangesPassword(r, v)' => v = u /\ Command(r)'.version = version[u] + 1
  BY <1>4, <1>5, <1>6 DEF ChangesPassword, Doing, Command
<1>8. \A x \in Slots, v \in Users :
        x # r /\ ChangesPassword(x, v)' => ChangesPassword(x, v) /\ Command(x)' = Command(x)
  BY <1>4 DEF ChangesPassword, Doing, Command
<1>9. \A v \in Users : ~ChangesPassword(r, v)
  BY <1>4 DEF ChangesPassword, Doing
<1>10. \A v \in Users : IssuedTo(v)' = IssuedTo(v)
  BY <1>4 DEF IssuedTo
<1>11. ASSUME NEW v \in Users \ overlapped'
       PROVE  VersionsOf(v)' /\ ChangesOf(v)'
  <2>1. v \in Users \ overlapped /\ VersionsOf(v) /\ ChangesOf(v)
    BY DEF PasswordInv
  <2>2. v = u => \A x \in Slots : ~ChangesPassword(x, u)
    OBVIOUS
  <2>3. VersionsOf(v)'
    <3>1. \A n \in IssuedTo(v)' : tokens'[n].version <= version'[v]
      BY <2>1, <1>4, <1>10 DEF VersionsOf
    <3>2. \A n \in superseded' : tokens'[n].user = v => tokens'[n].version < version'[v]
      BY <2>1, <1>4 DEF VersionsOf
    <3>3. \A x \in Slots : \A i \in DOMAIN slots'[x].todo :
            slots'[x].todo[i].kind = "issue" /\ slots'[x].todo[i].token.user = v
              => slots'[x].todo[i].token.version <= version'[v]
      BY <2>1, <1>4, <1>5 DEF VersionsOf
    <3> QED BY <3>1, <3>2, <3>3 DEF VersionsOf
  <2>4. \A x, y \in Slots : ChangesPassword(x, v)' /\ ChangesPassword(y, v)' => x = y
    BY <2>1, <2>2, <1>7, <1>8 DEF ChangesOf
  <2>5. \A x \in Slots : ChangesPassword(x, v)' => Command(x)'.version = version'[v] + 1
    BY <2>1, <2>2, <1>4, <1>7, <1>8 DEF ChangesOf
  <2> QED BY <2>3, <2>4, <2>5 DEF ChangesOf
<1>12. \A x \in Slots, v \in Users : ChangesPassword(x, v)' => slots'[x].kills \subseteq IssuedTo(v)'
  BY <1>3, <1>4, <1>7, <1>8, <1>10 DEF PasswordInv
<1> QED BY <1>11, <1>12 DEF PasswordInv

\* A session that is written is written by the only command of its request.
LEMMA PasswordRow ==
  ASSUME AccountTypeOK, InOrder, PasswordInv, NEW r \in Slots, CreateSession(r) \/ UpdateRead(r),
         UNCHANGED mail
  PROVE  PasswordInv'
<1>1. /\ slots[r] # Idle /\ UNCHANGED <<version, superseded, overlapped, tokens>>
      /\ Command(r).kind \in {"create", "update", "updateSet"}
  BY DEF CreateSession, WriteSession, UpdateRead, Doing, Command, history, Proceed
<1>2. Command(r) \in RowCommands /\ Grows
  BY <1>1, Current, CommandOf DEF Grows
<1> DEFINE new == [kind |-> "index", user |-> Command(r).session.user, dev |-> Command(r).dev]
           set == [kind |-> "updateSet", dev |-> Command(r).dev,
                   session |-> [sessions[Command(r).dev] EXCEPT !.token = Command(r).session.token]]
<1>3. Proceed(r, <<>>) \/ Proceed(r, <<new>>) \/ (HasSession(Command(r).dev) /\ Proceed(r, <<set>>))
  BY DEF CreateSession, WriteSession, UpdateRead
<1>4. new \in Commands' /\ new.kind = "index"
  BY <1>2 DEF RowCommands, SessionRow, Commands, DeviceCommands
<1>5. HasSession(Command(r).dev) => set \in Commands' /\ set.kind = "updateSet"
  <2>1. ASSUME HasSession(Command(r).dev) PROVE set \in RowCommands
    BY <1>2, <2>1 DEF RowCommands, SessionRow, AccountTypeOK, SessionTypeOK, HasSession
  <2>2. RowCommands \subseteq Commands /\ Commands \subseteq Commands'
    BY <1>2, CommandsGrow DEF Commands
  <2> QED BY <2>1, <2>2
<1> HIDE DEF new, set
<1>6. \E more \in Seq(Commands)' :
        Proceed(r, more) /\ \A i \in DOMAIN more : more[i].kind \notin {"issue", "setVersion"}
  <2>1. <<>> \in Seq(Commands)' /\ DOMAIN <<>> = {}
    OBVIOUS
  <2>2. <<new>> \in Seq(Commands)' /\ DOMAIN <<new>> = {1} /\ <<new>>[1] = new
    BY <1>4
  <2>3. HasSession(Command(r).dev) =>
          <<set>> \in Seq(Commands)' /\ DOMAIN <<set>> = {1} /\ <<set>>[1] = set
    BY <1>5
  <2> QED BY <1>3, <1>4, <1>5, <2>1, <2>2, <2>3
<1> QED BY <1>1, <1>2, <1>6, PasswordProceeds

\* A token that was used before, or was not.
LEMMA PasswordUsed ==
  ASSUME AccountTypeOK, InOrder, PasswordInv, NEW r \in Slots, GetUsed(r), UNCHANGED codeVars
  PROVE  PasswordInv'
<1>1. /\ \A x \in Slots : x # r => slots'[x] = slots[x]
      /\ UNCHANGED tokens
      /\ \/ slots'[r] = Idle
         \/ \E u \in Users, d \in Devices :
              slots'[r] = [todo |-> <<[kind |-> "revokeByDevice", user |-> u, dev |-> d]>>,
                           kills |-> IssuedFor(u, d)]
  BY UsedTypes
<1>2. UNCHANGED <<version, superseded, overlapped>>
  BY DEF GetUsed, history
<1>3. CASE slots'[r] = Idle
  BY <1>1, <1>2, <1>3, PasswordElse DEF Idle
<1>4. CASE slots'[r] # Idle
  <2> PICK u \in Users, d \in Devices :
             slots'[r] = [todo |-> <<[kind |-> "revokeByDevice", user |-> u, dev |-> d]>>,
                          kills |-> IssuedFor(u, d)]
    BY <1>1, <1>4
  <2> DEFINE c == [kind |-> "revokeByDevice", user |-> u, dev |-> d]
  <2>1. slots'[r].todo = <<c>>
    OBVIOUS
  <2>2. c \in Commands /\ c.kind = "revokeByDevice"
    BY DEF Commands, DeviceCommands
  <2> HIDE DEF c
  <2>3. slots'[r].todo \in Seq(Commands) /\ slots'[r].todo # <<>>
        /\ \A i \in DOMAIN slots'[r].todo : slots'[r].todo[i] = c
    BY <2>1, <2>2
  <2> QED BY <1>1, <1>2, <2>2, <2>3, PasswordElse
<1> QED BY <1>3, <1>4

LEMMA PasswordPass ==
  ASSUME AccountTypeOK, InOrder, PasswordInv, NEW r \in Slots, RedisCommand(r), UNCHANGED codeVars
  PROVE  PasswordInv'
<1>1. UNCHANGED mail
  BY DEF codeVars
<1>2. ASSUME PlainStep(r), slots[r] # Idle, UNCHANGED <<version, superseded, overlapped>>
      PROVE  PasswordInv'
  <2> PICK more \in Seq(Commands) : Proceed(r, more) /\ Plain(more)
    BY <1>2 DEF PlainStep
  <2>1. Grows /\ more \in Seq(Commands)'
    BY <1>1, TodosGrow DEF Grows, Proceed
  <2>2. \A i \in DOMAIN more : more[i].kind \notin {"issue", "setVersion"}
    BY DEF Plain, PlainKinds
  <2> QED BY <1>2, <2>1, <2>2, PasswordProceeds
<1>3. ASSUME Throw(r), UNCHANGED <<version, superseded, overlapped>>
      PROVE  PasswordInv'
  <2>1. slots'[r] = Idle /\ UNCHANGED tokens /\ \A x \in Slots : x # r => slots'[x] = slots[x]
    BY <1>1, <1>3, Throws
  <2> QED BY <1>3, <2>1, PasswordElse DEF Idle
<1>4. CASE ReadDevice(r) \/ DelRefresh(r) \/ AddToBlacklist(r) \/ DropRead(r) \/ ListDevices(r)
             \/ CollectNext(r) \/ RevokeFound(r) \/ Consume(r) \/ MarkUsed(r)
  <2>1. PlainStep(r)
    BY <1>4, PlainCommands
  <2>2. slots[r] # Idle /\ UNCHANGED <<version, superseded, overlapped>>
    BY <1>4 DEF ReadDevice, DelRefresh, AddToBlacklist, DropRead, ListDevices, CollectNext,
                RevokeFound, Consume, MarkUsed, Doing, history
  <2> QED BY <1>2, <2>1, <2>2
<1>5. CASE DropKey(r) \/ Unindex(r) \/ AddToIndex(r)
  <2> DEFINE more == <<>>
  <2>1. Proceed(r, more) /\ slots[r] # Idle /\ UNCHANGED <<version, superseded, overlapped>>
    BY <1>5 DEF DropKey, Unindex, AddToIndex, Doing, history
  <2>2. more \in Seq(Commands)' /\ DOMAIN more = {}
    OBVIOUS
  <2>3. Grows
    BY <2>1, <1>1 DEF Grows, Proceed
  <2> HIDE DEF more
  <2> QED BY <2>1, <2>2, <2>3, PasswordProceeds
<1>6. CASE CheckSession(r)
  <2>1. slots[r] # Idle /\ UNCHANGED <<version, superseded, overlapped>>
    BY <1>6 DEF CheckSession, Doing, history
  <2>2. CASE IsLatest(Command(r).token)
    BY <1>2, <1>6, <2>1, <2>2, PlainCommands
  <2>3. CASE ~IsLatest(Command(r).token)
    BY <1>3, <1>6, <2>1, <2>3 DEF CheckSession
  <2> QED BY <2>2, <2>3
<1>7. CASE CommandFails(r)
  BY <1>3, <1>7 DEF CommandFails, history
<1>8. CASE CreateSession(r) \/ UpdateRead(r)
  BY <1>1, <1>8, PasswordRow
<1> QED BY <1>1, <1>4, <1>5, <1>6, <1>7, <1>8, PasswordUsed, PasswordIssue, PasswordSet
       DEF RedisCommand

\* A command of an account returns, and leaves the sessions alone.
LEMMA CodeReturns ==
  ASSUME AccountTypeOK, NEW r \in Slots, CodeCommand(r)
  PROVE  /\ slots[r] # Idle /\ Grows
         /\ UNCHANGED <<version, sessions, index, strays, superseded, overlapped, calm>>
         /\ Command(r).kind \in {"mail", "attempt", "compare", "verify", "reset", "spend", "register"}
         /\ registered \subseteq registered'
         /\ Command(r).kind = "register" => Command(r).user \in registered'
         /\ \E more \in Seq(Commands)' :
              Proceed(r, more) /\ \A i \in DOMAIN more : more[i].kind \in {"compare", "verify", "reset"}
<1>1. slots[r] # Idle /\ UNCHANGED <<version, sessions, index, strays, superseded, overlapped, calm>>
  BY DEF CodeCommand, MailCode, WriteAttempt, CompareCode, VerifyEmail, GrantReset,
     SpendGrant, InsertUser, AccountCall, Doing, history, redis, ages, Proceed, counters
<1>2. /\ Command(r).kind \in {"mail", "attempt", "compare", "verify", "reset", "spend", "register"}
      /\ registered \subseteq registered'
      /\ Command(r).kind = "register" => Command(r).user \in registered'
  BY DEF CodeCommand, MailCode, WriteAttempt, CompareCode, VerifyEmail, GrantReset,
     SpendGrant, InsertUser, Doing, Command
<1>5. Command(r) \in Commands
  BY <1>1, Current
<1>3. Grows
  <2>1. UNCHANGED tokens
    BY DEF CodeCommand, MailCode, WriteAttempt, CompareCode, VerifyEmail, GrantReset,
       SpendGrant, InsertUser, AccountCall, Proceed
  <2>2. DOMAIN mail \subseteq DOMAIN mail'
    <3>1. CASE MailCode(r)
      <4> DEFINE m == [user |-> Command(r).user, purpose |-> Command(r).purpose]
      <4>1. mail' = Append(mail, m)
        BY <3>1 DEF MailCode
      <4>2. mail \in Seq([user: WithEmail, purpose: Purposes])
        BY DEF AccountTypeOK, CodeTypeOK
      <4> HIDE DEF m
      <4> QED BY <4>1, <4>2
    <3>2. CASE ~MailCode(r)
      BY <3>2 DEF CodeCommand, WriteAttempt, CompareCode, VerifyEmail, GrantReset,
         SpendGrant, InsertUser
    <3> QED BY <3>1, <3>2
  <2> QED BY <2>1, <2>2 DEF Grows
<1>4. \E more \in Seq(Commands)' :
        Proceed(r, more) /\ \A i \in DOMAIN more : more[i].kind \in {"compare", "verify", "reset"}
  <2>1. <<>> \in Seq(Commands)' /\ DOMAIN <<>> = {}
    OBVIOUS
  <2>2. ASSUME NEW c \in Commands, c.kind \in {"compare", "verify", "reset"}, Proceed(r, <<c>>)
        PROVE  \E more \in Seq(Commands)' :
                 Proceed(r, more) /\ \A i \in DOMAIN more : more[i].kind \in {"compare", "verify", "reset"}
    <3>1. c \in Commands'
      BY <1>3, CommandsGrow
    <3>2. <<c>> \in Seq(Commands)' /\ DOMAIN <<c>> = {1} /\ <<c>>[1] = c
      BY <3>1
    <3> QED BY <2>2, <3>2
  <2>3. CASE WriteAttempt(r)
    <3> DEFINE c == Command(r)
               counted == [c.code EXCEPT !.attempts = @ + 1]
               next == [c EXCEPT !.kind = "compare", !.code = counted]
    <3>1. c \in AttemptCommands
      BY <1>5, <2>3, CommandOf DEF WriteAttempt, Doing, Command
    <3>2. counted \in Code
      BY <3>1 DEF AttemptCommands, Code
    <3>3. next \in AttemptCommands /\ next.kind = "compare"
      BY <3>1, <3>2 DEF AttemptCommands
    <3>4. Proceed(r, <<next>>)
      BY <2>3 DEF WriteAttempt
    <3> HIDE DEF next, counted
    <3> QED BY <2>2, <3>3, <3>4 DEF Commands
  <2>4. CASE CompareCode(r)
    <3> DEFINE c == Command(r)
               right == ~(c.code.attempts > MaxAttempts) /\ c.entered = c.code.mail
               next == [kind |-> c.purpose, mail |-> c.code.mail]
    <3>1. c \in AttemptCommands
      BY <1>5, <2>4, CommandOf DEF CompareCode, Doing, Command
    <3>2. next \in EffectCommands /\ next.kind \in {"verify", "reset"}
      BY <3>1 DEF EffectCommands, AttemptCommands, Code, Purposes
    <3>3. Proceed(r, IF right THEN <<next>> ELSE <<>>)
      BY <2>4 DEF CompareCode
    <3> HIDE DEF next, right
    <3> QED BY <2>1, <2>2, <3>2, <3>3 DEF Commands
  <2>5. CASE ~WriteAttempt(r) /\ ~CompareCode(r)
    <3>1. Proceed(r, <<>>)
      BY <2>5 DEF CodeCommand, MailCode, VerifyEmail, GrantReset, SpendGrant, InsertUser, AccountCall
    <3> QED BY <2>1, <3>1
  <2> QED BY <2>3, <2>4, <2>5
<1> QED BY <1>1, <1>2, <1>3, <1>4

LEMMA PasswordCode ==
  ASSUME AccountTypeOK, InOrder, PasswordInv, NEW r \in Slots, CodeCommand(r)
  PROVE  PasswordInv'
<1>1. AccountTypeOK' /\ slots[r] # Idle /\ Grows /\ UNCHANGED <<version, superseded, overlapped>>
  BY CodeTypes, CodeReturns
<1>2. PICK more \in Seq(Commands)' :
        Proceed(r, more) /\ \A i \in DOMAIN more : more[i].kind \in {"compare", "verify", "reset"}
  BY CodeReturns
<1>3. \A i \in DOMAIN more : more[i].kind \notin {"issue", "setVersion"}
  BY <1>2
<1> QED BY <1>1, <1>2, <1>3, PasswordProceeds

LEMMA PasswordOpen ==
  ASSUME AccountTypeOK, PasswordInv, NEW r \in Slots, Opens(r), UNCHANGED mail
  PROVE  PasswordInv'
<1> PICK todo, kills : Begin(r, todo, kills) /\ Opening(todo, kills)
  BY DEF Opens
<1>1. /\ Start(r, todo, kills) /\ UNCHANGED overlapped /\ todo \in Seq(Commands) /\ todo # <<>>
      /\ kills \in SUBSET DOMAIN tokens
  BY DEF Begin, Opening
<1>2. /\ slots'[r] = [todo |-> todo, kills |-> kills]
      /\ \A x \in Slots : x # r => slots'[x] = slots[x]
      /\ UNCHANGED <<version, tokens, superseded>>
  BY <1>1, Starts
<1>3. \A i \in DOMAIN todo :
        todo[i].kind # "setVersion"
          /\ (todo[i].kind = "issue" => todo[i].token.version <= version[todo[i].token.user])
  BY DEF Opening, StartKinds
<1> QED BY <1>1, <1>2, <1>3, PasswordElse

\* Passwords: every step.
LEMMA PasswordsKept ==
  ASSUME AccountTypeOK, InOrder, PasswordInv, AccountNext
  PROVE  PasswordInv'
<1>1. ASSUME NEW r \in Slots, Pass(r) PROVE PasswordInv'
  BY <1>1, PasswordPass DEF Pass
<1>2. ASSUME NEW r \in Slots, CodeCommand(r) PROVE PasswordInv'
  BY <1>2, PasswordCode
<1>3. ASSUME NEW r \in Slots, Opened(r) PROVE PasswordInv'
  BY <1>3, PasswordOpen DEF Opened, codeVars
<1>4. ASSUME NEW r \in Slots, NEW u \in Users, Renewed(r, u) PROVE PasswordInv'
  BY <1>4, PasswordRenew DEF Renewed
<1>5. ASSUME Expires PROVE PasswordInv'
  BY <1>5 DEF Expires, vars, history, PasswordInv, VersionsOf, ChangesOf, ChangesPassword, Doing,
              Command, IssuedTo
<1>6. ASSUME Lapses PROVE PasswordInv'
  <2>1. UNCHANGED <<version, tokens, slots, superseded, overlapped>>
    BY <1>6, Lapsing DEF Lapses, AccountTypeOK
  <2> QED BY <2>1 DEF PasswordInv, VersionsOf, ChangesOf, ChangesPassword, Doing, Command, IssuedTo
<1> QED BY <1>1, <1>2, <1>3, <1>4, <1>5, <1>6, Steps

LEMMA InitTypes ==
  ASSUME AccountInit
  PROVE  AccountTypeOK /\ InOrder /\ PasswordInv
<1>1. slots \in [Slots -> Request] /\ \A r \in Slots : slots[r] = Idle
  <2>1. Idle \in Request
    BY DEF Idle, Request
  <2> QED BY <2>1 DEF AccountInit, Init
<1>2. \A r \in Slots : slots[r].todo = <<>> /\ DOMAIN slots[r].todo = {}
  BY <1>1, NothingMore DEF Idle
<1>3. /\ version \in [Users -> Nat \ {0}]
      /\ sessions \in [Devices -> SessionRow \cup {NoSession}]
      /\ \A d \in Devices : ~HasSession(d)
      /\ index \in [Users -> SUBSET Devices]
      /\ calm \in BOOLEAN /\ revoked = {} /\ superseded = {} /\ overlapped = {} /\ tokens = <<>>
  BY DEF AccountInit, Init, HasSession
<1>4. tokens \in Seq(Token) /\ DOMAIN tokens = {}
  <2>1. <<>> \in Seq(Token)
    OBVIOUS
  <2> QED BY <1>3, <2>1, NothingMore
<1>5. SessionTypeOK
  BY <1>1, <1>3, <1>4 DEF SessionTypeOK, SlotsTypeOK
<1>6. mail \in Seq([user: WithEmail, purpose: Purposes]) /\ Len(mail) <= MaxCodes
  BY AccountAssumption DEF AccountInit
<1>7. CodeTypeOK
  BY <1>6 DEF AccountInit, CodeTypeOK
<1>8. InOrder
  BY <1>2 DEF InOrder
<1>9. PasswordInv
  BY <1>1, <1>2, <1>3, <1>4 DEF PasswordInv, VersionsOf, ChangesOf, IssuedTo, ChangesPassword, Doing
<1> QED BY <1>5, <1>7, <1>8, <1>9 DEF AccountTypeOK

\* Nothing is written that a later command could not read.
THEOREM AccountTyped == AccountSpec => [](AccountTypeOK /\ InOrder)
<1>1. AccountInit => AccountTypeOK /\ InOrder
  BY InitTypes
<1>2. AccountTypeOK /\ InOrder /\ [AccountNext]_accountVars => (AccountTypeOK /\ InOrder)'
  <2> SUFFICES ASSUME AccountTypeOK, InOrder, [AccountNext]_accountVars
               PROVE  (AccountTypeOK /\ InOrder)'
    OBVIOUS
  <2>1. CASE AccountNext
    BY <2>1, TypesKept
  <2>2. CASE UNCHANGED accountVars
    BY <2>2, ExpiresTypes DEF accountVars, codeVars, Expires
  <2> QED BY <2>1, <2>2
<1> QED BY <1>1, <1>2, PTL DEF AccountSpec

\* From the moment a password change is written no token issued before it began
\* is accepted, whatever else is in flight and whichever command fails: its
\* version is older than the user's, and no version is ever written back unless
\* two changes of the password overlapped.
THEOREM PasswordsAreFinal == AccountSpec => []PasswordChangeIsFinal
<1>1. AccountInit => PasswordInv
  BY InitTypes
<1>2. AccountTypeOK /\ InOrder /\ PasswordInv /\ [AccountNext]_accountVars => PasswordInv'
  <2> SUFFICES ASSUME AccountTypeOK, InOrder, PasswordInv, [AccountNext]_accountVars
               PROVE  PasswordInv'
    OBVIOUS
  <2>1. CASE UNCHANGED accountVars
    BY <2>1 DEF accountVars, vars, history, PasswordInv, VersionsOf, ChangesOf, ChangesPassword,
                Doing, Command, IssuedTo
  <2> QED BY <2>1, PasswordsKept
<1>3. AccountTypeOK /\ PasswordInv => PasswordChangeIsFinal
  <2> SUFFICES ASSUME AccountTypeOK, PasswordInv, NEW n \in superseded, tokens[n].user \notin overlapped
               PROVE  ~Introspect(n) /\ ~Refreshable(n)
    BY DEF PasswordChangeIsFinal
  <2>1. n \in DOMAIN tokens /\ version \in [Users -> Nat \ {0}]
    BY DEF AccountTypeOK, SessionTypeOK
  <2>2. tokens[n].user \in Users /\ tokens[n].version \in Nat
    BY <2>1, TokenTyped
  <2>3. tokens[n].version < version[tokens[n].user]
    BY <2>2 DEF PasswordInv, VersionsOf
  <2>4. version[tokens[n].user] \in Nat
    BY <2>1, <2>2
  <2>5. ~CurrentVersion(n)
    BY <2>2, <2>3, <2>4 DEF CurrentVersion
  <2> QED BY <2>5 DEF Introspect, Refreshable
<1> QED BY <1>1, <1>2, <1>3, AccountTyped, PTL DEF AccountSpec

-----------------------------------------------------------------------------
(* Sessions, one request at a time *)

\* While requests are handled one at a time, the others are idle.
Alone(r) == \A x \in Slots : x # r => slots[x] = Idle

\* What the commands of one request and the state keep.
Served(r, todo, kills) ==
  /\ Relies(todo) /\ Kills(todo, kills)
  /\ \A d \in Devices \ strays :
       HasSession(d) =>
         \/ d \in index[sessions[d].user]
         \/ \E i \in DOMAIN todo : /\ i = 1 /\ todo[i].kind = "index"
                                   /\ todo[i].user = sessions[d].user /\ todo[i].dev = d
  /\ \A d \in Devices : HasSession(d) => sessions[d].user \in registered
  /\ \A d, e \in WebDevices \ strays :
       HasSession(d) /\ HasSession(e) /\ sessions[d].user = sessions[e].user => d = e
  /\ \A n \in revoked : ~Lives(n)

LEMMA ServedBefore ==
  ASSUME AccountTypeOK, CalmSessions, calm, NEW r \in Slots, slots[r] # Idle
  PROVE  Alone(r) /\ Served(r, slots[r].todo, slots[r].kills)
<1>1. Alone(r)
  BY DEF CalmSessions, OneAtATime, Alone
<1>2. slots[r].todo # <<>> /\ 1 \in DOMAIN slots[r].todo /\ Command(r) = slots[r].todo[1]
  BY Current
<1>3. \A x \in Slots : Doing(x, "index") => x = r /\ slots[r].todo[1].kind = "index"
  BY <1>1, <1>2 DEF Alone, Doing, Command
<1>4. ASSUME NEW d \in Devices \ strays, HasSession(d), d \notin index[sessions[d].user]
      PROVE  \E i \in DOMAIN slots[r].todo : /\ i = 1 /\ slots[r].todo[i].kind = "index"
                 /\ slots[r].todo[i].user = sessions[d].user /\ slots[r].todo[i].dev = d
  BY <1>2, <1>3, <1>4 DEF CalmSessions, Indexed
<1> QED BY <1>1, <1>4 DEF CalmSessions, Served

\* After a step of request r it is enough to look at its commands.
LEMMA ServedAfter ==
  ASSUME AccountTypeOK', NEW r \in Slots, Alone(r)',
         Served(r, slots[r].todo, slots[r].kills)'
  PROVE  CalmSessions'
<1>1. OneAtATime'
  BY DEF Alone, OneAtATime
<1>2. \A x \in Slots : Relies(slots[x].todo)' /\ Kills(slots[x].todo, slots[x].kills)'
  <2>1. ASSUME NEW x \in Slots, x # r
        PROVE  Relies(slots[x].todo)' /\ Kills(slots[x].todo, slots[x].kills)'
    <3>1. slots'[x].todo = <<>> /\ slots'[x].kills = {} /\ DOMAIN slots'[x].todo = {}
      BY <2>1, NothingMore DEF Alone, Idle
    <3> QED BY <3>1 DEF Relies, Kills
  <2> QED BY <2>1 DEF Served
<1>3. ASSUME NEW d \in Devices \ strays' PROVE Indexed(d)'
  <2> SUFFICES ASSUME HasSession(d)', d \notin index'[sessions'[d].user]
               PROVE  /\ Doing(r, "index")'
                      /\ Command(r)'.user = sessions'[d].user /\ Command(r)'.dev = d
    BY DEF Indexed
  <2>1. PICK i \in DOMAIN slots'[r].todo : /\ i = 1 /\ slots'[r].todo[i].kind = "index"
             /\ slots'[r].todo[i].user = sessions'[d].user /\ slots'[r].todo[i].dev = d
    BY DEF Served
  <2>2. slots'[r] # Idle
    BY <2>1, NothingMore DEF Idle
  <2>3. Command(r)' = slots'[r].todo[1]
    BY <2>1 DEF Command, AccountTypeOK, SessionTypeOK, SlotsTypeOK, Request
  <2> QED BY <2>1, <2>2, <2>3 DEF Doing, Command
<1> QED BY <1>1, <1>2, <1>3 DEF Served, CalmSessions

\* A command returns: what it was to kill is dead if it was the last.
LEMMA CalmProceeds ==
  ASSUME AccountTypeOK, AccountTypeOK', CalmSessions, calm, NEW r \in Slots, slots[r] # Idle, Grows,
         NEW more \in Seq(Commands)', Proceed(r, more),
         NEW rest, rest = more \o Tail(slots[r].todo), NEW kills, kills = slots[r].kills,
         Relies(rest)' \/ rest = <<>>,
         Kills(rest, kills)',
         \A d \in Devices \ strays' :
           HasSession(d)' =>
             \/ d \in index'[sessions'[d].user]
             \/ /\ 1 \in DOMAIN more /\ more[1].kind = "index"
                /\ more[1].user = sessions'[d].user /\ more[1].dev = d,
         \A d \in Devices : HasSession(d)' => sessions'[d].user \in registered',
         \A d, e \in WebDevices \ strays' :
           HasSession(d)' /\ HasSession(e)' /\ sessions'[d].user = sessions'[e].user => d = e,
         \A n \in revoked : ~Lives(n)'
  PROVE  CalmSessions'
<1>1. Alone(r)
  BY ServedBefore
<1>2. /\ \A x \in Slots : x # r => slots'[x] = slots[x]
      /\ slots'[r].todo = rest
      /\ IF rest = <<>> THEN slots'[r] = Idle /\ revoked' = revoked \cup kills
                        ELSE slots'[r].kills = kills /\ revoked' = revoked
  BY Proceeds
<1>3. Alone(r)'
  BY <1>1, <1>2 DEF Alone
<1>4. \A i \in DOMAIN more : i \in DOMAIN rest /\ rest[i] = more[i]
  <2>1. Tail(slots[r].todo) \in Seq(Commands)'
    BY Current, TodosGrow
  <2> QED BY <2>1
<1>5. (Relies(rest)' \/ rest = <<>>) /\ Kills(rest, kills)'
  OBVIOUS
<1>6. Relies(slots[r].todo)' /\ Kills(slots[r].todo, slots[r].kills)'
  <2>1. CASE rest = <<>>
    <3>1. DOMAIN slots'[r].todo = {}
      BY <1>2, <2>1, NothingMore, Zenon
    <3>2. slots'[r].kills = {}
      <4>1. slots'[r] = Idle
        BY <1>2, <2>1, Zenon
      <4> QED BY <4>1 DEF Idle
    <3> QED BY <3>1, <3>2 DEF Relies, Kills
  <2>2. CASE rest # <<>>
    <3>1. slots'[r].todo = rest /\ slots'[r].kills = kills
      BY <1>2, <2>2
    <3>2. Relies(slots[r].todo)'
      BY <1>5, <2>2, <3>1, ZenonT(40) DEF Relies, Drops, Found, SessionOf
    <3>3. Kills(slots[r].todo, slots[r].kills)'
      BY <1>5, <3>1 DEF Kills, Drops, Lives
    <3> QED BY <3>2, <3>3
  <2> QED BY <2>1, <2>2
<1>7. \A n \in revoked' : ~Lives(n)'
  <2>1. CASE rest = <<>>
    <3>1. \A n \in kills : ~Lives(n)'
      <4>1. DOMAIN rest = {}
        BY <2>1, NothingMore
      <4> QED BY <1>5, <4>1 DEF Kills, Drops
    <3> QED BY <1>2, <2>1, <3>1
  <2>2. CASE rest # <<>>
    BY <1>2, <2>2
  <2> QED BY <2>1, <2>2
<1>8. Served(r, slots[r].todo, slots[r].kills)'
  BY <1>2, <1>4, <1>6, <1>7 DEF Served
<1> QED BY <1>3, <1>8, ServedAfter

\* Kinds of commands that end where no command on a session follows.
Writing == {"create", "update", "updateSet", "index", "unindex", "dropKey", "issue"}

\* Commands that write neither a session nor an index.
LEMMA CalmQuiet ==
  ASSUME AccountTypeOK, AccountTypeOK', InOrder, CalmSessions, calm, NEW r \in Slots, slots[r] # Idle,
         Grows, UNCHANGED <<sessions, index, strays>>, registered \subseteq registered',
         NEW more \in Seq(Commands)', Proceed(r, more), HandsOver(r, more),
         \A i \in DOMAIN more : more[i].kind \notin Writing \ {"unindex", "dropKey"},
         Command(r).kind \notin Writing,
         Command(r).kind = "register" => Command(r).user \in registered'
  PROVE  CalmSessions'
<1> PICK todo : todo = slots[r].todo
  OBVIOUS
<1> PICK kills : kills = slots[r].kills
  OBVIOUS
<1>0. PICK rest : rest = more \o Tail(todo)
  OBVIOUS
<1>1. Served(r, todo, kills)
  BY ServedBefore
<1>2. todo \in Seq(Commands) /\ todo # <<>> /\ todo \in Seq(Commands)' /\ todo[1] = Command(r)
  BY Current, TodosGrow
<1>3. \A j \in DOMAIN todo : todo[j].kind \in HeadOnly => j = 1
  BY DEF InOrder
<1>4. slots'[r].todo = rest
  BY <1>0, Proceeds
<1>5. /\ \A i \in DOMAIN rest :
           \/ i \in DOMAIN more /\ rest[i] = more[i]
           \/ \E j \in DOMAIN todo : j # 1 /\ rest[i] = todo[j]
      /\ \A i \in DOMAIN more : i \in DOMAIN rest /\ rest[i] = more[i]
      /\ \A j \in DOMAIN todo : j # 1 => \E i \in DOMAIN rest : rest[i] = todo[j]
  <2>1. LET new == slots'[r].todo
            old == slots[r].todo
        IN /\ \A i \in DOMAIN new :
                \/ i \in DOMAIN more /\ new[i] = more[i]
                \/ \E j \in DOMAIN old : j # 1 /\ new[i] = old[j]
           /\ \A i \in DOMAIN more : i \in DOMAIN new /\ new[i] = more[i]
           /\ \A j \in DOMAIN old : j # 1 =>
                j + Len(more) - 1 \in DOMAIN new /\ new[j + Len(more) - 1] = old[j]
    BY RestOf
  <2>2. slots'[r].todo = rest /\ slots[r].todo = todo
    BY <1>4
  <2> QED BY <2>1, <2>2
<1>6. UNCHANGED tokens /\ \A u \in Users, d \in Devices : Found(u, d)' = Found(u, d)
  BY DEF Proceed, Found, SessionOf, HasSession
<1>7. (\A d \in Devices : HasSession(d)' = HasSession(d)) /\ \A n \in DOMAIN tokens : Lives(n)' = Lives(n)
  BY <1>6 DEF HasSession, Lives, IsLatest
<1>8. \A d \in Devices \ strays : HasSession(d) => d \in index[sessions[d].user]
  BY <1>1, <1>2 DEF Served, Writing
<1>9. \A u \in Users, d \in Devices : Found(u, d) /\ Drops(todo, u, d) => Drops(rest, u, d)
  <2> SUFFICES ASSUME NEW u \in Users, NEW d \in Devices, Found(u, d), Drops(todo, u, d)
               PROVE  Drops(rest, u, d)
    OBVIOUS
  <2>1. PICK j \in DOMAIN todo : DropsBy(todo[j], u, d)
    BY DEF Drops
  <2>2. CASE j = 1
    <3>1. d \in index[u]
      BY <1>8 DEF Found, SessionOf
    <3>2. Drops(more, u, d)
      BY <2>1, <2>2, <3>1, <1>2 DEF HandsOver, Found
    <3> QED BY <3>2, <1>5 DEF Drops
  <2>3. CASE j # 1
    BY <2>1, <2>3, <1>5 DEF Drops
  <2> QED BY <2>2, <2>3
<1>10. ASSUME NEW i \in DOMAIN rest PROVE rest[i].kind \notin {"create", "update", "updateSet"}
  BY <1>3, <1>5 DEF Writing, HeadOnly
<1>11. Relies(rest)'
  <2>1. ASSUME NEW i \in DOMAIN rest, rest[i].kind = "unindex"
        PROVE  ~HasSession(rest[i].dev)' \/ (i # 1 /\ rest[1].kind = "dropKey" /\ rest[1].dev = rest[i].dev)
    <3>1. CASE i \in DOMAIN more /\ rest[i] = more[i]
      <4>1. ~HasSession(more[i].dev) \/ (i # 1 /\ more[1].kind = "dropKey" /\ more[1].dev = more[i].dev)
        BY <2>1, <3>1 DEF HandsOver
      <4>2. 1 \in DOMAIN more /\ rest[1] = more[1]
        BY <3>1, <1>5
      <4> QED BY <3>1, <4>1, <4>2 DEF HasSession
    <3>2. CASE \E j \in DOMAIN todo : j # 1 /\ rest[i] = todo[j]
      <4> PICK j \in DOMAIN todo : j # 1 /\ rest[i] = todo[j]
        BY <3>2
      <4>1. ~HasSession(todo[j].dev) \/ (todo[1].kind = "dropKey")
        BY <1>1, <2>1 DEF Served, Relies
      <4> QED BY <4>1, <1>2 DEF HasSession, Writing
    <3> QED BY <3>1, <3>2, <1>5
  <2>2. ASSUME NEW i \in DOMAIN rest, NEW u \in Users, NEW d \in Devices, Makes(rest[i], u, d)
        PROVE  /\ u \in registered'
               /\ d \in WebDevices =>
                    \A e \in WebDevices \ {d} : Found(u, e)' => Drops(rest, u, e)
    <3>1. rest[i].kind = "issue"
      BY <1>10, <2>2 DEF Makes
    <3>2. PICK j \in DOMAIN todo : j # 1 /\ rest[i] = todo[j]
      BY <3>1, <1>5 DEF Writing
    <3>3. /\ u \in registered \/ (todo[1].kind = "register" /\ todo[1].user = u)
          /\ d \in WebDevices =>
               \A e \in WebDevices \ {d} : Found(u, e) => Drops(todo, u, e)
      BY <1>1, <2>2, <3>2 DEF Served, Relies
    <3> QED BY <3>3, <1>2, <1>6, <1>9, SessionAssumption
  <2> QED BY <1>10, <2>1, <2>2 DEF Relies
<1>12. Kills(rest, kills)'
  <2>1. kills \subseteq DOMAIN tokens
    BY Current
  <2>2. ASSUME NEW n \in kills, Lives(n)' PROVE Drops(rest, tokens[n].user, tokens[n].dev)
    <3>1. Lives(n) /\ n \in DOMAIN tokens
      BY <1>7, <2>1, <2>2
    <3>2. Found(tokens[n].user, tokens[n].dev)
      BY <3>1 DEF Lives, IsLatest, Found, SessionOf, HasSession
    <3>3. Drops(todo, tokens[n].user, tokens[n].dev)
      BY <1>1, <3>1 DEF Served, Kills
    <3> QED BY <1>9, <3>1, <3>2, <3>3, TokenTyped
  <2> QED BY <1>6, <1>10, <2>2 DEF Kills
<1>13. \A n \in revoked : ~Lives(n)'
  BY <1>1, <1>7 DEF Served, AccountTypeOK, SessionTypeOK
<1>14. /\ \A d \in Devices \ strays' : HasSession(d)' => d \in index'[sessions'[d].user]
       /\ \A d \in Devices : HasSession(d)' => sessions'[d].user \in registered'
       /\ \A d, e \in WebDevices \ strays' :
            HasSession(d)' /\ HasSession(e)' /\ sessions'[d].user = sessions'[e].user => d = e
  BY <1>1, <1>7, <1>8, SessionAssumption DEF Served
<1>15. rest = more \o Tail(slots[r].todo) /\ kills = slots[r].kills
  BY <1>0
<1> QED BY <1>11, <1>12, <1>13, <1>14, <1>15, CalmProceeds

\* A session that is deleted, and a device taken off an index.
LEMMA CalmDeletes ==
  ASSUME AccountTypeOK, AccountTypeOK', InOrder, CalmSessions, calm, NEW r \in Slots,
         DropKey(r) \/ Unindex(r), UNCHANGED codeVars
  PROVE  CalmSessions'
<1>1. PICK more : more = <<>>
  OBVIOUS
<1> PICK todo : todo = slots[r].todo
  OBVIOUS
<1> PICK kills : kills = slots[r].kills
  OBVIOUS
<1>0. PICK rest : rest = more \o Tail(todo)
  OBVIOUS
<1>2. /\ slots[r] # Idle /\ Proceed(r, more) /\ UNCHANGED <<registered, mail>>
      /\ Command(r).kind \in {"dropKey", "unindex"}
  BY <1>1 DEF DropKey, Unindex, Doing, Command, codeVars
<1>3. UNCHANGED tokens /\ Grows
  BY <1>2 DEF Proceed, Grows
<1>4. Served(r, todo, kills)
  BY <1>2, ServedBefore
<1>5. todo \in Seq(Commands) /\ todo # <<>> /\ 1 \in DOMAIN todo /\ todo[1] = Command(r)
      /\ kills \subseteq DOMAIN tokens
  BY <1>2, Current
<1>6. more \in Seq(Commands)' /\ DOMAIN more = {}
  BY <1>1
<1>7. slots'[r].todo = rest
  BY <1>0, <1>2, <1>3, <1>6, Proceeds
<1>8. \A i \in DOMAIN rest :
        /\ \E j \in DOMAIN todo : j # 1 /\ rest[i] = todo[j]
        /\ rest[i].kind \notin HeadOnly
  <2>1. LET new == slots'[r].todo
            old == slots[r].todo
        IN \A i \in DOMAIN new :
             \/ i \in DOMAIN more /\ new[i] = more[i]
             \/ /\ i \notin DOMAIN more
                /\ \E j \in DOMAIN old : /\ j # 1 /\ new[i] = old[j]
                                         /\ i = j + Len(more) - 1
                /\ new[i].kind \notin HeadOnly
    BY <1>2, <1>3, <1>6, RestOf
  <2> QED BY <1>6, <1>7, <2>1
<1>9. \A j \in DOMAIN todo : j # 1 => \E i \in DOMAIN rest : rest[i] = todo[j]
  <2>1. LET new == slots'[r].todo
            old == slots[r].todo
        IN \A j \in DOMAIN old : j # 1 =>
             j + Len(more) - 1 \in DOMAIN new /\ new[j + Len(more) - 1] = old[j]
    BY <1>2, <1>3, <1>6, RestOf
  <2> QED BY <1>7, <2>1
\* What the step does to the sessions and the index.
<1>10. \A d \in Devices : HasSession(d)' => HasSession(d) /\ sessions'[d] = sessions[d]
  BY DEF DropKey, Unindex, HasSession, AccountTypeOK, SessionTypeOK
<1>11. ASSUME Command(r).kind = "dropKey" PROVE sessions'[Command(r).dev] = NoSession
  <2>1. Command(r) \in DropCommands
    BY <1>2, <1>11, Current, CommandOf
  <2>2. DropKey(r)
    BY <1>11 DEF Unindex, Doing, Command
  <2> QED BY <2>1, <2>2 DEF DropCommands, DropKey, AccountTypeOK, SessionTypeOK
<1>22. \A d \in Devices : HasSession(d)' /\ d \notin strays' => d \notin strays
  <2>1. CASE DropKey(r)
    <3>1. strays' = strays \ {Command(r).dev} /\ Command(r).kind = "dropKey"
      BY <2>1 DEF DropKey, Doing, Command
    <3> QED BY <3>1, <1>11 DEF HasSession
  <2>2. CASE Unindex(r)
    BY <2>2 DEF Unindex, ages
  <2> QED BY <2>1, <2>2
<1>12. \A u \in Users, d \in Devices : Found(u, d)' => Found(u, d) /\ ~DropsBy(Command(r), u, d)
  BY <1>2, <1>10, <1>11, <1>22 DEF Found, SessionOf, DropsBy, HasSession
<1>13. ASSUME NEW d \in Devices \ strays', HasSession(d)' PROVE d \in index'[sessions'[d].user]
  <2>1. HasSession(d) /\ sessions'[d] = sessions[d] /\ d \in index[sessions[d].user]
    BY <1>2, <1>4, <1>5, <1>10, <1>13, <1>22 DEF Served
  <2>2. CASE DropKey(r)
    BY <2>1, <2>2 DEF DropKey
  <2>3. CASE Unindex(r)
    <3>1. todo[1].kind = "unindex"
      BY <1>5, <2>3 DEF Unindex, Doing, Command
    <3>2. ~HasSession(Command(r).dev)
      BY <1>4, <1>5, <3>1 DEF Served, Relies
    <3>3. sessions[d].user \in Users
      BY <2>1 DEF AccountTypeOK, SessionTypeOK, HasSession, SessionRow
    <3> QED BY <2>1, <2>3, <3>2, <3>3 DEF Unindex, AccountTypeOK, SessionTypeOK
  <2> QED BY <2>2, <2>3
<1>14. \A u \in Users, d \in Devices : Found(u, d)' /\ Drops(todo, u, d) => Drops(rest, u, d)
  <2> SUFFICES ASSUME NEW u \in Users, NEW d \in Devices, Found(u, d)', Drops(todo, u, d)
               PROVE  Drops(rest, u, d)
    OBVIOUS
  <2>1. PICK j \in DOMAIN todo : DropsBy(todo[j], u, d)
    BY DEF Drops
  <2>2. j # 1
    BY <1>5, <1>12, <2>1
  <2> QED BY <1>9, <2>1, <2>2 DEF Drops
<1>15. ASSUME NEW i \in DOMAIN rest PROVE rest[i].kind \notin {"create", "update", "updateSet"}
  BY <1>8 DEF HeadOnly
<1>16. Relies(rest)'
  <2>1. ASSUME NEW i \in DOMAIN rest, rest[i].kind = "unindex"
        PROVE  ~HasSession(rest[i].dev)'
    <3> PICK j \in DOMAIN todo : j # 1 /\ rest[i] = todo[j]
      BY <1>8
    <3>1. ~HasSession(todo[j].dev) \/ (todo[1].kind = "dropKey" /\ todo[1].dev = todo[j].dev)
      BY <1>4, <2>1 DEF Served, Relies
    <3>2. todo[j] \in Commands
      BY <1>5, Indexes
    <3>3. todo[j].dev \in Devices
      BY <2>1, <3>2, CommandOf DEF DeviceCommands
    <3> QED BY <1>5, <1>10, <1>11, <3>1, <3>3 DEF HasSession
  <2>2. ASSUME NEW i \in DOMAIN rest, NEW u \in Users, NEW d \in Devices, Makes(rest[i], u, d)
        PROVE  /\ u \in registered'
               /\ d \in WebDevices =>
                    \A e \in WebDevices \ {d} : Found(u, e)' => Drops(rest, u, e)
    <3> PICK j \in DOMAIN todo : j # 1 /\ rest[i] = todo[j]
      BY <1>8
    <3>1. /\ u \in registered \/ (todo[1].kind = "register" /\ todo[1].user = u)
          /\ d \in WebDevices =>
               \A e \in WebDevices \ {d} : Found(u, e) => Drops(todo, u, e)
      BY <1>4, <2>2 DEF Served, Relies
    <3> QED BY <3>1, <1>2, <1>5, <1>12, <1>14, SessionAssumption
  <2> QED BY <1>15, <2>1, <2>2 DEF Relies
<1>17. \A n \in DOMAIN tokens : Lives(n)' => Lives(n) /\ Found(tokens[n].user, tokens[n].dev)'
  BY <1>3, <1>10, <1>22, TokenTyped DEF Lives, IsLatest, HasSession, Found, SessionOf
<1>18. Kills(rest, kills)'
  <2>1. ASSUME NEW n \in kills, Lives(n)' PROVE Drops(rest, tokens[n].user, tokens[n].dev)
    <3>1. Lives(n) /\ Found(tokens[n].user, tokens[n].dev)' /\ n \in DOMAIN tokens
      BY <1>5, <1>17, <2>1
    <3>2. Drops(todo, tokens[n].user, tokens[n].dev)
      BY <1>4, <3>1 DEF Served, Kills
    <3>3. tokens[n].user \in Users /\ tokens[n].dev \in Devices
      BY <3>1, TokenTyped
    <3>4. \A u \in Users, d \in Devices :
            HasSession(d)' /\ sessions'[d].user = u /\ d \notin strays' /\ Drops(todo, u, d)
              => Drops(rest, u, d)
      BY <1>14 DEF Found, SessionOf
    <3>5. /\ HasSession(tokens[n].dev)' /\ sessions'[tokens[n].dev].user = tokens[n].user
          /\ tokens[n].dev \notin strays'
      BY <2>1, <1>3 DEF Lives, IsLatest, HasSession
    <3> QED BY <1>3, <3>2, <3>3, <3>4, <3>5 DEF HasSession
  <2> QED BY <1>3, <1>15, <2>1 DEF Kills
<1>19. \A n \in revoked : ~Lives(n)'
  BY <1>4, <1>17 DEF Served, AccountTypeOK, SessionTypeOK
<1>20. /\ \A d \in Devices : HasSession(d)' => sessions'[d].user \in registered'
       /\ \A d, e \in WebDevices \ strays' :
            HasSession(d)' /\ HasSession(e)' /\ sessions'[d].user = sessions'[e].user => d = e
  BY <1>2, <1>4, <1>10, <1>22, SessionAssumption DEF Served
<1>21. rest = more \o Tail(slots[r].todo) /\ kills = slots[r].kills
  BY <1>0
<1> QED BY <1>2, <1>3, <1>6, <1>13, <1>16, <1>18, <1>19, <1>20, <1>21, CalmProceeds

\* A command that is the only one left of its request.
LEMMA Only ==
  ASSUME AccountTypeOK, InOrder, NEW r \in Slots, slots[r] # Idle, Command(r).kind \in LastOnly
  PROVE  /\ slots[r].todo = <<Command(r)>> /\ Tail(slots[r].todo) = <<>>
         /\ DOMAIN slots[r].todo = {1} /\ slots[r].todo[1] = Command(r)
<1>1. slots[r].todo \in Seq(Commands) /\ 1 \in DOMAIN slots[r].todo /\ Command(r) = slots[r].todo[1]
  BY Current
<1>2. Len(slots[r].todo) = 1
  BY <1>1 DEF InOrder
<1>3. slots[r].todo = <<Command(r)>> /\ Tail(slots[r].todo) = <<>>
  BY <1>1, <1>2, Single
<1>4. DOMAIN slots[r].todo = {1}
  BY <1>1, <1>2, Indexes
<1> QED BY <1>1, <1>3, <1>4

\* The request it belongs to has nothing more to drop: what it is to kill is dead.
LEMMA OnlyServed ==
  ASSUME AccountTypeOK, InOrder, CalmSessions, calm, NEW r \in Slots, slots[r] # Idle,
         Command(r).kind \in LastOnly
  PROVE  LET c == Command(r)
         IN /\ \A n \in slots[r].kills :
                 /\ ~Lives(n)
                 /\ c.kind \in {"create", "update", "updateSet"} => c.session.token # n
            /\ \A n \in revoked : ~Lives(n)
            /\ c.kind = "updateSet" => SessionOf(c.session.user, c.dev)
            /\ c.kind \in {"create", "update", "updateSet"} => c.session.token \notin revoked
            /\ \A u \in Users, d \in Devices :
                 Makes(c, u, d) =>
                   /\ u \in registered
                   /\ d \in WebDevices => \A e \in WebDevices \ {d} : ~Found(u, e)
            /\ c.kind # "index" => \A d \in Devices \ strays : HasSession(d) => d \in index[sessions[d].user]
            /\ c.kind = "index" => \A d \in Devices \ strays : HasSession(d) =>
                 d \in index[sessions[d].user] \/ (c.user = sessions[d].user /\ c.dev = d)
            /\ \A d \in Devices : HasSession(d) => sessions[d].user \in registered
            /\ \A d, e \in WebDevices \ strays :
                 HasSession(d) /\ HasSession(e) /\ sessions[d].user = sessions[e].user => d = e
<1> PICK todo : todo = slots[r].todo
  OBVIOUS
<1> PICK c : c = Command(r)
  OBVIOUS
<1>1. Served(r, todo, slots[r].kills)
  BY ServedBefore
<1>2. DOMAIN todo = {1} /\ todo[1] = c /\ c.kind \in LastOnly
  BY Only
<1>3. \A u \in Users, d \in Devices : ~Drops(todo, u, d)
  BY <1>2 DEF Drops, DropsBy, LastOnly
<1>4. \A n \in slots[r].kills : /\ ~Lives(n)
                                /\ c.kind \in {"create", "update", "updateSet"} => c.session.token # n
  <2>1. slots[r].kills \subseteq DOMAIN tokens
    BY Current
  <2>2. \A n \in slots[r].kills : tokens[n].user \in Users /\ tokens[n].dev \in Devices
    BY <2>1, TokenTyped
  <2> QED BY <1>1, <1>2, <1>3, <2>2 DEF Served, Kills
<1>5. /\ c.kind = "updateSet" => SessionOf(c.session.user, c.dev)
      /\ c.kind \in {"create", "update", "updateSet"} => c.session.token \notin revoked
      /\ \A u \in Users, d \in Devices :
           Makes(c, u, d) =>
             /\ u \in registered
             /\ d \in WebDevices => \A e \in WebDevices \ {d} : ~Found(u, e)
  <2>1. Relies(todo)
    BY <1>1 DEF Served
  <2> QED BY <2>1, <1>2, <1>3, SessionAssumption DEF Relies, LastOnly
<1>6. /\ c.kind # "index" => \A d \in Devices \ strays : HasSession(d) => d \in index[sessions[d].user]
      /\ c.kind = "index" => \A d \in Devices \ strays : HasSession(d) =>
           d \in index[sessions[d].user] \/ (c.user = sessions[d].user /\ c.dev = d)
  BY <1>1, <1>2 DEF Served
<1> QED BY <1>1, <1>4, <1>5, <1>6 DEF Served

LEMMA CalmOnly ==
  ASSUME AccountTypeOK, AccountTypeOK', InOrder, CalmSessions, calm, NEW r \in Slots, slots[r] # Idle,
         Command(r).kind \in LastOnly, Grows,
         NEW more \in Seq(Commands)', Proceed(r, more), DOMAIN more \subseteq {1},
         \A i \in DOMAIN more :
           \/ more[i].kind = "index"
           \/ /\ more[i].kind = "updateSet"
              /\ SessionOf(more[i].session.user, more[i].dev)'
              /\ more[i].session.token \notin revoked /\ more[i].session.token \notin slots[r].kills,
         \A n \in slots[r].kills : ~Lives(n)',
         \A n \in revoked : ~Lives(n)',
         \A d \in Devices \ strays' :
           HasSession(d)' =>
             \/ d \in index'[sessions'[d].user]
             \/ /\ 1 \in DOMAIN more /\ more[1].kind = "index"
                /\ more[1].user = sessions'[d].user /\ more[1].dev = d,
         \A d \in Devices : HasSession(d)' => sessions'[d].user \in registered',
         \A d, e \in WebDevices \ strays' :
           HasSession(d)' /\ HasSession(e)' /\ sessions'[d].user = sessions'[e].user => d = e
  PROVE  CalmSessions'
<1> PICK kills : kills = slots[r].kills
  OBVIOUS
<1>1. Tail(slots[r].todo) = <<>>
  BY Only
<1>2. more = more \o <<>>
  OBVIOUS
<1>3. PICK rest : rest = more
  OBVIOUS
<1>4. rest = more \o Tail(slots[r].todo)
  BY <1>1, <1>2, <1>3
<1>5. slots'[r].todo = rest
  BY <1>4, Proceeds
<1>6. revoked' = revoked \/ rest = <<>>
  BY <1>4, Proceeds
<1>7. Relies(rest)' \/ rest = <<>>
  <2>1. CASE rest # <<>>
    <3>1. \A i \in DOMAIN rest, u \in Users, d \in Devices : ~Makes(rest[i], u, d)
      BY <1>3 DEF Makes
    <3>2. revoked' = revoked
      BY <1>6, <2>1
    <3>3. \A i \in DOMAIN rest :
            /\ rest[i].kind \in {"index", "updateSet"}
            /\ rest[i].kind = "updateSet" => /\ SessionOf(rest[i].session.user, rest[i].dev)'
                                             /\ rest[i].session.token \notin revoked'
      BY <1>3, <3>2 DEF SessionOf, HasSession
    <3> QED BY <3>1, <3>3 DEF Relies
  <2> QED BY <2>1
<1>8. Kills(rest, kills)'
  BY <1>3 DEF Kills
<1>9. kills = slots[r].kills
  OBVIOUS
<1> QED BY <1>4, <1>7, <1>8, <1>9, CalmProceeds, ZenonT(60)

LEMMA CalmIndex ==
  ASSUME AccountTypeOK, AccountTypeOK', InOrder, CalmSessions, calm, NEW r \in Slots,
         AddToIndex(r), UNCHANGED codeVars
  PROVE  CalmSessions'
<1>0. PICK more : more = <<>>
  OBVIOUS
<1> PICK c : c = Command(r)
  OBVIOUS
<1>1. /\ slots[r] # Idle /\ Proceed(r, more) /\ UNCHANGED <<registered, mail, sessions, strays>>
      /\ c.kind = "index" /\ c.kind \in LastOnly
      /\ index' = [index EXCEPT ![c.user] = @ \cup {c.dev}]
  BY <1>0 DEF AddToIndex, Doing, Command, codeVars, LastOnly
<1>2. UNCHANGED tokens /\ Grows
  BY <1>1 DEF Proceed, Grows
<1>3. more \in Seq(Commands)' /\ DOMAIN more = {}
  BY <1>0
<1>4. c \in DeviceCommands
  BY <1>1, Current, CommandOf
<1>5. /\ \A n \in slots[r].kills : ~Lives(n)
      /\ \A n \in revoked : ~Lives(n)
      /\ \A d \in Devices \ strays : HasSession(d) =>
           d \in index[sessions[d].user] \/ (c.user = sessions[d].user /\ c.dev = d)
      /\ \A d \in Devices : HasSession(d) => sessions[d].user \in registered
      /\ \A d, e \in WebDevices \ strays :
           HasSession(d) /\ HasSession(e) /\ sessions[d].user = sessions[e].user => d = e
  BY <1>1, OnlyServed
<1>6. \A d \in Devices : HasSession(d) => sessions[d].user \in Users
  BY DEF AccountTypeOK, SessionTypeOK, HasSession, SessionRow
<1>7. \A d \in Devices \ strays' : HasSession(d)' => d \in index'[sessions'[d].user]
  BY <1>1, <1>4, <1>5, <1>6 DEF HasSession, DeviceCommands, AccountTypeOK, SessionTypeOK
<1>8. \A n : Lives(n)' = Lives(n)
  BY <1>1, <1>2 DEF Lives, IsLatest
<1>9. \A d : HasSession(d)' = HasSession(d)
  BY <1>1 DEF HasSession
<1>10. /\ \A d \in Devices : HasSession(d)' => sessions'[d].user \in registered'
       /\ \A d, e \in WebDevices \ strays' :
            HasSession(d)' /\ HasSession(e)' /\ sessions'[d].user = sessions'[e].user => d = e
       /\ \A n \in slots[r].kills : ~Lives(n)'
       /\ \A n \in revoked : ~Lives(n)'
  BY <1>1, <1>5, <1>8, <1>9
<1>11. slots[r] # Idle /\ Proceed(r, more) /\ Command(r).kind \in LastOnly
  BY <1>1
<1> QED BY <1>2, <1>3, <1>7, <1>10, <1>11, CalmOnly

LEMMA CalmUpdate ==
  ASSUME AccountTypeOK, AccountTypeOK', InOrder, CalmSessions, calm, NEW r \in Slots,
         UpdateRead(r), UNCHANGED codeVars
  PROVE  CalmSessions'
<1> PICK c : c = Command(r)
  OBVIOUS
<1>1. /\ slots[r] # Idle /\ UNCHANGED <<registered, mail, sessions, index, strays, tokens>>
      /\ c.kind = "update" /\ c.kind \in LastOnly
  BY DEF UpdateRead, Doing, Command, codeVars, LastOnly, redis, ages, Proceed
<1>2. Grows
  BY <1>1 DEF Grows
<1>3. c \in RowCommands
  BY <1>1, Current, CommandOf
<1>4. c.dev \in Devices /\ c.session \in SessionRow /\ c.session.token \in DOMAIN tokens
  BY <1>3 DEF RowCommands, SessionRow
<1>5. /\ \A n \in slots[r].kills : ~Lives(n) /\ c.session.token # n
      /\ \A n \in revoked : ~Lives(n)
      /\ c.session.token \notin revoked
      /\ \A d \in Devices \ strays : HasSession(d) => d \in index[sessions[d].user]
      /\ \A d \in Devices : HasSession(d) => sessions[d].user \in registered
      /\ \A d, e \in WebDevices \ strays :
           HasSession(d) /\ HasSession(e) /\ sessions[d].user = sessions[e].user => d = e
  BY <1>1, OnlyServed
<1>6. \A n : Lives(n)' = Lives(n)
  BY <1>1 DEF Lives, IsLatest
<1>7. \A d : HasSession(d)' = HasSession(d)
  BY <1>1 DEF HasSession
<1>8. \E more \in Seq(Commands)' :
        /\ Proceed(r, more) /\ DOMAIN more \subseteq {1}
        /\ \A i \in DOMAIN more :
             /\ more[i].kind = "updateSet" /\ more[i].session.token = c.session.token
             /\ HasSession(c.dev) /\ more[i].dev = c.dev /\ more[i].session.user = sessions[c.dev].user
  <2>1. CASE HasSession(c.dev)
    <3> DEFINE set == [kind |-> "updateSet", dev |-> c.dev,
                       session |-> [sessions[c.dev] EXCEPT !.token = c.session.token]]
    <3>1. Proceed(r, <<set>>)
      BY <2>1 DEF UpdateRead
    <3>2. sessions[c.dev] \in SessionRow /\ sessions[c.dev].dev = c.dev
      BY <1>4, <2>1 DEF AccountTypeOK, SessionTypeOK, HasSession
    <3>3. /\ set \in RowCommands /\ set.kind = "updateSet" /\ set.session.token = c.session.token
          /\ set.dev = c.dev /\ set.session.user = sessions[c.dev].user
      BY <1>4, <3>2 DEF RowCommands, SessionRow
    <3> HIDE DEF set
    <3>4. set \in Commands'
      BY <1>2, <3>3, CommandsGrow DEF Commands
    <3>5. <<set>> \in Seq(Commands)' /\ DOMAIN <<set>> = {1} /\ <<set>>[1] = set
      BY <3>4
    <3> QED BY <2>1, <3>1, <3>3, <3>5
  <2>2. CASE ~HasSession(c.dev)
    <3>1. Proceed(r, <<>>)
      BY <2>2 DEF UpdateRead
    <3>2. <<>> \in Seq(Commands)' /\ DOMAIN <<>> = {}
      OBVIOUS
    <3> QED BY <3>1, <3>2
  <2> QED BY <2>1, <2>2
<1>9. PICK more \in Seq(Commands)' :
        /\ Proceed(r, more) /\ DOMAIN more \subseteq {1}
        /\ \A i \in DOMAIN more :
             /\ more[i].kind = "updateSet" /\ more[i].session.token = c.session.token
             /\ HasSession(c.dev) /\ more[i].dev = c.dev /\ more[i].session.user = sessions[c.dev].user
  BY <1>8
<1>10. \A i \in DOMAIN more :
         /\ more[i].kind = "updateSet"
         /\ SessionOf(more[i].session.user, more[i].dev)'
         /\ more[i].session.token \notin revoked /\ more[i].session.token \notin slots[r].kills
  BY <1>1, <1>5, <1>9 DEF SessionOf, HasSession
<1>11. /\ \A d \in Devices \ strays' : HasSession(d)' => d \in index'[sessions'[d].user]
       /\ \A d \in Devices : HasSession(d)' => sessions'[d].user \in registered'
       /\ \A d, e \in WebDevices \ strays' :
            HasSession(d)' /\ HasSession(e)' /\ sessions'[d].user = sessions'[e].user => d = e
  BY <1>1, <1>5, <1>7
<1> QED BY <1>1, <1>2, <1>5, <1>6, <1>9, <1>10, <1>11, CalmOnly

\* A session that is written: no other on the web belongs to its user, and its
\* token is none that was revoked.
LEMMA CalmCreate ==
  ASSUME AccountTypeOK, AccountTypeOK', InOrder, CalmSessions, calm, NEW r \in Slots,
         CreateSession(r), UNCHANGED codeVars
  PROVE  CalmSessions'
<1> PICK c : c = Command(r)
  OBVIOUS
<1>1. /\ slots[r] # Idle /\ UNCHANGED <<registered, mail, index, tokens>>
      /\ c.kind \in {"create", "updateSet"} /\ c.kind \in LastOnly
      /\ sessions' = [sessions EXCEPT ![c.dev] = c.session]
      /\ strays' = IF c.kind = "create" THEN strays \ {c.dev} ELSE strays
  BY DEF CreateSession, WriteSession, Doing, Command, codeVars, LastOnly, Proceed
<1>2. Grows
  BY <1>1 DEF Grows
<1>3. c \in RowCommands
  BY <1>1, Current, CommandOf
<1>4. /\ c.dev \in Devices /\ c.session \in SessionRow /\ c.session.dev = c.dev
      /\ c.session.user \in Users
  BY <1>3 DEF RowCommands, SessionRow
<1>5. /\ \A n \in slots[r].kills : ~Lives(n) /\ c.session.token # n
      /\ \A n \in revoked : ~Lives(n)
      /\ c.session.token \notin revoked
      /\ c.kind = "updateSet" => SessionOf(c.session.user, c.dev)
      /\ \A u \in Users, d \in Devices :
           Makes(c, u, d) =>
             /\ u \in registered
             /\ d \in WebDevices => \A e \in WebDevices \ {d} : ~Found(u, e)
      /\ \A d \in Devices \ strays : HasSession(d) => d \in index[sessions[d].user]
      /\ \A d \in Devices : HasSession(d) => sessions[d].user \in registered
      /\ \A d, e \in WebDevices \ strays :
           HasSession(d) /\ HasSession(e) /\ sessions[d].user = sessions[e].user => d = e
  BY <1>1, OnlyServed
<1>6. /\ sessions'[c.dev] = c.session
      /\ \A d \in Devices : d # c.dev => sessions'[d] = sessions[d]
      /\ c.session # NoSession
  BY <1>1, <1>4 DEF AccountTypeOK, SessionTypeOK, NoSession, SessionRow
<1>7. \A d \in Devices : d # c.dev => (HasSession(d)' <=> HasSession(d))
  BY <1>6 DEF HasSession
<1>8. \A n \in DOMAIN tokens : Lives(n)' => Lives(n) \/ c.session.token = n
  <2> SUFFICES ASSUME NEW n \in DOMAIN tokens, Lives(n)' PROVE Lives(n) \/ c.session.token = n
    OBVIOUS
  <2>1. tokens[n].dev \in Devices
    BY TokenTyped
  <2> QED BY <1>1, <1>6, <2>1 DEF Lives, IsLatest
<1>9. \A n \in slots[r].kills \cup revoked : ~Lives(n)'
  <2>1. slots[r].kills \subseteq DOMAIN tokens /\ revoked \subseteq DOMAIN tokens
    BY <1>1, Current DEF AccountTypeOK, SessionTypeOK
  <2> QED BY <1>5, <1>8, <2>1
\* Whose session it is: for an update the user it was, for a login a user
\* without another session on the web.
<1>10. /\ c.session.user \in registered
       /\ c.dev \in WebDevices \ strays' =>
            \A e \in WebDevices \ {c.dev} : ~Found(c.session.user, e)
  <2>1. CASE c.kind = "create"
    <3>1. Makes(c, c.session.user, c.dev)
      BY <2>1 DEF Makes
    <3> QED BY <1>4, <1>5, <3>1
  <2>2. CASE c.kind = "updateSet"
    BY <1>1, <1>4, <1>5, <2>2, SessionAssumption DEF Found, SessionOf
  <2> QED BY <1>1, <2>1, <2>2
<1>11. /\ \A d \in Devices : HasSession(d)' => sessions'[d].user \in registered'
       /\ \A d, e \in WebDevices \ strays' :
            HasSession(d)' /\ HasSession(e)' /\ sessions'[d].user = sessions'[e].user => d = e
  <2>1. \A d \in Devices : HasSession(d)' => sessions'[d].user \in registered'
    BY <1>1, <1>5, <1>6, <1>7, <1>10
  <2>2. ASSUME NEW d \in WebDevices \ strays', NEW e \in WebDevices \ strays', HasSession(d)', HasSession(e)',
               sessions'[d].user = sessions'[e].user, d # e
        PROVE  FALSE
    <3>1. /\ d \in Devices /\ e \in Devices
          /\ d # c.dev => d \notin strays
          /\ e # c.dev => e \notin strays
      BY <1>1, SessionAssumption
    <3>2. CASE d = c.dev
      BY <1>6, <1>7, <1>10, <2>2, <3>1, <3>2 DEF Found, SessionOf
    <3>3. CASE e = c.dev
      BY <1>6, <1>7, <1>10, <2>2, <3>1, <3>3 DEF Found, SessionOf
    <3>4. CASE d # c.dev /\ e # c.dev
      BY <1>5, <1>6, <1>7, <2>2, <3>1, <3>4
    <3> QED BY <3>2, <3>3, <3>4
  <2> QED BY <2>1, <2>2
<1>12. CASE c.kind = "create"
  <2> DEFINE new == [kind |-> "index", user |-> c.session.user, dev |-> c.dev]
  <2>1. Proceed(r, <<new>>)
    BY <1>12 DEF CreateSession, WriteSession, Doing, Command
  <2>2. new \in Commands' /\ new.kind = "index" /\ new.user = c.session.user /\ new.dev = c.dev
    BY <1>4 DEF Commands, DeviceCommands
  <2> HIDE DEF new
  <2>3. PICK more : more = <<new>>
    OBVIOUS
  <2>4. more \in Seq(Commands)' /\ DOMAIN more = {1} /\ more[1] = new /\ Proceed(r, more)
    BY <2>1, <2>2, <2>3
  <2>5. \A d \in Devices \ strays' :
          HasSession(d)' =>
            \/ d \in index'[sessions'[d].user]
            \/ more[1].user = sessions'[d].user /\ more[1].dev = d
    BY <1>1, <1>5, <1>6, <1>7, <2>2, <2>4
  <2>6. /\ Command(r).kind \in LastOnly /\ more[1].kind = "index" /\ DOMAIN more \subseteq {1}
        /\ \A i \in DOMAIN more : more[i].kind = "index"
    BY <1>1, <2>2, <2>4
  <2>7. (\A n \in slots[r].kills : ~Lives(n)') /\ \A n \in revoked : ~Lives(n)'
    BY <1>9
  <2> QED BY <1>1, <1>2, <1>11, <2>4, <2>5, <2>6, <2>7, CalmOnly
<1>13. CASE c.kind = "updateSet"
  <2>1. PICK more : more = <<>>
    OBVIOUS
  <2>2. Proceed(r, more)
    BY <1>13, <2>1 DEF CreateSession, WriteSession, Doing, Command
  <2>3. more \in Seq(Commands)' /\ DOMAIN more = {}
    BY <2>1
  <2>4. \A d \in Devices \ strays' : HasSession(d)' => d \in index'[sessions'[d].user]
    BY <1>1, <1>4, <1>5, <1>6, <1>7, <1>13 DEF SessionOf
  <2>5. Command(r).kind \in LastOnly
    BY <1>1
  <2>6. (\A n \in slots[r].kills : ~Lives(n)') /\ \A n \in revoked : ~Lives(n)'
    BY <1>9
  <2> QED BY <1>1, <1>2, <1>11, <2>2, <2>3, <2>4, <2>5, <2>6, CalmOnly
<1> QED BY <1>1, <1>12, <1>13

\* A token pair is issued: it is none that was revoked or is to be killed.
LEMMA CalmIssue ==
  ASSUME AccountTypeOK, AccountTypeOK', InOrder, CalmSessions, calm, NEW r \in Slots,
         Issue(r), UNCHANGED codeVars
  PROVE  CalmSessions'
<1> PICK c : c = Command(r)
  OBVIOUS
<1> PICK n : n = Len(tokens) + 1
  OBVIOUS
<1> PICK kills : kills = slots[r].kills
  OBVIOUS
<1>1. PICK next : next = [kind |-> c.then, dev |-> c.token.dev,
                          session |-> [user |-> c.token.user, dev |-> c.token.dev, token |-> n]]
  OBVIOUS
<1>2. /\ c \in IssueCommands /\ c.kind = "issue" /\ slots[r] # Idle
      /\ n \notin DOMAIN tokens
      /\ \A m \in DOMAIN tokens : tokens'[m] = tokens[m]
      /\ slots'[r] = [todo |-> <<next>>, kills |-> kills]
      /\ \A x \in Slots : x # r => slots'[x] = slots[x]
  BY <1>1, Issues DEF codeVars
<1>3. /\ UNCHANGED <<sessions, index, strays, registered, revoked>>
  BY DEF Issue, codeVars, ages
<1>4. /\ next.kind = c.then /\ c.then \in {"create", "update"}
      /\ next.dev = c.token.dev
      /\ next.session.user = c.token.user /\ next.session.token = n
  BY <1>1, <1>2 DEF IssueCommands
<1>5. PICK todo : todo = <<next>>
  OBVIOUS
<1>6. DOMAIN todo = {1} /\ todo[1] = next /\ slots'[r].todo = todo /\ slots'[r].kills = kills
  BY <1>2, <1>5
<1>7. c.kind \in LastOnly
  BY <1>2 DEF LastOnly
<1>8. /\ \A m \in kills : ~Lives(m)
      /\ \A m \in revoked : ~Lives(m)
      /\ \A u \in Users, d \in Devices :
           Makes(c, u, d) =>
             /\ u \in registered
             /\ d \in WebDevices => \A e \in WebDevices \ {d} : ~Found(u, e)
      /\ \A d \in Devices \ strays : HasSession(d) => d \in index[sessions[d].user]
      /\ \A d \in Devices : HasSession(d) => sessions[d].user \in registered
      /\ \A d, e \in WebDevices \ strays :
           HasSession(d) /\ HasSession(e) /\ sessions[d].user = sessions[e].user => d = e
  BY <1>2, <1>7, OnlyServed
<1>9. \A u \in Users, d \in Devices : Makes(next, u, d) => Makes(c, u, d)
  BY <1>2, <1>4 DEF Makes
<1>10. kills \subseteq DOMAIN tokens /\ revoked \subseteq DOMAIN tokens
  BY <1>2, Current DEF AccountTypeOK, SessionTypeOK
<1>11. \A m \in kills \cup revoked : ~Lives(m)' /\ m # n
  BY <1>2, <1>3, <1>8, <1>10 DEF Lives, IsLatest
<1>12. \A d : HasSession(d)' = HasSession(d)
  BY <1>3 DEF HasSession
<1>13. Relies(todo)'
  <2>1. next.session.token \notin revoked'
    BY <1>3, <1>4, <1>11
  <2>2. \A u \in Users, d \in Devices :
          Makes(next, u, d) =>
            /\ u \in registered'
            /\ d \in WebDevices => \A e \in WebDevices \ {d} : ~Found(u, e)'
    BY <1>3, <1>8, <1>9, <1>12 DEF Found, SessionOf
  <2> QED BY <1>4, <1>6, <2>1, <2>2 DEF Relies
<1>14. Kills(todo, kills)'
  BY <1>4, <1>6, <1>11 DEF Kills
<1>15. \A d \in Devices \ strays' : HasSession(d)' => d \in index'[sessions'[d].user]
  BY <1>3, <1>8, <1>12
<1>16. /\ \A d \in Devices : HasSession(d)' => sessions'[d].user \in registered'
       /\ \A d, e \in WebDevices \ strays' :
            HasSession(d)' /\ HasSession(e)' /\ sessions'[d].user = sessions'[e].user => d = e
       /\ \A m \in revoked' : ~Lives(m)'
  BY <1>3, <1>8, <1>11, <1>12
<1>17. Alone(r)'
  BY <1>2, ServedBefore DEF Alone
<1>18. Served(r, slots[r].todo, slots[r].kills)'
  BY <1>6, <1>13, <1>14, <1>15, <1>16 DEF Served, Relies, Kills, Drops, Found, SessionOf, Lives
<1> QED BY <1>17, <1>18, ServedAfter

\* A request that starts, is gone, or goes on as another.
LEMMA CalmAnew ==
  ASSUME AccountTypeOK, AccountTypeOK', CalmSessions, calm, NEW r \in Slots, Alone(r),
         ~Doing(r, "index"), UNCHANGED <<sessions, index, strays, tokens, registered, revoked>>,
         \A x \in Slots : x # r => slots'[x] = slots[x],
         NEW todo, todo = slots'[r].todo, NEW kills, kills = slots'[r].kills,
         \A i \in DOMAIN todo :
           /\ todo[i].kind \notin {"unindex", "create", "update", "updateSet"}
           /\ \A u \in Users, d \in Devices :
                Makes(todo[i], u, d) =>
                  /\ u \in registered \/ (todo[1].kind = "register" /\ todo[1].user = u)
                  /\ d \in WebDevices =>
                       u \notin registered \/ \A e \in WebDevices \ {d} : Drops(todo, u, e),
         \A n \in kills : Drops(todo, tokens[n].user, tokens[n].dev)
  PROVE  CalmSessions'
<1>1. Alone(r)'
  BY DEF Alone
<1>2. /\ \A d : HasSession(d)' = HasSession(d)
      /\ \A n : Lives(n)' = Lives(n)
  BY DEF HasSession, Lives, IsLatest
<1>3. \A x \in Slots : ~Doing(x, "index")
  BY DEF Alone, Doing
<1>4. /\ \A d \in Devices \ strays : HasSession(d) => d \in index[sessions[d].user]
      /\ \A d \in Devices : HasSession(d) => sessions[d].user \in registered
  BY <1>3 DEF CalmSessions, Indexed
<1>5. Relies(todo)'
  <2>1. ASSUME NEW i \in DOMAIN todo, NEW u \in Users, NEW d \in Devices, Makes(todo[i], u, d)
        PROVE  /\ u \in registered' \/ (todo[1].kind = "register" /\ todo[1].user = u)
               /\ d \in WebDevices =>
                    \A e \in WebDevices \ {d} : Found(u, e)' => Drops(todo, u, e)
    BY <1>2, <1>4, <2>1, SessionAssumption DEF Found, SessionOf
  <2> QED BY <2>1 DEF Relies
<1>6. Kills(todo, kills)'
  BY DEF Kills
<1>7. /\ \A d \in Devices \ strays' : HasSession(d)' => d \in index'[sessions'[d].user]
      /\ \A d \in Devices : HasSession(d)' => sessions'[d].user \in registered'
      /\ \A d, e \in WebDevices \ strays' :
           HasSession(d)' /\ HasSession(e)' /\ sessions'[d].user = sessions'[e].user => d = e
      /\ \A n \in revoked' : ~Lives(n)'
  BY <1>2, <1>4 DEF CalmSessions
<1>8. Served(r, slots[r].todo, slots[r].kills)'
  BY <1>5, <1>6, <1>7 DEF Served, Relies, Kills, Drops, Found, SessionOf, Lives
<1> QED BY <1>1, <1>8, ServedAfter

LEMMA CalmOpens ==
  ASSUME AccountTypeOK, AccountTypeOK', CalmSessions, calm', NEW r \in Slots,
         Opens(r), UNCHANGED codeVars
  PROVE  CalmSessions'
<1> PICK todo, kills : Begin(r, todo, kills) /\ Opening(todo, kills)
  BY DEF Opens
<1>1. Start(r, todo, kills) /\ UNCHANGED <<mail, registered>> /\ todo \in Seq(Commands) /\ todo # <<>>
      /\ kills \in SUBSET DOMAIN tokens
  BY DEF Begin, Opening, codeVars
<1>2. /\ slots'[r] = [todo |-> todo, kills |-> kills]
      /\ \A x \in Slots : x # r => slots'[x] = slots[x]
      /\ calm /\ \A x \in Slots : slots[x] = Idle
      /\ UNCHANGED <<redis, tokens, revoked>>
  BY <1>1, Starts
<1>3. slots'[r].todo = todo /\ slots'[r].kills = kills /\ Alone(r) /\ ~Doing(r, "index")
      /\ UNCHANGED <<sessions, index, strays>>
  BY <1>2 DEF Alone, Doing, redis, ages
<1>4. \A n \in kills : Drops(todo, tokens[n].user, tokens[n].dev)
  BY DEF Opening
<1>5. \A i \in DOMAIN todo :
        /\ todo[i].kind \notin {"unindex", "create", "update", "updateSet"}
        /\ \A u \in Users, d \in Devices :
             Makes(todo[i], u, d) =>
               /\ u \in registered \/ (todo[1].kind = "register" /\ todo[1].user = u)
               /\ d \in WebDevices =>
                    u \notin registered \/ \A e \in WebDevices \ {d} : Drops(todo, u, e)
  BY DEF Opening, StartKinds
<1> QED BY <1>1, <1>2, <1>3, <1>4, <1>5, CalmAnew

LEMMA CalmRenews ==
  ASSUME AccountTypeOK, AccountTypeOK', CalmSessions, calm', NEW r \in Slots, NEW u \in Users,
         Renews(r, u), UNCHANGED <<mail, registered>>
  PROVE  CalmSessions'
<1> PICK kills : kills = IssuedTo(u)
  OBVIOUS
<1> PICK todo : Start(r, todo, kills) /\ Renewal(todo, u)
  BY DEF Renews
<1>1. todo \in Seq(Commands) /\ todo # <<>> /\ kills \in SUBSET DOMAIN tokens
  BY DEF Renewal, IssuedTo
<1>2. /\ slots'[r] = [todo |-> todo, kills |-> kills]
      /\ \A x \in Slots : x # r => slots'[x] = slots[x]
      /\ calm /\ \A x \in Slots : slots[x] = Idle
      /\ UNCHANGED <<redis, tokens, revoked>>
  BY <1>1, Starts
<1>3. slots'[r].todo = todo /\ slots'[r].kills = kills /\ Alone(r) /\ ~Doing(r, "index")
      /\ UNCHANGED <<sessions, index, strays>>
  BY <1>2 DEF Alone, Doing, redis, ages
<1>4. ASSUME NEW n \in kills PROVE Drops(todo, tokens[n].user, tokens[n].dev)
  <2>1. tokens[n].user = u /\ tokens[n].dev \in Devices
    BY IssuedTyped
  <2>2. \A d \in Devices : Drops(todo, u, d)
    BY DEF Renewal
  <2>3. Drops(todo, u, tokens[n].dev)
    BY <2>1, <2>2
  <2> QED BY <2>1, <2>3
<1>5. \A i \in DOMAIN todo :
        /\ todo[i].kind \notin {"unindex", "create", "update", "updateSet"}
        /\ \A x \in Users, d \in Devices : ~Makes(todo[i], x, d)
  BY DEF Renewal, Makes
<1> QED BY <1>1, <1>2, <1>3, <1>4, <1>5, CalmAnew

\* A token that was used before revokes the session of its device; otherwise,
\* and when the session of a token has gone, the request throws.
LEMMA CalmUsed ==
  ASSUME AccountTypeOK, AccountTypeOK', InOrder, CalmSessions, calm, NEW r \in Slots,
         GetUsed(r) \/ (CheckSession(r) /\ ~IsLatest(Command(r).token)), UNCHANGED codeVars
  PROVE  CalmSessions'
<1>1. /\ slots[r] # Idle /\ ~Doing(r, "index") /\ UNCHANGED <<sessions, index, strays, mail, registered>>
  BY DEF GetUsed, CheckSession, Doing, redis, ages, codeVars
<1>2. Alone(r)
  BY <1>1, ServedBefore
<1>3. /\ \A x \in Slots : x # r => slots'[x] = slots[x]
      /\ UNCHANGED <<tokens, revoked>>
      /\ \/ slots'[r] = Idle
         \/ \E u \in Users, d \in Devices :
              slots'[r] = [todo |-> <<[kind |-> "revokeByDevice", user |-> u, dev |-> d]>>,
                           kills |-> IssuedFor(u, d)]
  <2>1. CASE GetUsed(r)
    BY <2>1, UsedTypes
  <2>2. CASE CheckSession(r) /\ ~IsLatest(Command(r).token)
    BY <1>1, <2>2, Throws DEF CheckSession
  <2> QED BY <2>1, <2>2
<1>4. CASE slots'[r] = Idle
  <2>1. PICK todo : todo = slots'[r].todo
    OBVIOUS
  <2>2. PICK kills : kills = slots'[r].kills
    OBVIOUS
  <2>3. DOMAIN todo = {} /\ kills = {}
    <3>1. todo = <<>>
      BY <1>4, <2>1 DEF Idle
    <3> QED BY <1>4, <2>2, <3>1, NothingMore DEF Idle
  <2> QED BY <1>1, <1>2, <1>3, <2>1, <2>2, <2>3, CalmAnew
<1>5. CASE slots'[r] # Idle
  <2>1. PICK u \in Users, d \in Devices :
             slots'[r] = [todo |-> <<[kind |-> "revokeByDevice", user |-> u, dev |-> d]>>,
                          kills |-> IssuedFor(u, d)]
    BY <1>3, <1>5
  <2>2. PICK todo : todo = slots'[r].todo
    OBVIOUS
  <2>3. PICK kills : kills = slots'[r].kills
    OBVIOUS
  <2>4. DOMAIN todo = {1} /\ todo[1] = [kind |-> "revokeByDevice", user |-> u, dev |-> d]
        /\ kills = IssuedFor(u, d)
    BY <2>1, <2>2, <2>3
  <2>5. Drops(todo, u, d)
    BY <2>4 DEF Drops, DropsBy
  <2>6. \A n \in kills : Drops(todo, tokens[n].user, tokens[n].dev)
    BY <2>4, <2>5 DEF IssuedFor, IssuedTo
  <2>7. \A i \in DOMAIN todo :
          /\ todo[i].kind \notin {"unindex", "create", "update", "updateSet"}
          /\ \A x \in Users, e \in Devices : ~Makes(todo[i], x, e)
    BY <2>4 DEF Makes
  <2> QED BY <1>1, <1>2, <1>3, <2>2, <2>3, <2>6, <2>7, CalmAnew
<1> QED BY <1>4, <1>5

LEMMA CalmPass ==
  ASSUME AccountTypeOK, AccountTypeOK', InOrder, CalmSessions, NEW r \in Slots,
         RedisCommand(r), UNCHANGED codeVars
  PROVE  CalmSessions'
<1> SUFFICES ASSUME calm' PROVE CalmSessions'
  BY DEF CalmSessions
<1>1. ~CommandFails(r)
  BY DEF CommandFails
<1>2. UNCHANGED <<mail, registered>>
  BY DEF codeVars
<1>3. ASSUME PlainStep(r), slots[r] # Idle, UNCHANGED <<sessions, index, strays>>,
             Command(r).kind \notin Writing \cup {"register"}
      PROVE  CalmSessions'
  <2> PICK more \in Seq(Commands) : Proceed(r, more) /\ Plain(more) /\ HandsOver(r, more)
    BY <1>3 DEF PlainStep
  <2>1. Grows /\ more \in Seq(Commands)' /\ calm
    BY <1>2, TodosGrow DEF Grows, Proceed, counters
  <2>2. \A i \in DOMAIN more : more[i].kind \notin Writing \ {"unindex", "dropKey"}
    BY DEF Plain, PlainKinds, Writing
  <2>3. Command(r).kind \notin Writing /\ registered \subseteq registered'
        /\ (Command(r).kind = "register" => Command(r).user \in registered')
    BY <1>2, <1>3
  <2> QED BY <1>3, <2>1, <2>2, <2>3, CalmQuiet
<1>4. CASE ReadDevice(r) \/ DelRefresh(r) \/ AddToBlacklist(r) \/ DropRead(r) \/ ListDevices(r)
             \/ CollectNext(r) \/ RevokeFound(r) \/ Consume(r) \/ MarkUsed(r)
  <2>1. PlainStep(r)
    BY <1>4, PlainCommands
  <2>2. /\ slots[r] # Idle /\ UNCHANGED <<sessions, index, strays>>
        /\ Command(r).kind \notin Writing \cup {"register"}
    BY <1>4 DEF ReadDevice, DelRefresh, AddToBlacklist, DropRead, ListDevices, CollectNext,
                RevokeFound, Consume, MarkUsed, Doing, redis, ages, Writing, Command
  <2> QED BY <1>3, <2>1, <2>2
<1>5. CASE SetVersion(r)
  <2>1. /\ slots[r] # Idle /\ UNCHANGED <<sessions, index, strays>> /\ Proceed(r, <<>>)
        /\ Command(r).kind = "setVersion"
    BY <1>5 DEF SetVersion, Doing, redis, ages, Command
  <2>2. PlainStep(r)
    BY <2>1, ReturnIsPlain
  <2> QED BY <1>3, <2>1, <2>2 DEF Writing
<1>6. CASE CheckSession(r) /\ IsLatest(Command(r).token)
  <2>1. /\ slots[r] # Idle /\ UNCHANGED <<sessions, index, strays>> /\ Command(r).kind = "checkSession"
    BY <1>6 DEF CheckSession, Doing, redis, ages, Command
  <2> QED BY <1>3, <1>6, <2>1, PlainCommands DEF Writing
<1>7. calm
  BY <1>1 DEF RedisCommand, ReadDevice, DelRefresh, AddToBlacklist, DropRead, DropKey, Unindex,
     ListDevices, CollectNext, RevokeFound, Issue, CreateSession, WriteSession, AddToIndex,
     UpdateRead, GetUsed, CheckSession, Consume, MarkUsed, SetVersion, Proceed, Throw, counters
<1> QED BY <1>1, <1>4, <1>5, <1>6, <1>7, CalmDeletes, CalmIndex, CalmUpdate, CalmCreate, CalmIssue,
           CalmUsed DEF RedisCommand

LEMMA CalmCode ==
  ASSUME AccountTypeOK, AccountTypeOK', InOrder, CalmSessions, NEW r \in Slots, CodeCommand(r)
  PROVE  CalmSessions'
<1> SUFFICES ASSUME calm' PROVE CalmSessions'
  BY DEF CalmSessions
<1>1. /\ slots[r] # Idle /\ Grows /\ UNCHANGED <<sessions, index, strays>> /\ calm
      /\ registered \subseteq registered'
      /\ Command(r).kind \notin Writing
      /\ Command(r).kind = "register" => Command(r).user \in registered'
  BY CodeReturns DEF Writing
<1>2. PICK more \in Seq(Commands)' :
        Proceed(r, more) /\ \A i \in DOMAIN more : more[i].kind \in {"compare", "verify", "reset"}
  BY CodeReturns
<1>3. \A i \in DOMAIN more : more[i].kind \notin Writing \ {"unindex", "dropKey"}
  BY <1>2 DEF Writing
<1>4. HandsOver(r, more)
  BY <1>2, CodeReturns DEF HandsOver, DropsBy
<1> QED BY <1>1, <1>2, <1>3, <1>4, CalmQuiet

LEMMA CalmStutters ==
  ASSUME AccountTypeOK, CalmSessions, UNCHANGED <<vars, registered>>
  PROVE  CalmSessions'
BY DEF vars, redis, ages, counters, CalmSessions, OneAtATime, Relies, Kills, Drops, Found, SessionOf,
       HasSession, Indexed, Doing, Command, Lives, IsLatest

\* Nothing is in flight when a key lapses.  A session that does is gone; the
\* sessions that an index leaves behind are looked for no more.
LEMMA CalmLapses ==
  ASSUME AccountTypeOK, CalmSessions, Lapse, UNCHANGED registered
  PROVE  CalmSessions'
<1> SUFFICES ASSUME calm' PROVE CalmSessions'
  BY DEF CalmSessions
<1>1. /\ calm /\ \A r \in Slots : slots[r] = Idle
      /\ UNCHANGED <<tokens, slots, revoked>>
      /\ \/ \E d \in Devices : /\ sessions' = [sessions EXCEPT ![d] = NoSession]
                               /\ strays' = strays \ {d}
                               /\ UNCHANGED index
         \/ \E u \in Users : /\ index' = [index EXCEPT ![u] = {}]
                             /\ strays' = strays \cup DevicesOf(u)
                             /\ UNCHANGED sessions
  BY Lapsing DEF AccountTypeOK
<1>2. \A r \in Slots : DOMAIN slots'[r].todo = {} /\ slots'[r].kills = {}
  BY <1>1, NothingMore DEF Idle
<1>3. \A r \in Slots : Relies(slots[r].todo)' /\ Kills(slots[r].todo, slots[r].kills)'
  BY <1>2 DEF Relies, Kills
<1>4. \A d \in Devices \ strays : HasSession(d) => d \in index[sessions[d].user]
  BY <1>1 DEF CalmSessions, Indexed, Doing
<1>5. \A d \in Devices : HasSession(d)' =>
        /\ HasSession(d) /\ sessions'[d] = sessions[d]
        /\ d \in strays => d \in strays'
  BY <1>1 DEF HasSession, AccountTypeOK, SessionTypeOK
<1>6. \A d \in Devices \ strays' : HasSession(d)' => d \in index'[sessions'[d].user]
  <2> SUFFICES ASSUME NEW d \in Devices \ strays', HasSession(d)'
               PROVE  d \in index'[sessions'[d].user]
    OBVIOUS
  <2>1. d \in index[sessions[d].user] /\ HasSession(d) /\ sessions'[d] = sessions[d]
    BY <1>4, <1>5
  <2>2. sessions[d].user \in Users
    BY <2>1 DEF HasSession, AccountTypeOK, SessionTypeOK, SessionRow
  <2>3. ASSUME NEW u \in Users, index' = [index EXCEPT ![u] = {}], strays' = strays \cup DevicesOf(u)
        PROVE  sessions[d].user # u
    BY <2>1, <2>3 DEF DevicesOf
  <2> QED BY <1>1, <2>1, <2>2, <2>3 DEF AccountTypeOK, SessionTypeOK
<1>7. /\ \A d \in Devices : HasSession(d)' => sessions'[d].user \in registered'
      /\ \A d, e \in WebDevices \ strays' :
           HasSession(d)' /\ HasSession(e)' /\ sessions'[d].user = sessions'[e].user => d = e
  BY <1>1, <1>5, SessionAssumption DEF CalmSessions
<1>8. \A n \in revoked' : ~Lives(n)'
  <2> SUFFICES ASSUME NEW n \in revoked, Lives(n)' PROVE Lives(n)
    BY <1>1 DEF CalmSessions
  <2>1. n \in DOMAIN tokens /\ tokens[n].dev \in Devices
    BY TokenTyped DEF AccountTypeOK, SessionTypeOK
  <2> QED BY <1>1, <1>5, <2>1 DEF Lives, IsLatest, HasSession
<1> QED BY <1>1, <1>3, <1>6, <1>7, <1>8 DEF CalmSessions, OneAtATime, Indexed

\* Sessions: every step.
LEMMA SessionsKept ==
  ASSUME AccountTypeOK, InOrder, CalmSessions, AccountNext
  PROVE  CalmSessions'
<1>0. AccountTypeOK'
  BY TypesKept
<1>1. ASSUME NEW r \in Slots, Pass(r) PROVE CalmSessions'
  BY <1>0, <1>1, CalmPass DEF Pass
<1>2. ASSUME NEW r \in Slots, CodeCommand(r) PROVE CalmSessions'
  BY <1>0, <1>2, CalmCode
<1>3. ASSUME NEW r \in Slots, Opened(r) PROVE CalmSessions'
  BY <1>0, <1>3, CalmOpens DEF Opened, CalmSessions
<1>4. ASSUME NEW r \in Slots, NEW u \in Users, Renewed(r, u) PROVE CalmSessions'
  BY <1>0, <1>4, CalmRenews DEF Renewed, CalmSessions
<1>5. ASSUME Expires PROVE CalmSessions'
  BY <1>5, CalmStutters DEF Expires
<1>6. ASSUME Lapses PROVE CalmSessions'
  BY <1>6, CalmLapses DEF Lapses, codeVars
<1> QED BY <1>1, <1>2, <1>3, <1>4, <1>5, <1>6, Steps

LEMMA InitCalm ==
  ASSUME AccountInit
  PROVE  CalmSessions
<1>1. /\ \A r \in Slots : slots[r] = Idle
      /\ \A d \in Devices : ~HasSession(d)
      /\ revoked = {}
  BY DEF AccountInit, Init, HasSession
<1>2. \A r \in Slots : DOMAIN slots[r].todo = {} /\ slots[r].kills = {}
  BY <1>1, NothingMore DEF Idle
<1> QED BY <1>1, <1>2, SessionAssumption DEF CalmSessions, OneAtATime, Relies, Kills, Indexed

\* The invariant of the sessions.
LEMMA SessionsStayCalm == AccountSpec => [](AccountTypeOK /\ CalmSessions)
<1>1. AccountInit => CalmSessions
  BY InitCalm
<1>2. AccountTypeOK /\ InOrder /\ CalmSessions /\ [AccountNext]_accountVars => CalmSessions'
  <2> SUFFICES ASSUME AccountTypeOK, InOrder, CalmSessions, [AccountNext]_accountVars
               PROVE  CalmSessions'
    OBVIOUS
  <2>1. CASE UNCHANGED accountVars
    BY <2>1, CalmStutters DEF accountVars, codeVars
  <2> QED BY <2>1, SessionsKept
<1> QED BY <1>1, <1>2, AccountTyped, PTL DEF AccountSpec

\* As long as requests are handled one at a time and no command fails, a token
\* that a finished logout, revocation, login or password change was for is
\* never accepted again: its session is gone or names a later token, unless it
\* is the latest of a session that refreshes have kept past its index, which a
\* logout of many devices passes over.
THEOREM RevokedTokensStayDead == AccountSpec => []RevokedStayDead
<1>1. AccountTypeOK /\ CalmSessions => RevokedStayDead
  BY DEF CalmSessions, RevokedStayDead, Introspect, Refreshable, Lives
<1> QED BY <1>1, SessionsStayCalm, PTL

\* Between requests of such a behaviour a user has at most one session on the
\* web, besides those that have outlived an index: a login drops the others
\* that the index lists before its token pair is issued.
THEOREM WebSessionIsUnique == AccountSpec => []OneWebSession
<1>1. AccountTypeOK /\ CalmSessions => OneWebSession
  <2> SUFFICES ASSUME CalmSessions, calm, NEW u \in Users
               PROVE  Cardinality((DevicesOf(u) \cap WebDevices) \ strays) <= 1
    BY DEF OneWebSession, Quiet
  <2> DEFINE web == (DevicesOf(u) \cap WebDevices) \ strays
  <2>1. CASE web = {}
    BY <2>1, FS_EmptySet
  <2>2. CASE web # {}
    <3> PICK d : d \in web
      BY <2>2
    <3>1. web = {d}
      BY DEF CalmSessions, DevicesOf
    <3>2. Cardinality(web) = 1
      BY <3>1, FS_Singleton
    <3> HIDE DEF web
    <3>3. Cardinality(web) <= 1
      BY <3>2
    <3> QED BY <3>3 DEF web
  <2> QED BY <2>1, <2>2
<1> QED BY <1>1, SessionsStayCalm, PTL

\* Between requests of such a behaviour the index of a user lists every device
\* with a session of the user that has not outlived an index since its login:
\* a logout of every device passes no other over.
THEOREM IndexListsSessions == AccountSpec => []SessionsAreIndexed
<1>1. AccountTypeOK /\ CalmSessions => SessionsAreIndexed
  BY DEF CalmSessions, SessionsAreIndexed, Quiet, Indexed, Doing
<1> QED BY <1>1, SessionsStayCalm, PTL

-----------------------------------------------------------------------------
(* Codes, one request at a time *)

CodeHeads == {"attempt", "compare", "reset"}

\* A step that leaves the codes, and what was granted and counted, alone.
LEMMA CodesUntouched ==
  ASSUME AccountTypeOK, CalmCodes, calm, NEW r \in Slots, Alone(r),
         UNCHANGED <<codes, mail, grants, codeHistory>>,
         \A x \in Slots : x # r => slots'[x] = slots[x],
         ~Doing(r, "compare"), ~Doing(r, "compare")', ~Doing(r, "reset")',
         Doing(r, "attempt")' => codes[Command(r)'.purpose][Command(r)'.user] = Command(r)'.code,
         \A g \in grants : Spending(g) => Spending(g)'
  PROVE  CalmCodes'
<1>1. \A x \in Slots : x # r => \A kind : ~Doing(x, kind) /\ ~Doing(x, kind)'
  BY DEF Alone, Doing
<1>2. \A n : ~Comparing(n) /\ ~Comparing(n)'
  BY <1>1 DEF Comparing
<1>3. \A p \in Purposes, u \in WithEmail : KeptCode(p, u)'
  BY <1>2 DEF CalmCodes, KeptCode, codeHistory
<1>4. \A g : Grant(g.mail)' = Grant(g.mail)
  BY DEF Grant, codeHistory
<1> QED BY <1>1, <1>3, <1>4 DEF CalmCodes, codeHistory

\* A grant is spent right after the change of the password, or now.
LEMMA SpendsOf ==
  ASSUME AccountTypeOK, InOrder, NEW r \in Slots, Alone(r), slots[r] # Idle, NEW g, Spending(g)
  PROVE  \/ Doing(r, "spend") /\ Command(r).grant = g
         \/ Doing(r, "setVersion") /\ \E i \in DOMAIN slots[r].todo :
              i # 1 /\ slots[r].todo[i].kind = "spend" /\ slots[r].todo[i].grant = g
<1> PICK x \in Slots : \E i \in DOMAIN slots[x].todo :
           slots[x].todo[i].kind = "spend" /\ slots[x].todo[i].grant = g
  BY DEF Spending
<1> PICK i \in DOMAIN slots[x].todo :
           slots[x].todo[i].kind = "spend" /\ slots[x].todo[i].grant = g
  OBVIOUS
<1>1. x = r
  <2>1. CASE slots[x] = Idle
    <3>1. DOMAIN slots[x].todo = {}
      BY <2>1, NothingMore DEF Idle
    <3> QED BY <3>1
  <2> QED BY <2>1 DEF Alone
<1>2. Command(r) = slots[r].todo[1]
  BY Current
<1> QED BY <1>1, <1>2 DEF InOrder, Doing, Command

\* What comes next is one of the commands that have taken the place of the
\* last, or one that may stand further down.
LEMMA NextHead ==
  ASSUME AccountTypeOK, AccountTypeOK', InOrder, NEW r \in Slots, slots[r] # Idle, Grows,
         NEW more \in Seq(Commands)', Proceed(r, more),
         NEW kind \in HeadOnly, Doing(r, kind)'
  PROVE  1 \in DOMAIN more /\ Command(r)' = more[1] /\ more[1].kind = kind
<1>1. slots'[r] # Idle /\ Command(r)' = slots'[r].todo[1] /\ 1 \in DOMAIN slots'[r].todo
      /\ Command(r)'.kind = kind
  <2>1. slots'[r] # Idle
    BY DEF Doing
  <2>2. slots'[r].todo \in Seq(Commands)' /\ slots'[r].todo # <<>>
    BY <2>1 DEF AccountTypeOK, SessionTypeOK, SlotsTypeOK, Request
  <2> QED BY <2>1, <2>2 DEF Doing, Command
<1>2. \/ 1 \in DOMAIN more /\ slots'[r].todo[1] = more[1]
      \/ slots'[r].todo[1].kind \notin HeadOnly
  BY <1>1, RestOf
<1> QED BY <1>1, <1>2

\* The commands on sessions touch no code, and none on codes follows them.
LEMMA RedisHeads ==
  ASSUME AccountTypeOK, AccountTypeOK', InOrder, NEW r \in Slots, RedisCommand(r), UNCHANGED codeVars
  PROVE  /\ \A x \in Slots : x # r => slots'[x] = slots[x]
         /\ \A kind \in CodeHeads : ~Doing(r, kind)'
<1>1. UNCHANGED mail /\ slots \in [Slots -> Request] /\ CodeHeads \subseteq HeadOnly
  BY DEF codeVars, AccountTypeOK, SessionTypeOK, SlotsTypeOK, CodeHeads, HeadOnly
<1>2. \A x \in Slots : x # r => slots'[x] = slots[x]
  BY <1>1 DEF RedisCommand, ReadDevice, DelRefresh, AddToBlacklist, DropRead, DropKey, Unindex,
     ListDevices, CollectNext, RevokeFound, Issue, CreateSession, WriteSession, AddToIndex,
     UpdateRead, GetUsed, CheckSession, Consume, MarkUsed, SetVersion, CommandFails, Proceed, Throw
<1> SUFFICES \A kind \in CodeHeads : ~Doing(r, kind)'
  BY <1>2
<1>3. ASSUME PlainStep(r), slots[r] # Idle
      PROVE  \A kind \in CodeHeads : ~Doing(r, kind)'
  <2> PICK more \in Seq(Commands) : Proceed(r, more) /\ Plain(more)
    BY <1>3 DEF PlainStep
  <2>1. Grows /\ more \in Seq(Commands)'
    BY <1>1, TodosGrow DEF Grows, Proceed
  <2>2. \A i \in DOMAIN more : more[i].kind \notin CodeHeads
    BY DEF Plain, PlainKinds, CodeHeads
  <2> QED BY <1>1, <1>3, <2>1, <2>2, NextHead
<1>4. ASSUME slots'[r] = Idle
      PROVE  \A kind \in CodeHeads : ~Doing(r, kind)'
  BY <1>4 DEF Doing
<1>5. ASSUME NEW c, slots'[r].todo = <<c>>, c.kind \notin CodeHeads
      PROVE  \A kind \in CodeHeads : ~Doing(r, kind)'
  BY <1>5 DEF Doing
<1>6. CASE ReadDevice(r) \/ DelRefresh(r) \/ AddToBlacklist(r) \/ DropRead(r) \/ ListDevices(r)
             \/ CollectNext(r) \/ RevokeFound(r) \/ Consume(r) \/ MarkUsed(r)
  <2>1. PlainStep(r)
    BY <1>6, PlainCommands
  <2>2. slots[r] # Idle
    BY <1>6 DEF ReadDevice, DelRefresh, AddToBlacklist, DropRead, ListDevices, CollectNext,
                RevokeFound, Consume, MarkUsed, Doing
  <2> QED BY <1>3, <2>1, <2>2
<1>7. CASE DropKey(r) \/ Unindex(r) \/ AddToIndex(r) \/ SetVersion(r)
  <2> DEFINE more == <<>>
  <2>1. Proceed(r, more) /\ slots[r] # Idle
    BY <1>7 DEF DropKey, Unindex, AddToIndex, SetVersion, Doing
  <2>2. more \in Seq(Commands)' /\ DOMAIN more = {}
    OBVIOUS
  <2>3. Grows
    BY <2>1, <1>1 DEF Grows, Proceed
  <2> HIDE DEF more
  <2> QED BY <1>1, <2>1, <2>2, <2>3, NextHead
<1>8. CASE CheckSession(r)
  <2>1. CASE IsLatest(Command(r).token)
    BY <1>3, <1>8, <2>1, PlainCommands DEF CheckSession, Doing
  <2>2. CASE ~IsLatest(Command(r).token)
    BY <1>1, <1>4, <1>8, <2>2, Throws DEF CheckSession
  <2> QED BY <2>1, <2>2
<1>9. CASE CommandFails(r)
  BY <1>1, <1>4, <1>9, Throws DEF CommandFails
<1>10. CASE GetUsed(r)
  <2>1. \/ slots'[r] = Idle
        \/ \E u \in Users, d \in Devices :
             slots'[r] = [todo |-> <<[kind |-> "revokeByDevice", user |-> u, dev |-> d]>>,
                          kills |-> IssuedFor(u, d)]
    BY <1>10, UsedTypes
  <2>2. \/ slots'[r] = Idle
        \/ \E c : slots'[r].todo = <<c>> /\ c.kind = "revokeByDevice"
    <3>1. ASSUME NEW u \in Users, NEW d \in Devices,
                 slots'[r] = [todo |-> <<[kind |-> "revokeByDevice", user |-> u, dev |-> d]>>,
                              kills |-> IssuedFor(u, d)]
          PROVE  \E c : slots'[r].todo = <<c>> /\ c.kind = "revokeByDevice"
      <4> PICK c : c = [kind |-> "revokeByDevice", user |-> u, dev |-> d]
        OBVIOUS
      <4>1. slots'[r].todo = <<c>> /\ c.kind = "revokeByDevice"
        BY <3>1
      <4> QED BY <4>1
    <3> QED BY <2>1, <3>1
  <2> QED BY <1>4, <1>5, <2>2 DEF CodeHeads
<1>11. CASE Issue(r)
  <2> PICK c : c = Command(r)
    OBVIOUS
  <2>1. PICK next : next = [kind |-> c.then, dev |-> c.token.dev,
                            session |-> [user |-> c.token.user, dev |-> c.token.dev,
                                         token |-> Len(tokens) + 1]]
    OBVIOUS
  <2>2. c \in IssueCommands /\ slots'[r] = [todo |-> <<next>>, kills |-> slots[r].kills]
    BY <1>1, <1>11, <2>1, Issues
  <2>3. slots'[r].todo = <<next>> /\ next.kind \notin CodeHeads
    BY <2>1, <2>2 DEF IssueCommands, CodeHeads
  <2> QED BY <1>5, <2>3
<1>12. CASE CreateSession(r) \/ UpdateRead(r)
  <2>1. slots[r] # Idle /\ Command(r).kind \in LastOnly
    BY <1>12 DEF CreateSession, WriteSession, UpdateRead, Doing, Command, LastOnly
  <2>2. Tail(slots[r].todo) = <<>>
    BY <2>1, Only
  <2>3. \/ Proceed(r, <<>>)
        \/ \E c : Proceed(r, <<c>>) /\ c.kind \in {"index", "updateSet"}
    BY <1>12 DEF CreateSession, WriteSession, UpdateRead
  <2>4. CASE Proceed(r, <<>>)
    BY <1>1, <1>4, <2>2, <2>4 DEF Proceed
  <2>5. ASSUME NEW c, Proceed(r, <<c>>), c.kind \in {"index", "updateSet"}
        PROVE  \A kind \in CodeHeads : ~Doing(r, kind)'
    <3>1. <<c>> \o <<>> = <<c>> /\ <<c>> # <<>>
      OBVIOUS
    <3>2. slots'[r] = [slots[r] EXCEPT !.todo = <<c>>]
      BY <1>1, <2>2, <2>5, <3>1 DEF Proceed
    <3>3. slots'[r].todo = <<c>>
      BY <1>1, <3>2 DEF Request
    <3> QED BY <1>5, <2>5, <3>3 DEF CodeHeads
  <2> QED BY <2>3, <2>4, <2>5
<1> QED BY <1>2, <1>6, <1>7, <1>8, <1>9, <1>10, <1>11, <1>12 DEF RedisCommand

LEMMA CodesPass ==
  ASSUME AccountTypeOK, AccountTypeOK', InOrder, CalmSessions, CalmCodes, NEW r \in Slots,
         RedisCommand(r), UNCHANGED codeVars
  PROVE  CalmCodes'
<1> SUFFICES ASSUME calm' PROVE CalmCodes'
  BY DEF CalmCodes
<1>1. /\ \A x \in Slots : x # r => slots'[x] = slots[x]
      /\ \A kind \in CodeHeads : ~Doing(r, kind)'
  BY RedisHeads
<1>2. ~CommandFails(r)
  BY DEF CommandFails
<1>3. calm
  BY <1>2 DEF RedisCommand, ReadDevice, DelRefresh, AddToBlacklist, DropRead, DropKey, Unindex,
     ListDevices, CollectNext, RevokeFound, Issue, CreateSession, WriteSession, AddToIndex,
     UpdateRead, GetUsed, CheckSession, Consume, MarkUsed, SetVersion, Proceed, Throw, counters
<1>4. slots[r] # Idle /\ Command(r).kind \notin CodeHeads \cup {"spend"}
      /\ (Command(r).kind = "setVersion" => SetVersion(r))
  BY <1>2 DEF RedisCommand, ReadDevice, DelRefresh, AddToBlacklist, DropRead, DropKey, Unindex,
     ListDevices, CollectNext, RevokeFound, Issue, CreateSession, WriteSession, AddToIndex,
     UpdateRead, GetUsed, CheckSession, Consume, MarkUsed, SetVersion, Doing, Command, CodeHeads
<1>5. Alone(r)
  BY <1>3, <1>4, ServedBefore
<1>6. \A g \in grants : Spending(g) => Spending(g)'
  <2> SUFFICES ASSUME NEW g \in grants, Spending(g) PROVE Spending(g)'
    OBVIOUS
  <2>1. /\ Doing(r, "setVersion")
        /\ \E i \in DOMAIN slots[r].todo :
             i # 1 /\ slots[r].todo[i].kind = "spend" /\ slots[r].todo[i].grant = g
    BY <1>4, <1>5, SpendsOf DEF Doing, Command
  <2>2. PICK j \in DOMAIN slots[r].todo :
             j # 1 /\ slots[r].todo[j].kind = "spend" /\ slots[r].todo[j].grant = g
    BY <2>1
  <2>3. PICK more : more = <<>>
    OBVIOUS
  <2>4. Proceed(r, more) /\ UNCHANGED <<tokens, mail>>
    BY <1>4, <2>1, <2>3 DEF SetVersion, Doing, Command, Proceed, codeVars
  <2>5. more \in Seq(Commands)' /\ Grows
    BY <2>3, <2>4 DEF Grows
  <2>6. \A i \in DOMAIN slots[r].todo : i # 1 =>
          /\ i + Len(more) - 1 \in DOMAIN slots'[r].todo
          /\ slots'[r].todo[i + Len(more) - 1] = slots[r].todo[i]
    BY <1>4, <2>4, <2>5, RestOf
  <2> QED BY <2>2, <2>6 DEF Spending
<1>7. UNCHANGED <<codes, mail, grants, codeHistory>>
  BY DEF codeVars
<1>8. ~Doing(r, "compare") /\ ~Doing(r, "compare")' /\ ~Doing(r, "reset")' /\ ~Doing(r, "attempt")'
  BY <1>1, <1>4 DEF CodeHeads, Doing, Command
<1> QED BY <1>1, <1>3, <1>5, <1>6, <1>7, <1>8, CodesUntouched

\* A request that starts with an attempt has just read the code.
LEMMA CodesOpen ==
  ASSUME AccountTypeOK, AccountTypeOK', InOrder, CalmCodes, NEW r \in Slots, Opens(r), UNCHANGED codeVars
  PROVE  CalmCodes'
<1> SUFFICES ASSUME calm' PROVE CalmCodes'
  BY DEF CalmCodes
<1> PICK todo, kills : Begin(r, todo, kills) /\ Opening(todo, kills)
  BY DEF Opens
<1>1. Start(r, todo, kills) /\ UNCHANGED mail /\ todo \in Seq(Commands) /\ todo # <<>>
      /\ kills \in SUBSET DOMAIN tokens
  BY DEF Begin, Opening, codeVars
<1>2. /\ slots'[r] = [todo |-> todo, kills |-> kills]
      /\ \A x \in Slots : x # r => slots'[x] = slots[x]
      /\ calm /\ \A x \in Slots : slots[x] = Idle
  BY <1>1, Starts
<1>3. Alone(r) /\ ~Doing(r, "compare")
  BY <1>2 DEF Alone, Doing
<1>4. Command(r)' = todo[1] /\ 1 \in DOMAIN todo
  BY <1>1, <1>2 DEF Command
<1>5. /\ todo[1].kind \in StartKinds
      /\ todo[1].kind = "attempt" => codes[todo[1].purpose][todo[1].user] = todo[1].code
  BY <1>4 DEF Opening
<1>6. /\ ~Doing(r, "compare")' /\ ~Doing(r, "reset")'
      /\ Doing(r, "attempt")' => codes[Command(r)'.purpose][Command(r)'.user] = Command(r)'.code
  BY <1>4, <1>5 DEF Doing, Command, StartKinds
<1>7. \A g : ~Spending(g)
  <2>1. \A x \in Slots : DOMAIN slots[x].todo = {}
    BY <1>2, NothingMore DEF Idle
  <2> QED BY <2>1 DEF Spending
<1>8. UNCHANGED <<codes, mail, grants, codeHistory>>
  BY DEF codeVars
<1> QED BY <1>2, <1>3, <1>6, <1>7, <1>8, CodesUntouched

\* A password change: the grant it is made with is spent before it is over.
LEMMA CodesRenew ==
  ASSUME AccountTypeOK, AccountTypeOK', InOrder, CalmCodes, NEW r \in Slots, NEW u \in Users,
         Renewed(r, u)
  PROVE  CalmCodes'
<1> SUFFICES ASSUME calm' PROVE CalmCodes'
  BY DEF CalmCodes
<1> PICK kills : kills = IssuedTo(u)
  OBVIOUS
<1> PICK todo : Start(r, todo, kills) /\ Renewal(todo, u)
  BY DEF Renewed, Renews
<1>1. todo \in Seq(Commands) /\ todo # <<>> /\ kills \in SUBSET DOMAIN tokens /\ UNCHANGED mail
      /\ todo[1].kind = "setVersion"
  BY DEF Renewal, IssuedTo, Renewed
<1>2. /\ slots'[r] = [todo |-> todo, kills |-> kills]
      /\ \A x \in Slots : x # r => slots'[x] = slots[x]
      /\ calm /\ \A x \in Slots : slots[x] = Idle
  BY <1>1, Starts
<1>3. Alone(r) /\ ~Doing(r, "compare")
  BY <1>2 DEF Alone, Doing
<1>4. Command(r)' = todo[1]
  BY <1>1, <1>2 DEF Command
<1>5. /\ ~Doing(r, "compare")' /\ ~Doing(r, "reset")' /\ ~Doing(r, "attempt")'
  BY <1>1, <1>4 DEF Doing, Command
<1>6. \A g : ~Spending(g)
  <2>1. \A x \in Slots : DOMAIN slots[x].todo = {}
    BY <1>2, NothingMore DEF Idle
  <2> QED BY <2>1 DEF Spending
<1>7. UNCHANGED <<codes, mail, grants, tries, accepted>>
  BY DEF Renewed
<1>8. CASE UNCHANGED resets
  BY <1>2, <1>3, <1>5, <1>6, <1>7, <1>8, CodesUntouched DEF codeHistory
<1>9. ASSUME NEW g \in grants, ResetPassword(r, g) PROVE CalmCodes'
  <2>1. /\ Resets(r, g) /\ g \in GrantRow /\ g.mail \in 1..MaxCodes
    BY <1>9, ResetOpens
  <2>2. resets' = [resets EXCEPT ![g.mail] = @ + 1] /\ resets \in [1..MaxCodes -> Nat]
    BY <1>9 DEF ResetPassword, AccountTypeOK, CodeTypeOK
  <2>3. accepted[g.mail] = 1 /\ g = Grant(g.mail) /\ resets[g.mail] = 0
    BY <1>2, <1>6 DEF CalmCodes
  <2>4. Spending(g)'
    <3>1. \E i \in DOMAIN slots'[r].todo : slots'[r].todo[i].kind = "spend" /\ slots'[r].todo[i].grant = g
      BY <1>2, <2>1, Starts DEF Resets, Start, AccountTypeOK, SessionTypeOK, SlotsTypeOK
    <3> QED BY <3>1 DEF Spending
  <2>5. \A n \in 1..MaxCodes : /\ n # g.mail => resets'[n] = resets[n]
                               /\ n = g.mail => resets'[n] = 1
    BY <2>1, <2>2, <2>3
  <2>6. \A h \in grants : h.mail = g.mail => h = g
    BY <1>2, <2>3 DEF CalmCodes
  <2>7. \A x \in Slots, kind \in CodeHeads : ~Doing(x, kind) /\ ~Doing(x, kind)'
    BY <1>2, <1>5 DEF Doing, CodeHeads
  <2>8. \A p \in Purposes, v \in WithEmail : KeptCode(p, v)'
    BY <1>2, <1>7, <2>7 DEF CalmCodes, KeptCode, Comparing, CodeHeads, Renewed
  <2>9. \A h : Grant(h.mail)' = Grant(h.mail)
    BY <1>1, <1>7 DEF Grant
  <2>10. ASSUME NEW h \in grants PROVE h.mail \in 1..MaxCodes
    <3>1. h \in GrantRow
      BY DEF AccountTypeOK, CodeTypeOK
    <3>2. h.mail \in DOMAIN mail
      BY <3>1 DEF GrantRow
    <3>3. mail \in Seq([user: WithEmail, purpose: Purposes]) /\ Len(mail) <= MaxCodes
      BY DEF AccountTypeOK, CodeTypeOK
    <3> QED BY <3>2, <3>3, AccountAssumption
  <2>11. \A n \in 1..MaxCodes :
           /\ accepted[n] <= 1 /\ resets'[n] <= accepted[n]
           /\ accepted[n] = 1 => tries[n] <= MaxAttempts
           /\ n > Len(mail) => tries[n] = 0 /\ accepted[n] = 0
    BY <1>2, <2>3, <2>5 DEF CalmCodes
  <2>12. \A h \in grants : accepted[h.mail] = 1 /\ h = Grant(h.mail) /\ (resets'[h.mail] = 0 \/ Spending(h)')
    BY <1>2, <1>6, <2>4, <2>5, <2>6, <2>10 DEF CalmCodes
  <2> QED BY <1>1, <1>7, <2>7, <2>8, <2>9, <2>11, <2>12 DEF CalmCodes, CodeHeads
<1> QED BY <1>8, <1>9 DEF Renewed

\* Time passes: a grant is gone.
LEMMA CodesExpire ==
  ASSUME CalmCodes, Expires
  PROVE  CalmCodes'
BY DEF Expires, vars, counters, codeHistory, CalmCodes, KeptCode, Comparing, Spending, Doing, Command,
       Grant

\* A fresh code was neither tried nor accepted.
LEMMA CodesMail ==
  ASSUME AccountTypeOK, AccountTypeOK', InOrder, CalmSessions, CalmCodes, calm, NEW r \in Slots,
         MailCode(r)
  PROVE  CalmCodes'
<1> PICK n : n = Len(mail')
  OBVIOUS
<1> PICK c : c = Command(r)
  OBVIOUS
<1> PICK more : more = <<>>
  OBVIOUS
<1>1. /\ slots[r] # Idle /\ c.kind = "mail" /\ Proceed(r, more)
      /\ codes' = [codes EXCEPT ![c.purpose][c.user] = [mail |-> n, attempts |-> 0]]
      /\ UNCHANGED <<grants, codeHistory>>
  BY DEF MailCode, Doing, Command, AccountCall
<1>2. c \in MailCommands
  BY <1>1, Current, CommandOf
<1>3. c.user \in WithEmail /\ c.purpose \in Purposes
  BY <1>2 DEF MailCommands
<1>4. /\ Len(mail) \in Nat /\ n = Len(mail) + 1 /\ n \in 1..MaxCodes
      /\ mail'[n] = [user |-> c.user, purpose |-> c.purpose]
      /\ \A m \in DOMAIN mail : m \in 1..Len(mail) /\ mail'[m] = mail[m] /\ m # n
  <2>1. mail \in Seq([user: WithEmail, purpose: Purposes]) /\ Len(mail) < MaxCodes
        /\ mail' = Append(mail, [user |-> c.user, purpose |-> c.purpose])
    BY DEF MailCode, AccountTypeOK, CodeTypeOK
  <2> QED BY <2>1, AccountAssumption
<1>5. Alone(r) /\ \A x \in Slots, kind \in CodeHeads : ~Doing(x, kind)
  <2>1. Alone(r)
    BY <1>1, ServedBefore
  <2> QED BY <1>1, <2>1 DEF Alone, Doing, Command, CodeHeads
<1>6. /\ \A x \in Slots : x # r => slots'[x] = slots[x]
      /\ \A kind \in CodeHeads : ~Doing(r, kind)'
  <2>0. more \in Seq(Commands)' /\ DOMAIN more = {}
    OBVIOUS
  <2>1. more \in Seq(Commands)' /\ DOMAIN more = {} /\ Grows
    BY <2>0, CodeReturns DEF CodeCommand
  <2>2. CodeHeads \subseteq HeadOnly
    BY DEF CodeHeads, HeadOnly
  <2> QED BY <1>1, <2>1, <2>2, NextHead, Proceeds
<1>7. \A x \in Slots, kind \in CodeHeads : ~Doing(x, kind)'
  BY <1>5, <1>6 DEF Alone, Doing
<1>8. \A g : ~Spending(g)
  <2>1. ~Doing(r, "spend") /\ ~Doing(r, "setVersion")
    BY <1>1 DEF Doing, Command
  <2> QED BY <1>1, <1>5, <2>1, SpendsOf
<1>9. /\ tries \in [1..MaxCodes -> Nat] /\ accepted \in [1..MaxCodes -> Nat]
      /\ tries[n] = 0 /\ accepted[n] = 0
  BY <1>4 DEF CalmCodes, AccountTypeOK, CodeTypeOK
<1>10. ASSUME NEW p \in Purposes, NEW u \in WithEmail PROVE KeptCode(p, u)'
  <2>1. CASE p = c.purpose /\ u = c.user
    <3>1. codes'[p][u] = [mail |-> n, attempts |-> 0]
      BY <1>1, <1>3, <2>1 DEF AccountTypeOK, CodeTypeOK
    <3> QED BY <1>1, <1>4, <1>7, <1>9, <2>1, <3>1 DEF KeptCode, Comparing, CodeHeads, codeHistory
  <2>2. CASE ~(p = c.purpose /\ u = c.user)
    <3>1. codes'[p][u] = codes[p][u]
      BY <1>1, <1>3, <2>2 DEF AccountTypeOK, CodeTypeOK
    <3>2. codes[p][u] # NoCode => codes[p][u].mail \in DOMAIN mail
      BY DEF AccountTypeOK, CodeTypeOK, Code
    <3>3. KeptCode(p, u)
      BY DEF CalmCodes
    <3> QED BY <1>1, <1>4, <1>5, <1>7, <3>1, <3>2, <3>3 DEF KeptCode, Comparing, CodeHeads, codeHistory
  <2> QED BY <2>1, <2>2
<1>11. \A g \in grants : Grant(g.mail)' = Grant(g.mail)
  BY <1>1, <1>4 DEF Grant, GrantRow, codeHistory, AccountTypeOK, CodeTypeOK
<1>12. \A m \in 1..MaxCodes :
         /\ accepted[m] <= 1 /\ resets[m] <= accepted[m]
         /\ accepted[m] = 1 => tries[m] <= MaxAttempts
         /\ m > Len(mail') => tries[m] = 0 /\ accepted[m] = 0
  BY <1>4 DEF CalmCodes
<1> QED BY <1>1, <1>7, <1>8, <1>10, <1>11, <1>12 DEF CalmCodes, CodeHeads, codeHistory

\* The attempt is counted in the code before it is one.
LEMMA CodesAttempt ==
  ASSUME AccountTypeOK, AccountTypeOK', InOrder, CalmSessions, CalmCodes, calm, NEW r \in Slots,
         WriteAttempt(r)
  PROVE  CalmCodes'
<1> PICK c : c = Command(r)
  OBVIOUS
<1> PICK counted : counted = [c.code EXCEPT !.attempts = @ + 1]
  OBVIOUS
<1> PICK next : next = [c EXCEPT !.kind = "compare", !.code = counted]
  OBVIOUS
<1>1. /\ slots[r] # Idle /\ c.kind = "attempt" /\ Doing(r, "attempt") /\ Proceed(r, <<next>>)
      /\ codes' = [codes EXCEPT ![c.purpose][c.user] = counted]
      /\ UNCHANGED <<mail, grants, tries, accepted, resets>>
  BY DEF WriteAttempt, Doing, Command, codeHistory
<1>2. c \in AttemptCommands
  BY <1>1, Current, CommandOf
<1>3. /\ c.user \in WithEmail /\ c.purpose \in Purposes /\ c.code \in Code
      /\ counted \in Code /\ counted.mail = c.code.mail /\ counted.attempts = c.code.attempts + 1
      /\ next \in AttemptCommands /\ next.kind = "compare" /\ next.code = counted
      /\ next.user = c.user /\ next.purpose = c.purpose /\ c.code # NoCode /\ counted # NoCode
  <2>1. c.user \in WithEmail /\ c.purpose \in Purposes /\ c.code \in Code
    BY <1>2 DEF AttemptCommands
  <2>2. counted \in Code /\ counted.mail = c.code.mail /\ counted.attempts = c.code.attempts + 1
    BY <2>1 DEF Code
  <2>3. /\ next \in AttemptCommands /\ next.kind = "compare" /\ next.code = counted
        /\ next.user = c.user /\ next.purpose = c.purpose
    BY <1>2, <2>2 DEF AttemptCommands
  <2>4. \A code \in Code : code.mail # 0
    <3>1. mail \in Seq([user: WithEmail, purpose: Purposes])
      BY DEF AccountTypeOK, CodeTypeOK
    <3>2. 0 \notin DOMAIN mail
      BY <3>1
    <3> QED BY <3>2 DEF Code
  <2> QED BY <2>1, <2>2, <2>3, <2>4 DEF NoCode
<1>4. codes[c.purpose][c.user] = c.code
  BY <1>1 DEF CalmCodes
<1>5. Alone(r) /\ \A x \in Slots, kind \in {"compare", "reset"} : ~Doing(x, kind)
  <2>1. Alone(r)
    BY <1>1, ServedBefore
  <2> QED BY <1>1, <2>1 DEF Alone, Doing, Command
<1>6. PICK more : more = <<next>>
  OBVIOUS
<1>7. /\ \A x \in Slots : x # r => slots'[x] = slots[x]
      /\ slots'[r] # Idle /\ Command(r)' = next
  <2>1. Grows
    BY CodeReturns DEF CodeCommand
  <2>2. next \in Commands'
    BY <1>3, <2>1, CommandsGrow DEF Commands
  <2>3. more \in Seq(Commands)' /\ DOMAIN more = {1} /\ more[1] = next /\ Proceed(r, more)
    BY <1>1, <1>6, <2>2
  <2>4. slots'[r].todo \in Seq(Commands)' /\ 1 \in DOMAIN slots'[r].todo /\ slots'[r].todo[1] = next
        /\ \A x \in Slots : x # r => slots'[x] = slots[x]
    BY <1>1, <2>1, <2>3, RestOf
  <2>5. slots'[r] # Idle
    BY <2>4, NothingMore DEF Idle
  <2> QED BY <2>4, <2>5 DEF Command
<1>8. /\ \A x \in Slots : x # r => \A kind : ~Doing(x, kind)'
      /\ Doing(r, "compare")' /\ ~Doing(r, "attempt")' /\ ~Doing(r, "reset")'
  BY <1>3, <1>5, <1>7 DEF Alone, Doing, Command
<1>9. \A n : Comparing(n)' <=> n = c.code.mail
  <2>1. Command(r)'.code.mail = c.code.mail
    BY <1>3, <1>7
  <2>2. \A x \in Slots : Doing(x, "compare")' => x = r
    BY <1>8
  <2> QED BY <1>8, <2>1, <2>2 DEF Comparing
<1>10. \A n : ~Comparing(n)
  BY <1>5 DEF Comparing
<1>11. \A g : ~Spending(g)
  <2>1. ~Doing(r, "spend") /\ ~Doing(r, "setVersion")
    BY <1>1 DEF Doing, Command
  <2> QED BY <1>1, <1>5, <2>1, SpendsOf
<1>12. ASSUME NEW p \in Purposes, NEW u \in WithEmail PROVE KeptCode(p, u)'
  <2>0. KeptCode(p, u) /\ KeptCode(c.purpose, c.user)
    BY <1>3 DEF CalmCodes
  <2>1. CASE p = c.purpose /\ u = c.user
    <3>1. codes'[p][u] = counted
      BY <1>1, <1>3, <2>1 DEF AccountTypeOK, CodeTypeOK
    <3>2. /\ mail[c.code.mail] = [user |-> u, purpose |-> p] /\ accepted[c.code.mail] = 0
          /\ c.code.attempts = tries[c.code.mail] + 0
      BY <1>3, <1>4, <1>10, <2>0, <2>1 DEF KeptCode
    <3>3. tries[c.code.mail] \in Nat
      <4>1. c.code.mail \in 1..MaxCodes
        <5>1. c.code.mail \in DOMAIN mail
          BY <1>3 DEF Code
        <5>2. mail \in Seq([user: WithEmail, purpose: Purposes]) /\ Len(mail) <= MaxCodes
          BY DEF AccountTypeOK, CodeTypeOK
        <5> QED BY <5>1, <5>2, AccountAssumption
      <4> QED BY <4>1 DEF AccountTypeOK, CodeTypeOK
    <3>4. counted.attempts = tries[c.code.mail] + 1
      BY <1>3, <3>2, <3>3
    <3>5. /\ codes'[p][u].mail = c.code.mail /\ codes'[p][u].attempts = tries[c.code.mail] + 1
      BY <1>3, <3>1, <3>4
    <3> QED BY <1>1, <1>9, <3>2, <3>5 DEF KeptCode
  <2>2. CASE ~(p = c.purpose /\ u = c.user)
    <3>1. codes'[p][u] = codes[p][u]
      BY <1>1, <1>3, <2>2 DEF AccountTypeOK, CodeTypeOK
    <3>2. codes[p][u] # NoCode => codes[p][u].mail # c.code.mail
      BY <1>3, <1>4, <2>0, <2>2 DEF KeptCode
    <3> QED BY <1>1, <1>9, <1>10, <2>0, <3>1, <3>2 DEF KeptCode
  <2> QED BY <2>1, <2>2
<1>13. codes'[c.purpose][c.user] = counted
  BY <1>1, <1>3 DEF AccountTypeOK, CodeTypeOK
<1>14. \A g : Grant(g.mail)' = Grant(g.mail)
  BY <1>1 DEF Grant
<1>15. \A x \in Slots : Doing(x, "attempt")' \/ Doing(x, "compare")' =>
         codes'[Command(x)'.purpose][Command(x)'.user] = Command(x)'.code
  <2>1. codes'[Command(r)'.purpose][Command(r)'.user] = Command(r)'.code
    BY <1>3, <1>7, <1>13
  <2> QED BY <1>8, <2>1
<1> QED BY <1>1, <1>8, <1>11, <1>12, <1>14, <1>15 DEF CalmCodes

\* A code is accepted by the try that takes it away, and by no later one.
LEMMA CodesCompare ==
  ASSUME AccountTypeOK, AccountTypeOK', InOrder, CalmSessions, CalmCodes, calm, NEW r \in Slots,
         CompareCode(r)
  PROVE  CalmCodes'
<1> PICK c : c = Command(r)
  OBVIOUS
<1> PICK n : n = c.code.mail
  OBVIOUS
<1> PICK right : right = (~(c.code.attempts > MaxAttempts) /\ c.entered = n)
  OBVIOUS
<1> PICK next : next = [kind |-> c.purpose, mail |-> n]
  OBVIOUS
<1>1. /\ slots[r] # Idle /\ c.kind = "compare" /\ Doing(r, "compare")
      /\ Proceed(r, IF right THEN <<next>> ELSE <<>>)
      /\ tries' = [tries EXCEPT ![n] = @ + 1]
      /\ accepted' = IF right THEN [accepted EXCEPT ![n] = @ + 1] ELSE accepted
      /\ codes' = IF c.code.attempts > MaxAttempts \/ right
                    THEN [codes EXCEPT ![c.purpose][c.user] = NoCode] ELSE codes
      /\ UNCHANGED <<mail, grants, resets>>
  BY DEF CompareCode, Doing, Command
<1>2. c \in AttemptCommands
  BY <1>1, Current, CommandOf
<1>3. /\ c.user \in WithEmail /\ c.purpose \in Purposes /\ c.code \in Code
      /\ c.code.attempts \in Nat /\ n \in DOMAIN mail
      /\ next.kind = c.purpose /\ next.mail = n
  BY <1>2 DEF AttemptCommands, Code
<1>4. n \in 1..MaxCodes /\ n # 0 /\ n <= Len(mail)
  <2>1. mail \in Seq([user: WithEmail, purpose: Purposes]) /\ Len(mail) <= MaxCodes
    BY DEF AccountTypeOK, CodeTypeOK
  <2> QED BY <1>3, <2>1, AccountAssumption
<1>5. codes[c.purpose][c.user] = c.code /\ c.code # NoCode
  BY <1>1, <1>4 DEF CalmCodes, NoCode
<1>6. Alone(r)
  BY <1>1, ServedBefore
<1>7. \A m : Comparing(m) <=> m = n
  <2>1. \A x \in Slots : Doing(x, "compare") => x = r
    BY <1>6 DEF Alone, Doing
  <2> QED BY <1>1, <2>1 DEF Comparing
<1>8. /\ tries \in [1..MaxCodes -> Nat] /\ accepted \in [1..MaxCodes -> Nat]
      /\ resets \in [1..MaxCodes -> Nat]
  BY DEF AccountTypeOK, CodeTypeOK
<1>9. /\ mail[n] = [user |-> c.user, purpose |-> c.purpose]
      /\ accepted[n] = 0 /\ c.code.attempts = tries[n] + 1 /\ tries[n] \in Nat
      /\ resets[n] = 0
  <2>1. KeptCode(c.purpose, c.user)
    BY <1>3 DEF CalmCodes
  <2>2. mail[n] = [user |-> c.user, purpose |-> c.purpose] /\ accepted[n] = 0
        /\ c.code.attempts = tries[n] + 1
    BY <1>5, <1>7, <2>1 DEF KeptCode
  <2>3. tries[n] \in Nat /\ resets[n] \in Nat /\ resets[n] <= accepted[n]
    BY <1>4, <1>8 DEF CalmCodes
  <2> QED BY <2>2, <2>3
\* What the counters become.
<1>10. /\ tries'[n] = tries[n] + 1
       /\ accepted'[n] = IF right THEN 1 ELSE 0
       /\ \A m \in 1..MaxCodes : m # n => tries'[m] = tries[m] /\ accepted'[m] = accepted[m]
       /\ right => tries'[n] <= MaxAttempts
  <2>1. tries'[n] = tries[n] + 1
    BY <1>1, <1>4, <1>8
  <2>2. accepted'[n] = IF right THEN 1 ELSE 0
    BY <1>1, <1>4, <1>8, <1>9
  <2>3. \A m \in 1..MaxCodes : m # n => tries'[m] = tries[m] /\ accepted'[m] = accepted[m]
    BY <1>1, <1>4, <1>8
  <2>4. right => ~(tries[n] + 1 > MaxAttempts)
    BY <1>9
  <2> QED BY <1>9, <2>1, <2>2, <2>3, <2>4, AccountAssumption
<1>11. ASSUME NEW p \in Purposes, NEW u \in WithEmail, ~(p = c.purpose /\ u = c.user)
       PROVE  codes'[p][u] = codes[p][u] /\ (codes[p][u] # NoCode => codes[p][u].mail # n)
  <2>1. codes'[p][u] = codes[p][u]
    BY <1>1, <1>3, <1>11 DEF AccountTypeOK, CodeTypeOK
  <2>2. KeptCode(p, u)
    BY DEF CalmCodes
  <2> QED BY <1>9, <1>11, <2>1, <2>2 DEF KeptCode
\* What comes next, if the code was right.
<1>12. PICK more : more = IF right THEN <<next>> ELSE <<>>
  OBVIOUS
<1>13. Grows
  BY CodeReturns DEF CodeCommand
<1>14. /\ more \in Seq(Commands)' /\ Proceed(r, more)
       /\ 1 \in DOMAIN more => right /\ more[1] = next
  <2>1. next \in EffectCommands
    BY <1>3 DEF EffectCommands, Purposes
  <2>2. next \in Commands'
    BY <2>1, <1>13, CommandsGrow DEF Commands
  <2>3. <<next>> \in Seq(Commands)' /\ <<next>>[1] = next /\ <<>> \in Seq(Commands)' /\ DOMAIN <<>> = {}
    BY <2>2
  <2>4. CASE right
    BY <1>1, <1>12, <2>3, <2>4
  <2>5. CASE ~right
    BY <1>1, <1>12, <2>3, <2>5
  <2> QED BY <2>4, <2>5
<1>15. \A kind \in CodeHeads : Doing(r, kind)' => kind = "reset" /\ right /\ Command(r)' = next
  <2> SUFFICES ASSUME NEW kind \in CodeHeads, Doing(r, kind)'
               PROVE  kind = "reset" /\ right /\ Command(r)' = next
    OBVIOUS
  <2>1. kind \in HeadOnly
    BY DEF CodeHeads, HeadOnly
  <2>2. 1 \in DOMAIN more /\ Command(r)' = more[1] /\ more[1].kind = kind
    BY <1>1, <1>13, <1>14, <2>1, NextHead
  <2> QED BY <1>3, <1>14, <2>2 DEF CodeHeads, Purposes
<1>16. \A x \in Slots : x # r => \A kind : ~Doing(x, kind)'
  <2>1. \A x \in Slots : x # r => slots'[x] = slots[x]
    BY <1>1, <1>13, <1>14, Proceeds
  <2> QED BY <1>6, <2>1 DEF Alone, Doing
<1>17. \A x \in Slots : ~Doing(x, "attempt")' /\ ~Doing(x, "compare")'
  <2>1. ~Doing(r, "attempt")' /\ ~Doing(r, "compare")'
    BY <1>15 DEF CodeHeads
  <2> QED BY <1>16, <2>1
<1>18. \A m : ~Comparing(m)'
  BY <1>17 DEF Comparing
<1>19. ASSUME NEW p \in Purposes, NEW u \in WithEmail PROVE KeptCode(p, u)'
  <2>1. CASE p = c.purpose /\ u = c.user
    <3>1. CASE c.code.attempts > MaxAttempts \/ right
      <4>1. codes'[p][u] = NoCode
        BY <1>1, <1>3, <2>1, <3>1 DEF AccountTypeOK, CodeTypeOK
      <4> QED BY <4>1 DEF KeptCode
    <3>2. CASE ~(c.code.attempts > MaxAttempts \/ right)
      <4>1. codes'[p][u] = c.code
        BY <1>1, <1>5, <2>1, <3>2
      <4>2. /\ mail'[n] = [user |-> u, purpose |-> p] /\ accepted'[n] = 0
            /\ c.code.attempts = tries'[n] + 0
        BY <1>1, <1>9, <1>10, <2>1, <3>2
      <4> QED BY <1>18, <4>1, <4>2 DEF KeptCode
    <3> QED BY <3>1, <3>2
  <2>2. CASE ~(p = c.purpose /\ u = c.user)
    <3>1. codes'[p][u] = codes[p][u] /\ (codes[p][u] # NoCode => codes[p][u].mail # n)
      BY <1>11, <2>2
    <3>2. KeptCode(p, u)
      BY DEF CalmCodes
    <3>3. codes[p][u] # NoCode => codes[p][u].mail \in 1..MaxCodes
      <4>1. codes[p][u] # NoCode => codes[p][u].mail \in DOMAIN mail
        BY DEF AccountTypeOK, CodeTypeOK, Code
      <4>2. mail \in Seq([user: WithEmail, purpose: Purposes]) /\ Len(mail) <= MaxCodes
        BY DEF AccountTypeOK, CodeTypeOK
      <4> QED BY <4>1, <4>2, AccountAssumption
    <3> QED BY <1>1, <1>7, <1>10, <1>18, <3>1, <3>2, <3>3 DEF KeptCode
  <2> QED BY <2>1, <2>2
<1>20. \A g : ~Spending(g)
  <2>1. ~Doing(r, "spend") /\ ~Doing(r, "setVersion")
    BY <1>1 DEF Doing, Command
  <2> QED BY <1>1, <1>6, <2>1, SpendsOf
<1>21. ASSUME NEW g \in grants
       PROVE  /\ g.mail # n /\ accepted'[g.mail] = 1 /\ g = Grant(g.mail)' /\ resets[g.mail] = 0
  <2>1. accepted[g.mail] = 1 /\ g = Grant(g.mail) /\ resets[g.mail] = 0
    BY <1>20 DEF CalmCodes
  <2>2. g.mail \in 1..MaxCodes
    <3>1. g.mail \in DOMAIN mail
      BY DEF AccountTypeOK, CodeTypeOK, GrantRow
    <3>2. mail \in Seq([user: WithEmail, purpose: Purposes]) /\ Len(mail) <= MaxCodes
      BY DEF AccountTypeOK, CodeTypeOK
    <3> QED BY <3>1, <3>2, AccountAssumption
  <2>3. g.mail # n /\ accepted'[g.mail] = accepted[g.mail]
    BY <1>9, <1>10, <2>1, <2>2
  <2> QED BY <1>1, <2>1, <2>3 DEF Grant
<1>22. \A m \in 1..MaxCodes :
         /\ accepted'[m] <= 1 /\ resets[m] <= accepted'[m]
         /\ accepted'[m] = 1 => tries'[m] <= MaxAttempts
         /\ m > Len(mail) => tries'[m] = 0 /\ accepted'[m] = 0
  <2>1. Len(mail) \in Nat
    BY DEF AccountTypeOK, CodeTypeOK
  <2>2. \A m \in 1..MaxCodes : m # n =>
         /\ accepted'[m] <= 1 /\ resets[m] <= accepted'[m]
         /\ accepted'[m] = 1 => tries'[m] <= MaxAttempts
         /\ m > Len(mail) => tries'[m] = 0 /\ accepted'[m] = 0
    BY <1>10 DEF CalmCodes
  <2>3. /\ accepted'[n] <= 1 /\ resets[n] <= accepted'[n]
        /\ accepted'[n] = 1 => tries'[n] <= MaxAttempts
        /\ ~(n > Len(mail))
    BY <1>4, <1>9, <1>10, <2>1
  <2> QED BY <2>2, <2>3
<1>23. Doing(r, "reset")' =>
         /\ accepted'[Command(r)'.mail] = 1
         /\ resets[Command(r)'.mail] = 0
         /\ \A g \in grants : g.mail # Command(r)'.mail
  BY <1>3, <1>9, <1>10, <1>15, <1>21 DEF CodeHeads
<1> QED BY <1>1, <1>16, <1>17, <1>19, <1>21, <1>22, <1>23 DEF CalmCodes

\* The code of the mail is traded for the one grant of it.
LEMMA CodesGrant ==
  ASSUME AccountTypeOK, AccountTypeOK', InOrder, CalmSessions, CalmCodes, calm, NEW r \in Slots,
         GrantReset(r) \/ SpendGrant(r) \/ VerifyEmail(r) \/ InsertUser(r)
  PROVE  CalmCodes'
<1> PICK more : more = <<>>
  OBVIOUS
<1>1. /\ slots[r] # Idle /\ Proceed(r, more) /\ UNCHANGED <<codes, mail, codeHistory>>
      /\ Command(r).kind \in {"reset", "spend", "verify", "register"}
  BY DEF GrantReset, SpendGrant, VerifyEmail, InsertUser, Doing, Command, AccountCall
<1>2. Alone(r) /\ ~Doing(r, "compare")
  BY <1>1, ServedBefore DEF Doing, Command
<1>3. \A x \in Slots : x # r => slots'[x] = slots[x]
  BY <1>1 DEF Proceed, AccountTypeOK, SessionTypeOK, SlotsTypeOK
<1>4. \A kind \in CodeHeads : ~Doing(r, kind)'
  <2>0. more \in Seq(Commands)' /\ DOMAIN more = {}
    OBVIOUS
  <2>1. Grows
    BY CodeReturns DEF CodeCommand
  <2>2. CodeHeads \subseteq HeadOnly
    BY DEF CodeHeads, HeadOnly
  <2> QED BY <1>1, <2>0, <2>1, <2>2, NextHead
<1>5. ~Doing(r, "compare")' /\ ~Doing(r, "reset")' /\ ~Doing(r, "attempt")'
  BY <1>4 DEF CodeHeads
<1>6. CASE VerifyEmail(r) \/ InsertUser(r)
  <2>1. \A g : ~Spending(g)
    <3>1. ~Doing(r, "spend") /\ ~Doing(r, "setVersion")
      BY <1>6 DEF VerifyEmail, InsertUser, Doing, Command
    <3> QED BY <1>1, <1>2, <3>1, SpendsOf
  <2>2. UNCHANGED grants
    BY <1>6 DEF VerifyEmail, InsertUser
  <2> QED BY <1>1, <1>2, <1>3, <1>5, <2>1, <2>2, CodesUntouched
<1>7. /\ \A x \in Slots, kind \in CodeHeads : ~Doing(x, kind)'
      /\ \A n : ~Comparing(n) /\ ~Comparing(n)'
  BY <1>2, <1>3, <1>4 DEF Alone, Doing, Comparing, CodeHeads
<1>8. \A p \in Purposes, u \in WithEmail : KeptCode(p, u)'
  BY <1>1, <1>7 DEF CalmCodes, KeptCode, codeHistory
<1>9. \A g : Grant(g.mail)' = Grant(g.mail)
  BY <1>1 DEF Grant, codeHistory
<1>10. ASSUME \A g \in grants' : /\ accepted[g.mail] = 1 /\ g = Grant(g.mail)
                                 /\ resets[g.mail] = 0
       PROVE  CalmCodes'
  BY <1>1, <1>7, <1>8, <1>9, <1>10 DEF CalmCodes, CodeHeads, codeHistory
<1>11. CASE GrantReset(r)
  <2> PICK n : n = Command(r).mail
    OBVIOUS
  <2>1. Doing(r, "reset") /\ grants' = grants \cup {Grant(n)}
    BY <1>11 DEF GrantReset
  <2>2. accepted[n] = 1 /\ resets[n] = 0
    BY <2>1 DEF CalmCodes
  <2>3. \A g : ~Spending(g)
    <3>1. ~Doing(r, "spend") /\ ~Doing(r, "setVersion")
      BY <2>1 DEF Doing, Command
    <3> QED BY <1>1, <1>2, <3>1, SpendsOf
  <2>4. Grant(n).mail = n
    BY DEF Grant
  <2>5. \A g \in grants : accepted[g.mail] = 1 /\ g = Grant(g.mail) /\ resets[g.mail] = 0
    BY <2>3 DEF CalmCodes
  <2> QED BY <1>10, <2>1, <2>2, <2>4, <2>5
<1>12. CASE SpendGrant(r)
  <2>1. Doing(r, "spend") /\ grants' = grants \ {Command(r).grant}
    BY <1>12 DEF SpendGrant
  <2>2. \A g : Spending(g) => g = Command(r).grant
    <3>1. ~Doing(r, "setVersion")
      BY <2>1 DEF Doing, Command
    <3> QED BY <1>1, <1>2, <3>1, SpendsOf
  <2>3. \A g \in grants' : accepted[g.mail] = 1 /\ g = Grant(g.mail) /\ resets[g.mail] = 0
    BY <2>1, <2>2 DEF CalmCodes
  <2> QED BY <1>10, <2>3
<1> QED BY <1>6, <1>11, <1>12

\* Codes: every step.
LEMMA CodesKept ==
  ASSUME AccountTypeOK, InOrder, CalmSessions, CalmCodes, AccountNext
  PROVE  CalmCodes'
<1>0. AccountTypeOK'
  BY TypesKept
<1>1. ASSUME NEW r \in Slots, Pass(r) PROVE CalmCodes'
  BY <1>0, <1>1, CodesPass DEF Pass
<1>2. ASSUME NEW r \in Slots, CodeCommand(r) PROVE CalmCodes'
  <2>1. CASE ~calm
    BY <1>2, <2>1, CodeReturns DEF CalmCodes
  <2>2. CASE calm
    BY <1>0, <1>2, <2>2, CodesMail, CodesAttempt, CodesCompare, CodesGrant DEF CodeCommand
  <2> QED BY <2>1, <2>2
<1>3. ASSUME NEW r \in Slots, Opened(r) PROVE CalmCodes'
  BY <1>0, <1>3, CodesOpen DEF Opened
<1>4. ASSUME NEW r \in Slots, NEW u \in Users, Renewed(r, u) PROVE CalmCodes'
  BY <1>0, <1>4, CodesRenew
<1>5. ASSUME Expires PROVE CalmCodes'
  BY <1>5, CodesExpire
<1>6. ASSUME Lapses PROVE CalmCodes'
  <2>1. UNCHANGED <<slots, codeVars>> /\ (calm' => calm)
    BY <1>6, Lapsing DEF Lapses, AccountTypeOK
  <2> QED BY <2>1 DEF CalmCodes, codeVars, codeHistory, KeptCode, Comparing, Spending, Doing, Command, Grant
<1> QED BY <1>1, <1>2, <1>3, <1>4, <1>5, <1>6, Steps

LEMMA InitCodes ==
  ASSUME AccountInit
  PROVE  CalmCodes
<1>1. \A r \in Slots : slots[r] = Idle
  BY DEF AccountInit, Init
<1>2. \A p \in Purposes, u \in WithEmail : codes[p][u] = NoCode
  BY DEF AccountInit
<1>3. \A n \in 1..MaxCodes : tries[n] = 0 /\ accepted[n] = 0 /\ resets[n] = 0
  BY DEF AccountInit
<1> QED BY <1>1, <1>2, <1>3, AccountAssumption DEF AccountInit, CalmCodes, KeptCode, Doing

\* As long as requests are handled one at a time and no command fails, a mailed
\* code stands for one verification, made within MAX_ATTEMPTS tries, or for one
\* new password: the try that accepts a code takes it away, it makes one grant,
\* and the password is not changed again before the grant is gone.
THEOREM CodesAreSpentOnce == AccountSpec => []CodesAreSpent
<1>1. AccountInit => CalmCodes
  BY InitCodes
<1>2. AccountTypeOK /\ InOrder /\ CalmSessions /\ CalmCodes /\ [AccountNext]_accountVars => CalmCodes'
  <2> SUFFICES ASSUME AccountTypeOK, InOrder, CalmSessions, CalmCodes, [AccountNext]_accountVars
               PROVE  CalmCodes'
    OBVIOUS
  <2>1. CASE UNCHANGED accountVars
    BY <2>1, CodesExpire DEF accountVars, codeVars, Expires
  <2> QED BY <2>1, CodesKept
<1>3. CalmCodes => CodesAreSpent
  BY DEF CalmCodes, CodesAreSpent
<1> QED BY <1>1, <1>2, <1>3, AccountTyped, SessionsStayCalm, PTL DEF AccountSpec
=============================================================================
