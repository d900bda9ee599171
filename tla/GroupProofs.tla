----------------------------- MODULE GroupProofs -----------------------------
(***************************************************************************)
(* What a group conversation keeps, for any finite set of users, any       *)
(* number of requests and any limit: a dissolved group does not come back, *)
(* whatever interleaves and fails; and as long as requests are handled one *)
(* at a time and no call fails, the count, the admins and the owner agree  *)
(* with the member rows whenever no request is left.                       *)
(*                                                                         *)
(* GroupInv is the invariant: with one request at a time the tables are    *)
(* Good while it reads, what it has read is Fresh while it decides, and    *)
(* the calls it has still to make lead (Leads, a trace of their Effects)   *)
(* to Good tables while it writes.  Each use case has a lemma that what it *)
(* launches does; OneStep, ThenLeads and FirstStep put its calls together. *)
(***************************************************************************)
EXTENDS Group, FiniteSetTheorems, SequenceTheorems, TLAPS

\* Starting a request on a group needs its item, or that it never had one.
LEMMA UseCaseKeepsDeleted ==
  ASSUME NEW r \in Slots, conv.state = "deleted",
         \/ \E u \in Users, members \in SUBSET Users : CreateGroup(r, u, members)
         \/ \E u \in Users : Begin(r, u)
         \/ Decide(r)
  PROVE  conv' = conv
<1>1. CASE \E u \in Users, members \in SUBSET Users : CreateGroup(r, u, members)
  BY <1>1, Zenon DEF CreateGroup
<1>2. CASE \E u \in Users : Begin(r, u)
  BY <1>2, Zenon DEF Begin
<1>3. CASE Decide(r)
  BY <1>3, Zenon DEF Decide, AddMembers, JoinByInvite, ApproveMember, RejectMember, LeaveAsMember,
       LeaveToHeir, LeaveAuto, HandOver, RemoveMember, BlockMember, UnblockMember,
       TransferOwner, SetAdmin, UpdateSettings, UpdateGroupInfo, DissolveGroup, Refuse, Start, tables
<1> QED BY <1>1, <1>2, <1>3

\* Of the database calls only an update and the deletion write the item, and
\* the update is conditional on the item.
LEMMA CallKeepsDeleted ==
  ASSUME NEW r \in Slots, conv.state = "deleted", DatabaseCall(r)
  PROVE  conv'.state = "deleted"
<1>1. CASE WriteConv(r)
  BY <1>1 DEF WriteConv
<1>2. CASE DropConv(r)
  BY <1>2 DEF DropConv, NoConv
<1>3. CASE UpdateRow(r) \/ InsertRow(r) \/ WriteBlock(r) \/ DropRows(r)
  BY <1>3 DEF UpdateRow, InsertRow, WriteBlock, DropRows
<1>4. CASE UpdateRead(r) \/ DropRead(r) \/ TouchRead(r) \/ TouchPut(r) \/ CallFails(r)
  BY <1>4 DEF UpdateRead, DropRead, TouchRead, TouchPut, CallFails, tables
<1> QED BY <1>1, <1>2, <1>3, <1>4 DEF DatabaseCall

\* A dissolved group stays dissolved, whatever requests were under way when
\* its item was deleted (the conditional update of conversation-repo.ts).
THEOREM DissolvedStaysDissolved == Spec => DissolvedIsFinal
<1>1. [Next]_vars => [conv.state = "deleted" => conv'.state = "deleted"]_vars
  <2> SUFFICES ASSUME Next, conv.state = "deleted"
               PROVE  conv'.state = "deleted"
    OBVIOUS
  <2> PICK r \in Slots :
        \/ \E u \in Users, members \in SUBSET Users : CreateGroup(r, u, members)
        \/ \E u \in Users : Begin(r, u)
        \/ Decide(r)
        \/ DatabaseCall(r)
    BY DEF Next
  <2> QED BY UseCaseKeepsDeleted, CallKeepsDeleted
<1> QED BY <1>1, PTL DEF Spec, DissolvedIsFinal

-----------------------------------------------------------------------------
(* What a request may hold *)

ConvFields ==
  {<<>>} \cup [admins : SUBSET Users] \cup [count : Nat] \cup [settings : SettingsType]
    \cup [admins : SUBSET Users, count : Nat]
    \cup [owner : Users, admins : SUBSET Users]
    \cup [owner : Users, admins : SUBSET Users, count : Nat]
Role == {"OWNER", "ADMIN", "MEMBER"}
Status == {"ACTIVE", "PENDING", "REJECTED"}
RowFields ==
  [role : Role, status : Status, left : BOOLEAN] \cup [role : Role] \cup [status : Status] \cup [left : BOOLEAN]
    \cup [left : BOOLEAN, role : Role] \cup [status : Status, left : BOOLEAN]

\* What a failed addMembers restores may have been a part of a row.
UndoFields == [status : Status \cup {"none"}, left : BOOLEAN]

DbCalls ==
  [kind : {"conv"}, set : ConvFields]
    \cup [kind : {"row", "update"}, user : Users, set : RowFields \cup UndoFields]
    \cup [kind : {"insert"}, user : Users, row : Row]
    \cup [kind : {"block", "unblock"}, user : Users]
    \cup [kind : {"touch", "dropRows", "dropConv"}]
    \cup [kind : {"put"}, rows : UNION {[D -> AnyRow] : D \in SUBSET Users}]
    \cup [kind : {"delete"}, users : SUBSET Users]

Deciders == [pc : {"decide"}, by : Users, conv : ConvType, me : AnyRow]
Writers == [pc : {"write", "undo"}, todo : Seq(DbCalls) \ {<<>>}, undo : Seq(DbCalls)]

Typed ==
  /\ conv \in ConvType
  /\ rows \in [Users -> AnyRow]
  /\ blocked \in SUBSET Users
  /\ slots \in [Slots -> {Idle} \cup Deciders \cup Writers]
  /\ started \in Nat /\ calm \in BOOLEAN

-----------------------------------------------------------------------------
(* What calls that meet no other request and no failure do *)

MemberRows == [Users -> Row \cup {NoRow}]
States == ConvType \X MemberRows
NoRows == [u \in Users |-> NoRow]

\* The call c succeeds in A and leaves B.
Effect(c, A, B) ==
  \/ c.kind = "conv" /\ A[1].state = "live" /\ B = <<Merged(c.set, A[1]), A[2]>>
  \/ c.kind = "row" /\ A[2][c.user] = NoRow /\ B = A
  \/ /\ c.kind = "row" /\ A[2][c.user] # NoRow
     /\ B = <<A[1], [A[2] EXCEPT ![c.user] = Merged(c.set, A[2][c.user])]>>
  \/ c.kind = "update" /\ B = <<A[1], [A[2] EXCEPT ![c.user] = Merged(c.set, A[2][c.user])]>>
  \/ c.kind = "insert" /\ A[2][c.user] = NoRow /\ B = <<A[1], [A[2] EXCEPT ![c.user] = c.row]>>
  \/ c.kind \in {"touch", "block", "unblock"} /\ B = A
  \/ c.kind = "put" /\ B = A /\ \A u \in DOMAIN c.rows : c.rows[u] = A[2][u]
  \/ c.kind = "dropRows" /\ B = <<A[1], NoRows>>
  \/ /\ c.kind = "delete"
     /\ B = <<A[1], [u \in Users |-> IF u \in c.users THEN NoRow ELSE A[2][u]]>>
  \/ c.kind = "dropConv" /\ B = <<[NoConv EXCEPT !.state = "deleted"], A[2]>>

\* The calls of t, one after the other, lead from A to B.
Leads(t, A, B) ==
  \E f \in [0..Len(t) -> States] :
    /\ f[0] = A /\ f[Len(t)] = B
    /\ \A i \in 1..Len(t) : Effect(t[i], f[i - 1], f[i])

\* The members of a group, and what holds of a group between requests.
ActiveIn(m) == {u \in Users : IsActiveMember(m[u])}
Sane(A) ==
  /\ A[1].count = Cardinality(ActiveIn(A[2]))
  /\ \A u \in A[1].admins : u \in ActiveIn(A[2]) /\ A[2][u].role \in {"ADMIN", "OWNER"}
  /\ \A u \in Users : A[2][u].role = "OWNER" => A[1].owner = u
  /\ \A u \in Users : A[2][u].left => A[2][u].status = "ACTIVE"
Good(A) ==
  /\ A \in States
  /\ A[1].state # "live" => A[2] = NoRows
  /\ A[1].state = "live" => Sane(A)

Now == <<conv, rows>>
Fresh(r) == Seen(r) = conv /\ slots[r].me = rows[By(r)] /\ conv.state = "live" /\ Good(Now)

GroupInv ==
  /\ Typed
  /\ calm =>
       /\ \A r, s \in Slots : slots[r] # Idle /\ slots[s] # Idle => r = s
       /\ (\A r \in Slots : slots[r] = Idle) => Good(Now)
       /\ \A r \in Slots : Deciding(r) => Fresh(r)
       /\ \A r \in Slots : IsWriting(r) =>
            slots[r].pc = "write" /\ \E A : Good(A) /\ Leads(slots[r].todo, Now, A)

-----------------------------------------------------------------------------
(* Sequences of calls *)

LEMMA Tails ==
  ASSUME NEW S, NEW t \in Seq(S), t # <<>>
  PROVE  /\ Len(t) \in Nat /\ Len(t) # 0
         /\ Head(t) = t[1] /\ Head(t) \in S
         /\ Tail(t) \in Seq(S) /\ Len(Tail(t)) = Len(t) - 1
         /\ \A i \in 1..Len(t) - 1 : Tail(t)[i] = t[i + 1]
         /\ Len(t) = 1 <=> Tail(t) = <<>>
<1>1. /\ Len(t) \in Nat /\ Len(t) # 0
      /\ Head(t) = t[1] /\ Head(t) \in S
      /\ Tail(t) \in Seq(S) /\ Len(Tail(t)) = Len(t) - 1
      /\ \A i \in 1..Len(t) - 1 : Tail(t)[i] = t[i + 1]
  OBVIOUS
<1>2. \A s \in Seq(S) : s = <<>> <=> Len(s) = 0
  OBVIOUS
<1>3. Len(t) = 1 <=> Tail(t) = <<>>
  BY <1>1, <1>2
<1> QED BY <1>1, <1>3

LEMMA Joins ==
  ASSUME NEW S, NEW s \in Seq(S), NEW t \in Seq(S)
  PROVE  /\ s \o t \in Seq(S) /\ Len(s \o t) = Len(s) + Len(t)
         /\ \A i \in 1..Len(s) : (s \o t)[i] = s[i]
         /\ \A i \in 1..Len(t) : (s \o t)[Len(s) + i] = t[i]
         /\ s # <<>> \/ t # <<>> => s \o t # <<>>
         /\ <<>> \o s = s /\ s \o <<>> = s
<1>1. /\ s \o t \in Seq(S) /\ Len(s \o t) = Len(s) + Len(t)
      /\ \A i \in 1..Len(s) : (s \o t)[i] = s[i]
      /\ \A i \in 1..Len(t) : (s \o t)[Len(s) + i] = t[i]
  OBVIOUS
<1>2. \A u \in Seq(S) : Len(u) \in Nat /\ (u = <<>> <=> Len(u) = 0)
  OBVIOUS
<1>3. <<>> \o s = s /\ s \o <<>> = s
  OBVIOUS
<1>4. s # <<>> \/ t # <<>> => s \o t # <<>>
  BY <1>1, <1>2
<1> QED BY <1>1, <1>3, <1>4

LEMMA OneCall ==
  ASSUME NEW S, NEW c \in S
  PROVE  <<c>> \in Seq(S) /\ <<c>> # <<>> /\ Len(<<c>>) = 1 /\ <<c>>[1] = c
OBVIOUS

\* A sequence of two calls or more is its first call and the rest.
LEMMA Splits ==
  ASSUME NEW S, NEW a \in S, NEW b \in S
  PROVE  /\ <<a, b>> = <<a>> \o <<b>>
         /\ \A c \in S : <<a, b, c>> = <<a>> \o <<b, c>>
         /\ <<a, b>> \in Seq(S) /\ <<a, b>> # <<>>
         /\ \A c \in S : <<a, b, c>> \in Seq(S) /\ <<a, b, c>> # <<>>
<1>1. \A s, t \in Seq(S) : Len(s) = Len(t) /\ (\A i \in 1..Len(s) : s[i] = t[i]) => s = t
  BY SeqEqual
<1>2. \A s, t \in Seq(S) :
         /\ s \o t \in Seq(S)
         /\ Len(s \o t) = Len(s) + Len(t)
         /\ \A i \in 1..Len(s) : (s \o t)[i] = s[i]
         /\ \A i \in 1..Len(t) : (s \o t)[Len(s) + i] = t[i]
  OBVIOUS
<1>3. /\ <<a>> \in Seq(S) /\ Len(<<a>>) = 1 /\ <<a>>[1] = a
      /\ <<b>> \in Seq(S) /\ Len(<<b>>) = 1 /\ <<b>>[1] = b
      /\ <<a, b>> \in Seq(S) /\ Len(<<a, b>>) = 2 /\ <<a, b>>[1] = a /\ <<a, b>>[2] = b
      /\ <<a, b>> # <<>>
  OBVIOUS
<1>4. <<a, b>> = <<a>> \o <<b>>
  <2>1. PICK x : x = <<a>> \o <<b>>
    OBVIOUS
  <2>2. x \in Seq(S) /\ Len(x) = 2 /\ x[1] = a /\ x[2] = b
    BY <1>2, <1>3, <2>1
  <2>3. \A i \in 1..2 : x[i] = <<a, b>>[i]
    BY <1>3, <2>2
  <2> QED BY <1>1, <1>3, <2>1, <2>2, <2>3
<1>5. ASSUME NEW c \in S
      PROVE  <<a, b, c>> = <<a>> \o <<b, c>> /\ <<a, b, c>> \in Seq(S) /\ <<a, b, c>> # <<>>
  <2>1. /\ <<b, c>> \in Seq(S) /\ Len(<<b, c>>) = 2 /\ <<b, c>>[1] = b /\ <<b, c>>[2] = c
        /\ <<a, b, c>> \in Seq(S) /\ Len(<<a, b, c>>) = 3
        /\ <<a, b, c>>[1] = a /\ <<a, b, c>>[2] = b /\ <<a, b, c>>[3] = c
        /\ <<a, b, c>> # <<>>
    OBVIOUS
  <2>2. PICK x : x = <<a>> \o <<b, c>>
    OBVIOUS
  <2>3. x \in Seq(S) /\ Len(x) = 3 /\ x[1] = a /\ x[2] = b /\ x[3] = c
    BY <1>2, <1>3, <2>1, <2>2
  <2>4. \A i \in 1..3 : x[i] = <<a, b, c>>[i]
    BY <2>1, <2>3
  <2> QED BY <1>1, <2>1, <2>2, <2>3, <2>4
<1> QED BY <1>3, <1>4, <1>5

LEMMA NothingToDo ==
  /\ \A A \in States : Leads(<<>>, A, A)
  /\ \A A, B : Leads(<<>>, A, B) => A = B /\ A \in States
<1>1. Len(<<>>) = 0
  OBVIOUS
<1>2. ASSUME NEW A \in States
      PROVE  Leads(<<>>, A, A)
  <2>1. PICK f : f = [i \in 0..0 |-> A]
    OBVIOUS
  <2>2. f \in [0..0 -> States] /\ f[0] = A
    BY <2>1
  <2> QED BY <1>1, <2>2 DEF Leads
<1>3. ASSUME NEW A, NEW B, Leads(<<>>, A, B)
      PROVE  A = B /\ A \in States
  <2>1. PICK f \in [0..0 -> States] : f[0] = A /\ f[0] = B
    BY <1>1, <1>3 DEF Leads
  <2> QED BY <2>1
<1> QED BY <1>2, <1>3

LEMMA LeadsFrom ==
  ASSUME NEW t \in Seq(DbCalls), NEW A, NEW B, Leads(t, A, B)
  PROVE  A \in States /\ B \in States
<1>1. PICK f \in [0..Len(t) -> States] : f[0] = A /\ f[Len(t)] = B
  BY DEF Leads
<1>2. Len(t) \in Nat
  OBVIOUS
<1> QED BY <1>1, <1>2

LEMMA OneStep ==
  ASSUME NEW c \in DbCalls, NEW A \in States, NEW B \in States, Effect(c, A, B)
  PROVE  Leads(<<c>>, A, B)
<1>1. PICK f : f = [i \in 0..1 |-> IF i = 0 THEN A ELSE B]
  OBVIOUS
<1>2. f \in [0..1 -> States] /\ f[0] = A /\ f[1] = B
  BY <1>1
<1>3. Len(<<c>>) = 1 /\ <<c>>[1] = c
  OBVIOUS
<1>4. \A i \in 1..1 : Effect(<<c>>[i], f[i - 1], f[i])
  BY <1>2, <1>3
<1> QED BY <1>2, <1>3, <1>4 DEF Leads

\* The first call succeeds, and the others lead on.
LEMMA FirstStep ==
  ASSUME NEW t \in Seq(DbCalls), t # <<>>, NEW A, NEW C, Leads(t, A, C)
  PROVE  \E B \in States : Effect(Head(t), A, B) /\ Leads(Tail(t), B, C)
<1>1. PICK f \in [0..Len(t) -> States] :
        /\ f[0] = A /\ f[Len(t)] = C
        /\ \A i \in 1..Len(t) : Effect(t[i], f[i - 1], f[i])
  BY DEF Leads
<1>2. PICK n : n = Len(t)
  OBVIOUS
<1>3. /\ n \in Nat /\ n # 0 /\ Head(t) = t[1] /\ Len(Tail(t)) = n - 1
      /\ \A i \in 1..n - 1 : Tail(t)[i] = t[i + 1]
  BY <1>2, Tails
<1>4. PICK g : g = [i \in 0..n - 1 |-> f[i + 1]]
  OBVIOUS
<1>5. g \in [0..n - 1 -> States] /\ g[0] = f[1] /\ g[n - 1] = C
  BY <1>1, <1>2, <1>3, <1>4
<1>6. ASSUME NEW i \in 1..n - 1
      PROVE  Effect(Tail(t)[i], g[i - 1], g[i])
  <2>1. i + 1 \in 1..n /\ i - 1 \in 0..n - 1 /\ i \in 0..n - 1 /\ (i - 1) + 1 = i /\ (i + 1) - 1 = i
    BY <1>3
  <2>2. Effect(t[i + 1], f[i], f[i + 1])
    BY <1>1, <1>2, <2>1
  <2>3. g[i - 1] = f[i] /\ g[i] = f[i + 1] /\ Tail(t)[i] = t[i + 1]
    BY <1>3, <1>4, <2>1
  <2> QED BY <2>2, <2>3
<1>7. Effect(t[1], f[0], f[1])
  BY <1>1, <1>2, <1>3
<1>8. Leads(Tail(t), f[1], C)
  BY <1>3, <1>5, <1>6 DEF Leads
<1>9. f[1] \in States
  BY <1>1, <1>2, <1>3
<1> QED BY <1>1, <1>3, <1>7, <1>8, <1>9

\* Calls that lead on from where other calls have led.
LEMMA ThenLeads ==
  ASSUME NEW s \in Seq(DbCalls), NEW t \in Seq(DbCalls), NEW A, NEW B, NEW C,
         Leads(s, A, B), Leads(t, B, C)
  PROVE  Leads(s \o t, A, C)
<1>1. PICK f \in [0..Len(s) -> States] :
        /\ f[0] = A /\ f[Len(s)] = B
        /\ \A i \in 1..Len(s) : Effect(s[i], f[i - 1], f[i])
  BY DEF Leads
<1>2. PICK g \in [0..Len(t) -> States] :
        /\ g[0] = B /\ g[Len(t)] = C
        /\ \A i \in 1..Len(t) : Effect(t[i], g[i - 1], g[i])
  BY DEF Leads
<1>3. PICK m : m = Len(s)
  OBVIOUS
<1>4. PICK n : n = Len(t)
  OBVIOUS
<1>5. PICK u : u = s \o t
  OBVIOUS
<1>6. /\ m \in Nat /\ n \in Nat /\ Len(u) = m + n
      /\ \A i \in 1..m : u[i] = s[i]
      /\ \A i \in 1..n : u[m + i] = t[i]
  BY <1>3, <1>4, <1>5, Joins
<1>7. PICK h : h = [i \in 0..m + n |-> IF i <= m THEN f[i] ELSE g[i - m]]
  OBVIOUS
<1>8. /\ \A i \in 0..m : h[i] = f[i]
      /\ \A i \in 0..n : h[m + i] = g[i]
  <2>1. \A i \in 0..m : h[i] = f[i]
    BY <1>6, <1>7
  <2>2. ASSUME NEW i \in 0..n PROVE h[m + i] = g[i]
    <3>1. CASE i = 0
      <4>1. h[m + 0] = f[m]
        BY <1>6, <2>1
      <4> QED BY <1>1, <1>2, <1>3, <3>1, <4>1
    <3>2. CASE i # 0
      <4>1. m + i \in 0..m + n /\ ~(m + i <= m) /\ (m + i) - m = i
        BY <1>6, <3>2
      <4> QED BY <1>7, <4>1
    <3> QED BY <3>1, <3>2
  <2> QED BY <2>1, <2>2
<1>9. h \in [0..m + n -> States]
  <2>1. ASSUME NEW i \in 0..m + n
        PROVE  (IF i <= m THEN f[i] ELSE g[i - m]) \in States
    <3>1. CASE i <= m
      BY <1>1, <1>3, <1>6, <3>1
    <3>2. CASE ~(i <= m)
      <4>1. i - m \in 0..n
        BY <1>6, <3>2
      <4> QED BY <1>2, <1>4, <3>2, <4>1
    <3> QED BY <3>1, <3>2
  <2> QED BY <1>7, <2>1
<1>10. ASSUME NEW i \in 1..m + n
       PROVE  Effect(u[i], h[i - 1], h[i])
  <2>1. CASE i <= m
    <3>1. i \in 1..m /\ i - 1 \in 0..m /\ i \in 0..m
      BY <1>6, <2>1
    <3> QED BY <1>1, <1>3, <1>6, <1>8, <3>1
  <2>2. CASE ~(i <= m)
    <3>1. PICK j : j = i - m
      OBVIOUS
    <3>2. j \in 1..n /\ j - 1 \in 0..n /\ j \in 0..n /\ m + j = i /\ m + (j - 1) = i - 1
      BY <1>6, <2>2, <3>1
    <3>3. u[i] = t[j] /\ h[i] = g[j] /\ h[i - 1] = g[j - 1]
      BY <1>6, <1>8, <3>2
    <3> QED BY <1>2, <1>4, <3>2, <3>3
  <2> QED BY <2>1, <2>2
<1>11. h[0] = A /\ h[m + n] = C
  <2>1. 0 \in 0..m /\ n \in 0..n
    BY <1>6
  <2> QED BY <1>1, <1>2, <1>4, <1>8, <2>1
<1>12. Leads(u, A, C)
  BY <1>6, <1>9, <1>10, <1>11 DEF Leads
<1> QED BY <1>5, <1>12

-----------------------------------------------------------------------------
(* What an update writes *)

LEMMA ConvUpdate ==
  ASSUME NEW c \in ConvType, NEW f
  PROVE  /\ DOMAIN Merged(f, c) = {"state", "owner", "admins", "count", "settings"}
         /\ Merged(f, c) = [state |-> Merged(f, c).state, owner |-> Merged(f, c).owner,
                            admins |-> Merged(f, c).admins, count |-> Merged(f, c).count,
                            settings |-> Merged(f, c).settings]
         /\ \A x \in {"state", "owner", "admins", "count", "settings"} :
              Merged(f, c)[x] = IF x \in DOMAIN f THEN f[x] ELSE c[x]
<1>1. DOMAIN c = {"state", "owner", "admins", "count", "settings"}
  BY DEF ConvType
<1>2. Merged(f, c) = [x \in {"state", "owner", "admins", "count", "settings"} |->
                        IF x \in DOMAIN f THEN f[x] ELSE c[x]]
  BY <1>1 DEF Merged
<1> QED BY <1>2

\* An update keeps the type of the item and its state.
LEMMA ConvStays ==
  ASSUME NEW c \in ConvType, NEW f \in ConvFields
  PROVE  Merged(f, c) \in ConvType /\ Merged(f, c).state = c.state
<1>1. PICK d : d = Merged(f, c)
  OBVIOUS
<1>2. /\ d = [state |-> d.state, owner |-> d.owner, admins |-> d.admins, count |-> d.count,
              settings |-> d.settings]
      /\ \A x \in {"state", "owner", "admins", "count", "settings"} :
           d[x] = IF x \in DOMAIN f THEN f[x] ELSE c[x]
  BY <1>1, ConvUpdate
<1>3. /\ c.state \in {"none", "live", "deleted"} /\ c.owner \in Users \cup {0}
      /\ c.admins \in SUBSET Users /\ c.count \in Nat /\ c.settings \in SettingsType
  BY DEF ConvType
<1>4. /\ "state" \notin DOMAIN f
      /\ "owner" \in DOMAIN f => f.owner \in Users
      /\ "admins" \in DOMAIN f => f.admins \in SUBSET Users
      /\ "count" \in DOMAIN f => f.count \in Nat
      /\ "settings" \in DOMAIN f => f.settings \in SettingsType
  BY DEF ConvFields
<1>5. /\ d.state = c.state /\ d.owner \in Users \cup {0} /\ d.admins \in SUBSET Users
      /\ d.count \in Nat /\ d.settings \in SettingsType
  BY <1>2, <1>3, <1>4
<1>6. d \in ConvType
  BY <1>2, <1>3, <1>5 DEF ConvType
<1> QED BY <1>1, <1>5, <1>6

LEMMA RowUpdate ==
  ASSUME NEW x \in AnyRow, NEW f
  PROVE  /\ Merged(f, x) = [role |-> Merged(f, x).role, status |-> Merged(f, x).status,
                            left |-> Merged(f, x).left, id |-> Merged(f, x).id]
         /\ \A y \in {"role", "status", "left", "id"} :
              Merged(f, x)[y] = IF y \in DOMAIN f THEN f[y] ELSE x[y]
<1>1. DOMAIN x = {"role", "status", "left", "id"}
  BY DEF AnyRow
<1>2. Merged(f, x) =
        [y \in {"role", "status", "left", "id"} |-> IF y \in DOMAIN f THEN f[y] ELSE x[y]]
  BY <1>1 DEF Merged
<1> QED BY <1>2

\* A stored row is one, and none of them is the absent one.
LEMMA RowIsThere ==
  /\ Row \subseteq AnyRow /\ NoRow \in AnyRow /\ NoRow \notin Row
  /\ \A x \in Row : x.id
  /\ ~NoRow.id
BY DEF NoRow, Row, AnyRow

\* An update keeps the type of the row.
LEMMA RowStays ==
  ASSUME NEW x \in Row, NEW f \in RowFields
  PROVE  Merged(f, x) \in Row
<1>1. PICK d : d = Merged(f, x)
  OBVIOUS
<1>2. /\ d = [role |-> d.role, status |-> d.status, left |-> d.left, id |-> d.id]
      /\ \A y \in {"role", "status", "left", "id"} : d[y] = IF y \in DOMAIN f THEN f[y] ELSE x[y]
  BY <1>1, RowUpdate, RowIsThere
<1>3. x.role \in Role /\ x.status \in Status /\ x.left \in BOOLEAN /\ x.id = TRUE
  BY DEF Row, Role, Status
<1>4. /\ "role" \in DOMAIN f => f.role \in Role
      /\ "status" \in DOMAIN f => f.status \in Status
      /\ "left" \in DOMAIN f => f.left \in BOOLEAN
      /\ "id" \notin DOMAIN f
  BY DEF RowFields, Role, Status
<1>5. d.role \in Role /\ d.status \in Status /\ d.left \in BOOLEAN /\ d.id = TRUE
  BY <1>2, <1>3, <1>4
<1>6. d \in Row
  BY <1>2, <1>5 DEF Row, Role, Status
<1> QED BY <1>1, <1>6

\* An update makes a part of a row at least.
LEMMA AnyRowStays ==
  ASSUME NEW x \in AnyRow, NEW f \in RowFields \cup UndoFields
  PROVE  Merged(f, x) \in AnyRow
<1>1. PICK d : d = Merged(f, x)
  OBVIOUS
<1>2. /\ d = [role |-> d.role, status |-> d.status, left |-> d.left, id |-> d.id]
      /\ \A y \in {"role", "status", "left", "id"} : d[y] = IF y \in DOMAIN f THEN f[y] ELSE x[y]
  BY <1>1, RowUpdate, RowIsThere
<1>3. /\ x.role \in Role \cup {"none"} /\ x.status \in Status \cup {"none"}
      /\ x.left \in BOOLEAN /\ x.id \in BOOLEAN
  BY DEF AnyRow, Role, Status
<1>4. /\ "role" \in DOMAIN f => f.role \in Role
      /\ "status" \in DOMAIN f => f.status \in Status \cup {"none"}
      /\ "left" \in DOMAIN f => f.left \in BOOLEAN
      /\ "id" \notin DOMAIN f
  BY DEF RowFields, UndoFields, Role, Status
<1>5. /\ d.role \in Role \cup {"none"} /\ d.status \in Status \cup {"none"}
      /\ d.left \in BOOLEAN /\ d.id \in BOOLEAN
  BY <1>2, <1>3, <1>4
<1>6. d \in AnyRow
  BY <1>2, <1>5 DEF AnyRow, Role, Status
<1> QED BY <1>1, <1>6

-----------------------------------------------------------------------------
(* The calls of the use cases *)

LEMMA FieldTypes ==
  /\ <<>> \in ConvFields
  /\ \A a \in SUBSET Users : [admins |-> a] \in ConvFields
  /\ \A n \in Nat : [count |-> n] \in ConvFields
  /\ \A s \in SettingsType : [settings |-> s] \in ConvFields
  /\ \A a \in SUBSET Users, n \in Nat : [admins |-> a, count |-> n] \in ConvFields
  /\ \A u \in Users, a \in SUBSET Users : [owner |-> u, admins |-> a] \in ConvFields
  /\ \A u \in Users, a \in SUBSET Users, n \in Nat :
       [owner |-> u, admins |-> a, count |-> n] \in ConvFields
  /\ [role : Role, status : Status, left : BOOLEAN] \subseteq RowFields
  /\ \A o \in Role : [role |-> o] \in RowFields
  /\ \A s \in Status : [status |-> s] \in RowFields
  /\ \A b \in BOOLEAN : [left |-> b] \in RowFields
  /\ \A b \in BOOLEAN, o \in Role : [left |-> b, role |-> o] \in RowFields
  /\ \A s \in Status, b \in BOOLEAN : [status |-> s, left |-> b] \in RowFields
BY DEF ConvFields, RowFields

LEMMA CallTypes ==
  /\ \A f \in ConvFields : SetConv(f) \in DbCalls
  /\ \A u \in Users, f \in RowFields \cup UndoFields :
       /\ SetRow(u, f) \in DbCalls
       /\ [kind |-> "update", user |-> u, set |-> f] \in DbCalls
  /\ \A u \in Users, x \in Row : Insert(u, x) \in DbCalls
  /\ \A u \in Users : Block(u) \in DbCalls /\ Unblock(u) \in DbCalls
  /\ [kind |-> "touch"] \in DbCalls
  /\ [kind |-> "dropRows"] \in DbCalls /\ [kind |-> "dropConv"] \in DbCalls
  /\ \A D \in SUBSET Users : [kind |-> "delete", users |-> D] \in DbCalls
BY DEF DbCalls, SetConv, SetRow, Insert, Block, Unblock

LEMMA ConvLeads ==
  ASSUME NEW c \in ConvType, NEW m \in MemberRows, NEW f \in ConvFields, c.state = "live"
  PROVE  Leads(<<SetConv(f)>>, <<c, m>>, <<Merged(f, c), m>>)
<1>1. SetConv(f) \in DbCalls /\ Merged(f, c) \in ConvType
  BY CallTypes, ConvStays
<1>2. <<c, m>> \in States /\ <<Merged(f, c), m>> \in States
  BY <1>1 DEF States
<1>3. Effect(SetConv(f), <<c, m>>, <<Merged(f, c), m>>)
  BY DEF Effect, SetConv
<1> QED BY <1>1, <1>2, <1>3, OneStep

LEMMA RowLeads ==
  ASSUME NEW c \in ConvType, NEW m \in MemberRows, NEW u \in Users, NEW f \in RowFields,
         m[u] # NoRow
  PROVE  /\ Merged(f, m[u]) \in Row
         /\ [m EXCEPT ![u] = Merged(f, m[u])] \in MemberRows
         /\ Leads(<<SetRow(u, f)>>, <<c, m>>, <<c, [m EXCEPT ![u] = Merged(f, m[u])]>>)
<1>1. SetRow(u, f) \in DbCalls /\ Merged(f, m[u]) \in Row
  BY CallTypes, RowStays DEF MemberRows
<1>2. PICK n : n = [m EXCEPT ![u] = Merged(f, m[u])]
  OBVIOUS
<1>3. n \in MemberRows
  BY <1>1, <1>2 DEF MemberRows
<1>4. <<c, m>> \in States /\ <<c, n>> \in States
  BY <1>3 DEF States
<1>5. Effect(SetRow(u, f), <<c, m>>, <<c, n>>)
  BY <1>2 DEF Effect, SetRow
<1> QED BY <1>1, <1>2, <1>3, <1>4, <1>5, OneStep

LEMMA InsertLeads ==
  ASSUME NEW c \in ConvType, NEW m \in MemberRows, NEW u \in Users, NEW x \in Row, m[u] = NoRow
  PROVE  /\ [m EXCEPT ![u] = x] \in MemberRows
         /\ Leads(<<Insert(u, x)>>, <<c, m>>, <<c, [m EXCEPT ![u] = x]>>)
<1>1. Insert(u, x) \in DbCalls
  BY CallTypes
<1>2. PICK n : n = [m EXCEPT ![u] = x]
  OBVIOUS
<1>3. n \in MemberRows
  BY <1>2 DEF MemberRows
<1>4. <<c, m>> \in States /\ <<c, n>> \in States
  BY <1>3 DEF States
<1>5. Effect(Insert(u, x), <<c, m>>, <<c, n>>)
  BY <1>2 DEF Effect, Insert
<1> QED BY <1>1, <1>2, <1>3, <1>4, <1>5, OneStep

\* The block list is not part of what a group must keep between requests.
LEMMA BlockLeads ==
  ASSUME NEW A \in States, NEW u \in Users
  PROVE  Leads(<<Block(u)>>, A, A) /\ Leads(<<Unblock(u)>>, A, A)
<1>1. Effect(Block(u), A, A) /\ Effect(Unblock(u), A, A)
  BY DEF Effect, Block, Unblock
<1> QED BY <1>1, CallTypes, OneStep

LEMMA AnnounceTypes == Announce \in Seq(DbCalls) /\ Announce # <<>>
<1>1. SetConv(<<>>) \in DbCalls /\ [kind |-> "touch"] \in DbCalls
  BY CallTypes, FieldTypes
<1> QED BY <1>1, Splits DEF Announce

\* The update of a system message changes nothing that the item must keep.
LEMMA NothingMerged ==
  ASSUME NEW c \in ConvType
  PROVE  Merged(<<>>, c) = c
<1>1. DOMAIN <<>> = {}
  OBVIOUS
<1>2. c = [state |-> c.state, owner |-> c.owner, admins |-> c.admins, count |-> c.count,
           settings |-> c.settings]
  BY DEF ConvType
<1> QED BY <1>1, <1>2, ConvUpdate

LEMMA AnnounceLeads ==
  ASSUME NEW c \in ConvType, NEW m \in MemberRows, c.state = "live"
  PROVE  Leads(Announce, <<c, m>>, <<c, m>>)
<1>1. SetConv(<<>>) \in DbCalls /\ [kind |-> "touch"] \in DbCalls /\ <<c, m>> \in States
  BY CallTypes, FieldTypes DEF States
<1>2. Leads(<<SetConv(<<>>)>>, <<c, m>>, <<c, m>>)
  BY FieldTypes, ConvLeads, NothingMerged
<1>3. Effect([kind |-> "touch"], <<c, m>>, <<c, m>>)
  BY DEF Effect
<1>4. Leads(<<[kind |-> "touch"]>>, <<c, m>>, <<c, m>>)
  BY <1>1, <1>3, OneStep
<1>5. Announce = <<SetConv(<<>>)>> \o <<[kind |-> "touch"]>>
  BY <1>1, Splits DEF Announce
<1> QED BY <1>1, <1>2, <1>4, <1>5, OneCall, ThenLeads

-----------------------------------------------------------------------------
(* Counting the members *)

LEMMA MembersAreFinite ==
  ASSUME NEW m
  PROVE  IsFiniteSet(ActiveIn(m)) /\ Cardinality(ActiveIn(m)) \in Nat
<1>1. ActiveIn(m) \in SUBSET Users /\ IsFiniteSet(Users)
  BY GroupAssumption DEF ActiveIn
<1>2. IsFiniteSet(ActiveIn(m))
  BY <1>1, FS_Subset
<1> QED BY <1>2, FS_CardinalityType

\* A change of one row adds that member, removes it or keeps the count.
LEMMA OneRowCounts ==
  ASSUME NEW m \in MemberRows, NEW u \in Users, NEW x \in Row
  PROVE  LET n == [m EXCEPT ![u] = x] IN
         /\ IsActiveMember(m[u]) <=> IsActiveMember(x)
              => Cardinality(ActiveIn(n)) = Cardinality(ActiveIn(m))
         /\ ~IsActiveMember(m[u]) /\ IsActiveMember(x)
              => Cardinality(ActiveIn(n)) = Cardinality(ActiveIn(m)) + 1
         /\ IsActiveMember(m[u]) /\ ~IsActiveMember(x)
              => Cardinality(ActiveIn(n)) = OneLess(Cardinality(ActiveIn(m)))
<1>1. PICK n : n = [m EXCEPT ![u] = x]
  OBVIOUS
<1>2. n[u] = x /\ \A v \in Users : v # u => n[v] = m[v]
  BY <1>1 DEF MemberRows
<1>3. IsFiniteSet(ActiveIn(m)) /\ Cardinality(ActiveIn(m)) \in Nat
  BY MembersAreFinite
<1>4. CASE IsActiveMember(m[u]) <=> IsActiveMember(x)
  <2>1. \A v \in Users : IsActiveMember(n[v]) <=> IsActiveMember(m[v])
    BY <1>2, <1>4
  <2>2. ActiveIn(n) = ActiveIn(m)
    BY <2>1 DEF ActiveIn
  <2> QED BY <1>1, <1>4, <2>2
<1>5. CASE ~IsActiveMember(m[u]) /\ IsActiveMember(x)
  <2>1. u \notin ActiveIn(m)
    BY <1>5 DEF ActiveIn
  <2>2. \A v \in Users : IsActiveMember(n[v]) <=> IsActiveMember(m[v]) \/ v = u
    BY <1>2, <1>5
  <2>3. ActiveIn(n) = ActiveIn(m) \cup {u}
    BY <2>2 DEF ActiveIn
  <2>4. Cardinality(ActiveIn(m) \cup {u}) = Cardinality(ActiveIn(m)) + 1
    BY <1>3, <2>1, FS_AddElement
  <2> QED BY <1>1, <1>5, <2>3, <2>4
<1>6. CASE IsActiveMember(m[u]) /\ ~IsActiveMember(x)
  <2>1. u \in ActiveIn(m)
    BY <1>6 DEF ActiveIn
  <2>2. \A v \in Users : IsActiveMember(n[v]) <=> IsActiveMember(m[v]) /\ v # u
    BY <1>2, <1>6
  <2>3. ActiveIn(n) = ActiveIn(m) \ {u}
    BY <2>2 DEF ActiveIn
  <2>4. Cardinality(ActiveIn(m) \ {u}) = Cardinality(ActiveIn(m)) - 1
    BY <1>3, <2>1, FS_RemoveElement
  <2>5. Cardinality(ActiveIn(m)) # 0
    BY <1>3, <2>1, FS_EmptySet
  <2> QED BY <1>1, <1>3, <1>6, <2>3, <2>4, <2>5 DEF OneLess
<1> QED BY <1>1, <1>4, <1>5, <1>6

\* A row and the fields of the item that go with it: what a use case may
\* change at once.
Counted(x, y, count, n) ==
  /\ (IsActiveMember(x) <=> IsActiveMember(y)) => n = count
  /\ ~IsActiveMember(x) /\ IsActiveMember(y) => n = count + 1
  /\ IsActiveMember(x) /\ ~IsActiveMember(y) => n = OneLess(count)

LEMMA OneRowIsGood ==
  ASSUME NEW c \in ConvType, NEW m \in MemberRows, Sane(<<c, m>>),
         NEW u \in Users, NEW x \in Row, NEW d \in ConvType, d.state = "live",
         Counted(m[u], x, c.count, d.count),
         x.left => x.status = "ACTIVE",
         x.role = "OWNER" => d.owner = u,
         \A v \in Users : v # u /\ m[v].role = "OWNER" => d.owner = v,
         \A v \in d.admins : v # u => v \in c.admins,
         u \in d.admins => IsActiveMember(x) /\ x.role \in {"ADMIN", "OWNER"}
  PROVE  /\ [m EXCEPT ![u] = x] \in MemberRows
         /\ Good(<<d, [m EXCEPT ![u] = x]>>)
<1>1. PICK n : n = [m EXCEPT ![u] = x]
  OBVIOUS
<1>2. n \in MemberRows /\ n[u] = x /\ \A v \in Users : v # u => n[v] = m[v]
  BY <1>1 DEF MemberRows
<1>3. /\ c.count = Cardinality(ActiveIn(m))
      /\ \A v \in c.admins : v \in ActiveIn(m) /\ m[v].role \in {"ADMIN", "OWNER"}
      /\ \A v \in Users : m[v].left => m[v].status = "ACTIVE"
  BY DEF Sane
<1>4. d.count = Cardinality(ActiveIn(n))
  BY <1>1, <1>3, OneRowCounts DEF Counted
<1>5. ASSUME NEW v \in d.admins
      PROVE  v \in ActiveIn(n) /\ n[v].role \in {"ADMIN", "OWNER"}
  <2>1. v \in Users
    BY DEF ConvType
  <2>2. CASE v = u
    BY <1>2, <2>1, <2>2 DEF ActiveIn
  <2>3. CASE v # u
    BY <1>2, <1>3, <2>1, <2>3 DEF ActiveIn
  <2> QED BY <2>2, <2>3
<1>6. \A v \in Users : n[v].role = "OWNER" => d.owner = v
  BY <1>2
<1>7. \A v \in Users : n[v].left => n[v].status = "ACTIVE"
  BY <1>2, <1>3
<1>8. Good(<<d, n>>)
  BY <1>2, <1>4, <1>5, <1>6, <1>7 DEF Good, Sane, States
<1> QED BY <1>1, <1>2, <1>8

\* Settings are not part of it, and an admin fewer does no harm.
LEMMA SameRowsAreGood ==
  ASSUME NEW c \in ConvType, NEW m \in MemberRows, Sane(<<c, m>>), NEW d \in ConvType,
         d.state = "live", d.owner = c.owner, d.admins \subseteq c.admins, d.count = c.count
  PROVE  Good(<<d, m>>)
<1>1. /\ c.count = Cardinality(ActiveIn(m))
      /\ \A v \in c.admins : v \in ActiveIn(m) /\ m[v].role \in {"ADMIN", "OWNER"}
      /\ \A v \in Users : m[v].role = "OWNER" => c.owner = v
      /\ \A v \in Users : m[v].left => m[v].status = "ACTIVE"
  BY DEF Sane
<1>2. Sane(<<d, m>>)
  BY <1>1 DEF Sane
<1> QED BY <1>2 DEF Good, States

-----------------------------------------------------------------------------
(* The use cases.  Each writes calls of the right types; when what it has   *)
(* read still holds, the calls lead to a group that is good again.          *)

Launches(r) ==
  \E todo, undo \in Seq(DbCalls) :
    /\ todo # <<>>
    /\ Start(r, todo, undo)
    /\ Fresh(r) => \E A : Good(A) /\ Leads(todo, Now, A)

LEMMA Reads ==
  ASSUME Typed, NEW r \in Slots, Deciding(r)
  PROVE  /\ conv \in ConvType /\ rows \in [Users -> AnyRow]
         /\ By(r) \in Users /\ Seen(r) \in ConvType /\ slots[r].me \in AnyRow
         /\ Seen(r).count \in Nat /\ Seen(r).admins \in SUBSET Users
         /\ OneLess(Seen(r).count) \in Nat
<1>1. slots[r] \in Deciders
  BY DEF Typed, Deciding, Idle, Writers
<1>2. Seen(r) \in ConvType /\ By(r) \in Users /\ slots[r].me \in AnyRow
  BY <1>1 DEF Deciders, Seen, By
<1>3. Seen(r).count \in Nat /\ Seen(r).admins \in SUBSET Users
  BY <1>2 DEF ConvType
<1> QED BY <1>2, <1>3 DEF Typed, OneLess

\* What holds when a request decides and nothing has happened since it read.
LEMMA FreshMeans ==
  ASSUME Typed, NEW r \in Slots, Deciding(r), Fresh(r)
  PROVE  /\ Now = <<conv, rows>> /\ Seen(r) = conv /\ slots[r].me = rows[By(r)]
         /\ conv.state = "live" /\ Sane(<<conv, rows>>)
         /\ conv \in ConvType /\ rows \in MemberRows
         /\ \A u \in conv.admins : /\ u \in Users /\ IsActiveMember(rows[u])
                                   /\ rows[u].role \in {"ADMIN", "OWNER"}
         /\ \A u \in Users : rows[u].role = "OWNER" => conv.owner = u
         /\ \A u \in Users : rows[u].left => rows[u].status = "ACTIVE"
<1>1. /\ Now = <<conv, rows>> /\ Seen(r) = conv /\ slots[r].me = rows[By(r)]
      /\ conv.state = "live" /\ Sane(<<conv, rows>>) /\ rows \in MemberRows
  BY DEF Fresh, Now, Good, States
<1>2. /\ \A u \in conv.admins : /\ u \in Users /\ IsActiveMember(rows[u])
                                /\ rows[u].role \in {"ADMIN", "OWNER"}
      /\ \A u \in Users : rows[u].role = "OWNER" => conv.owner = u
      /\ \A u \in Users : rows[u].left => rows[u].status = "ACTIVE"
  BY <1>1 DEF Sane, ActiveIn
<1> QED BY <1>1, <1>2, Reads

LEMMA ActiveIsThere ==
  ASSUME NEW m \in MemberRows, NEW u \in Users, m[u].status \in {"ACTIVE", "PENDING", "REJECTED"}
  PROVE  m[u] # NoRow /\ m[u] \in Row
BY DEF MemberRows, NoRow

\* What a use case writes about u fits together.
Fits(c, m, u, x, d) ==
  /\ Counted(m[u], x, c.count, d.count)
  /\ x.left => x.status = "ACTIVE"
  /\ x.role = "OWNER" => d.owner = u
  /\ \A v \in Users : v # u /\ m[v].role = "OWNER" => d.owner = v
  /\ \A v \in d.admins : v # u => v \in c.admins
  /\ u \in d.admins => IsActiveMember(x) /\ x.role \in {"ADMIN", "OWNER"}

LEMMA FitsIsGood ==
  ASSUME NEW c \in ConvType, NEW m \in MemberRows, Sane(<<c, m>>), NEW u \in Users,
         NEW x \in Row, NEW d \in ConvType, d.state = "live", Fits(c, m, u, x, d)
  PROVE  Good(<<d, [m EXCEPT ![u] = x]>>)
BY OneRowIsGood DEF Fits

LEMMA RowThenConv ==
  ASSUME NEW c \in ConvType, NEW m \in MemberRows, c.state = "live", NEW u \in Users,
         NEW f \in RowFields, m[u] # NoRow, NEW g \in ConvFields
  PROVE  /\ [m EXCEPT ![u] = Merged(f, m[u])] \in MemberRows
         /\ Leads(<<SetRow(u, f), SetConv(g)>>, <<c, m>>,
                  <<Merged(g, c), [m EXCEPT ![u] = Merged(f, m[u])]>>)
<1>1. PICK n : n = [m EXCEPT ![u] = Merged(f, m[u])]
  OBVIOUS
<1>2. n \in MemberRows /\ Leads(<<SetRow(u, f)>>, <<c, m>>, <<c, n>>)
  BY <1>1, RowLeads
<1>3. Leads(<<SetConv(g)>>, <<c, n>>, <<Merged(g, c), n>>)
  BY <1>2, ConvLeads
<1>4. SetRow(u, f) \in DbCalls /\ SetConv(g) \in DbCalls
  BY CallTypes
<1>5. <<SetRow(u, f), SetConv(g)>> = <<SetRow(u, f)>> \o <<SetConv(g)>>
  BY <1>4, Splits
<1>6. <<SetRow(u, f)>> \in Seq(DbCalls) /\ <<SetConv(g)>> \in Seq(DbCalls)
  BY <1>4, OneCall
<1>7. Leads(<<SetRow(u, f)>> \o <<SetConv(g)>>, <<c, m>>, <<Merged(g, c), n>>)
  BY <1>2, <1>3, <1>6, ThenLeads
<1> QED BY <1>1, <1>2, <1>5, <1>7

\* Calls and then the message about them.
LEMMA ThenAnnounce ==
  ASSUME NEW t \in Seq(DbCalls)
  PROVE  /\ t \o Announce \in Seq(DbCalls) /\ t \o Announce # <<>>
         /\ \A A, c, m : /\ Leads(t, A, <<c, m>>)
                         /\ c \in ConvType /\ c.state = "live" /\ m \in MemberRows
                         => Leads(t \o Announce, A, <<c, m>>)
<1>1. t \o Announce \in Seq(DbCalls) /\ t \o Announce # <<>>
  BY AnnounceTypes, Joins
<1>2. ASSUME NEW A, NEW c \in ConvType, NEW m \in MemberRows, c.state = "live", Leads(t, A, <<c, m>>)
      PROVE  Leads(t \o Announce, A, <<c, m>>)
  BY <1>2, AnnounceLeads, AnnounceTypes, ThenLeads
<1> QED BY <1>1, <1>2

\* The common case: a row, the item, and the message about it.
LEMMA RowAndConv ==
  ASSUME Typed, NEW r \in Slots, Deciding(r), NEW u \in Users, NEW f \in RowFields, NEW g \in ConvFields,
         Start(r, <<SetRow(u, f), SetConv(g)>> \o Announce, <<>>),
         Fresh(r) => rows[u] # NoRow /\ Fits(conv, rows, u, Merged(f, rows[u]), Merged(g, conv))
  PROVE  Launches(r)
<1>1. PICK t : t = <<SetRow(u, f), SetConv(g)>>
  OBVIOUS
<1>2. t \in Seq(DbCalls)
  BY <1>1, CallTypes, Splits
<1>3. ASSUME Fresh(r)
      PROVE  \E A : Good(A) /\ Leads(t \o Announce, Now, A)
  <2>1. /\ Now = <<conv, rows>> /\ conv.state = "live" /\ Sane(<<conv, rows>>)
        /\ conv \in ConvType /\ rows \in MemberRows
    BY <1>3, FreshMeans
  <2>2. PICK x : x = Merged(f, rows[u])
    OBVIOUS
  <2>3. PICK d : d = Merged(g, conv)
    OBVIOUS
  <2>4. PICK m : m = [rows EXCEPT ![u] = x]
    OBVIOUS
  <2>5. rows[u] \in Row
    BY <1>3, <2>1 DEF MemberRows
  <2>6. x \in Row /\ d \in ConvType /\ d.state = "live" /\ Fits(conv, rows, u, x, d)
    BY <1>3, <2>1, <2>2, <2>3, <2>5, RowStays, ConvStays
  <2>7. Good(<<d, m>>)
    BY <2>1, <2>4, <2>6, FitsIsGood
  <2>8. m \in MemberRows /\ Leads(t, <<conv, rows>>, <<d, m>>)
    BY <1>1, <1>3, <2>1, <2>2, <2>3, <2>4, RowThenConv
  <2>9. Leads(t \o Announce, <<conv, rows>>, <<d, m>>)
    BY <1>2, <2>6, <2>8, ThenAnnounce
  <2> QED BY <2>1, <2>7, <2>9
<1>4. t \o Announce \in Seq(DbCalls) /\ t \o Announce # <<>> /\ <<>> \in Seq(DbCalls)
  BY <1>2, ThenAnnounce
<1>5. Start(r, t \o Announce, <<>>)
  BY <1>1
<1> QED BY <1>3, <1>4, <1>5 DEF Launches

LEMMA ApproveLaunches ==
  ASSUME Typed, NEW r \in Slots, NEW u \in Users, ApproveMember(r, u)
  PROVE  Launches(r)
<1>1. Deciding(r) /\ rows[u].status = "PENDING"
  BY DEF ApproveMember, RequesterIsManager, RequesterIsActive
<1>2. PICK f : f = [status |-> "ACTIVE"]
  OBVIOUS
<1>3. PICK g : g = [count |-> Seen(r).count + 1]
  OBVIOUS
<1>4. f \in RowFields /\ g \in ConvFields
  BY <1>1, <1>2, <1>3, Reads, FieldTypes DEF Status
<1>5. ASSUME Fresh(r)
      PROVE  rows[u] # NoRow /\ Fits(conv, rows, u, Merged(f, rows[u]), Merged(g, conv))
  <2>1. rows[u] # NoRow /\ rows[u] \in Row
    BY <1>1, <1>5, FreshMeans, ActiveIsThere
  <2>2. PICK x : x = Merged(f, rows[u])
    OBVIOUS
  <2>3. x.role = rows[u].role /\ x.status = "ACTIVE" /\ x.left = rows[u].left
    BY <1>2, <2>1, <2>2, RowUpdate, RowIsThere
  <2>4. PICK d : d = Merged(g, conv)
    OBVIOUS
  <2>5. d.owner = conv.owner /\ d.admins = conv.admins /\ d.count = conv.count + 1
    BY <1>1, <1>3, <1>5, <2>4, FreshMeans, ConvUpdate
  <2>6. ~IsActiveMember(rows[u]) /\ IsActiveMember(x) /\ u \notin conv.admins
    BY <1>1, <1>5, <2>1, <2>3, FreshMeans DEF IsActiveMember, Row
  <2>7. Fits(conv, rows, u, x, d)
    BY <1>1, <1>5, <2>3, <2>5, <2>6, FreshMeans DEF Fits, Counted
  <2> QED BY <2>1, <2>2, <2>4, <2>7
<1>6. Start(r, <<SetRow(u, f), SetConv(g)>> \o Announce, <<>>)
  BY <1>2, <1>3 DEF ApproveMember
<1> QED BY <1>1, <1>4, <1>5, <1>6, RowAndConv

LEMMA LeaveLaunches ==
  ASSUME Typed, NEW r \in Slots, LeaveAsMember(r)
  PROVE  Launches(r)
<1>1. /\ Deciding(r) /\ IsActiveMember(slots[r].me)
      /\ slots[r].me.role # "OWNER" /\ Seen(r).owner # By(r)
  BY DEF LeaveAsMember, RequesterIsOwner, RequesterIsActive, IsOwnerMember
<1>2. PICK u \in Users : u = By(r)
  BY <1>1, Reads
<1>3. PICK f : f = [left |-> TRUE]
  OBVIOUS
<1>4. PICK g : g = [admins |-> Seen(r).admins \ {u}, count |-> OneLess(Seen(r).count)]
  OBVIOUS
<1>5. f \in RowFields /\ g \in ConvFields
  BY <1>1, <1>2, <1>3, <1>4, Reads, FieldTypes
<1>6. ASSUME Fresh(r)
      PROVE  rows[u] # NoRow /\ Fits(conv, rows, u, Merged(f, rows[u]), Merged(g, conv))
  <2>1. /\ rows[u] # NoRow /\ rows[u] \in Row /\ rows[u].status = "ACTIVE"
        /\ rows[u].role # "OWNER" /\ conv.owner # u /\ IsActiveMember(rows[u])
    BY <1>1, <1>2, <1>6, FreshMeans, ActiveIsThere DEF IsActiveMember
  <2>2. PICK x : x = Merged(f, rows[u])
    OBVIOUS
  <2>3. x.role = rows[u].role /\ x.status = "ACTIVE" /\ x.left = TRUE
    BY <1>3, <2>1, <2>2, RowUpdate, RowIsThere
  <2>4. PICK d : d = Merged(g, conv)
    OBVIOUS
  <2>5. d.owner = conv.owner /\ d.admins = conv.admins \ {u} /\ d.count = OneLess(conv.count)
    BY <1>1, <1>4, <1>6, <2>4, FreshMeans, ConvUpdate
  <2>6. ~IsActiveMember(x)
    BY <2>3 DEF IsActiveMember
  <2>7. Fits(conv, rows, u, x, d)
    BY <1>1, <1>6, <2>1, <2>3, <2>5, <2>6, FreshMeans DEF Fits, Counted
  <2> QED BY <2>1, <2>2, <2>4, <2>7
<1>7. Start(r, <<SetRow(u, f), SetConv(g)>> \o Announce, <<>>)
  BY <1>2, <1>3, <1>4 DEF LeaveAsMember
<1> QED BY <1>1, <1>5, <1>6, <1>7, RowAndConv

LEMMA SetAdminLaunches ==
  ASSUME Typed, NEW r \in Slots, NEW u \in Users, NEW isAdmin \in BOOLEAN, SetAdmin(r, u, isAdmin)
  PROVE  Launches(r)
<1>1. /\ Deciding(r) /\ IsActiveMember(rows[u]) /\ rows[u].status = "ACTIVE"
      /\ rows[u].role # "OWNER" /\ Seen(r).owner # u
  BY DEF SetAdmin, RequesterIsOwner, RequesterIsActive, IsOwnerMember, IsActiveMember
<1>2. PICK f : f = [role |-> IF isAdmin THEN "ADMIN" ELSE "MEMBER"]
  OBVIOUS
<1>3. PICK a : a = IF isAdmin THEN Seen(r).admins \cup {u} ELSE Seen(r).admins \ {u}
  OBVIOUS
<1>8. PICK g : g = [admins |-> a]
  OBVIOUS
<1>4. f \in RowFields /\ g \in ConvFields
  <2>1. (IF isAdmin THEN "ADMIN" ELSE "MEMBER") \in Role
    BY DEF Role
  <2>2. a \in SUBSET Users
    BY <1>1, <1>3, Reads
  <2> QED BY <1>2, <1>8, <2>1, <2>2, FieldTypes
<1>5. ASSUME Fresh(r)
      PROVE  rows[u] # NoRow /\ Fits(conv, rows, u, Merged(f, rows[u]), Merged(g, conv))
  <2>1. rows[u] # NoRow /\ rows[u] \in Row /\ conv.owner # u
    BY <1>1, <1>5, FreshMeans, ActiveIsThere
  <2>2. PICK x : x = Merged(f, rows[u])
    OBVIOUS
  <2>3. /\ x.role = IF isAdmin THEN "ADMIN" ELSE "MEMBER"
        /\ x.status = rows[u].status /\ x.left = rows[u].left
    BY <1>2, <2>1, <2>2, RowUpdate, RowIsThere
  <2>4. PICK d : d = Merged(g, conv)
    OBVIOUS
  <2>8. d.owner = conv.owner /\ d.count = conv.count /\ d.admins = a
    BY <1>1, <1>8, <1>5, <2>4, FreshMeans, ConvUpdate
  <2>5. /\ d.owner = conv.owner /\ d.count = conv.count
        /\ d.admins = IF isAdmin THEN conv.admins \cup {u} ELSE conv.admins \ {u}
    BY <1>1, <1>3, <1>5, <2>8, FreshMeans
  <2>6. IsActiveMember(x)
    BY <1>1, <2>3 DEF IsActiveMember
  <2>7. Fits(conv, rows, u, x, d)
    BY <1>1, <1>5, <2>1, <2>3, <2>5, <2>6, FreshMeans DEF Fits, Counted
  <2> QED BY <2>1, <2>2, <2>4, <2>7
<1>6. Start(r, <<SetRow(u, f), SetConv(g)>> \o Announce, <<>>)
  BY <1>2, <1>3, <1>8 DEF SetAdmin
<1> QED BY <1>1, <1>4, <1>5, <1>6, RowAndConv

\* Calls that leave the group as it is.
LEMMA SameLaunches ==
  ASSUME Typed, NEW r \in Slots, Deciding(r), NEW t \in Seq(DbCalls), t # <<>>,
         Start(r, t, <<>>), Fresh(r) => Leads(t, <<conv, rows>>, <<conv, rows>>)
  PROVE  Launches(r)
<1>1. Fresh(r) => \E A : Good(A) /\ Leads(t, Now, A)
  BY FreshMeans DEF Fresh
<1>2. <<>> \in Seq(DbCalls)
  OBVIOUS
<1> QED BY <1>1, <1>2 DEF Launches

LEMMA RejectLaunches ==
  ASSUME Typed, NEW r \in Slots, NEW u \in Users, RejectMember(r, u)
  PROVE  Launches(r)
<1>1. Deciding(r) /\ rows[u].status = "PENDING"
  BY DEF RejectMember, RequesterIsManager, RequesterIsActive
<1>2. PICK f : f = [status |-> "REJECTED"]
  OBVIOUS
<1>3. f \in RowFields
  BY <1>2, FieldTypes DEF Status
<1>4. PICK t : t = <<SetRow(u, f)>>
  OBVIOUS
<1>5. t \in Seq(DbCalls)
  BY <1>3, <1>4, CallTypes, OneCall
<1>6. ASSUME Fresh(r)
      PROVE  \E A : Good(A) /\ Leads(t \o Announce, Now, A)
  <2>1. /\ Now = <<conv, rows>> /\ conv.state = "live" /\ Sane(<<conv, rows>>)
        /\ conv \in ConvType /\ rows \in MemberRows
    BY <1>1, <1>6, FreshMeans
  <2>2. rows[u] # NoRow /\ rows[u] \in Row
    BY <1>1, <2>1, ActiveIsThere
  <2>3. PICK x : x = Merged(f, rows[u])
    OBVIOUS
  <2>4. x \in Row /\ x.role = rows[u].role /\ x.status = "REJECTED" /\ x.left = rows[u].left
    BY <1>2, <1>3, <2>2, <2>3, RowUpdate, RowIsThere, RowStays
  <2>5. ~IsActiveMember(rows[u]) /\ ~IsActiveMember(x)
    BY <1>1, <2>4 DEF IsActiveMember
  <2>6. Fits(conv, rows, u, x, conv)
    BY <1>1, <1>6, <2>2, <2>4, <2>5, FreshMeans DEF Fits, Counted
  <2>7. PICK m : m = [rows EXCEPT ![u] = x]
    OBVIOUS
  <2>8. Good(<<conv, m>>)
    BY <2>1, <2>4, <2>6, <2>7, FitsIsGood
  <2>9. m \in MemberRows /\ Leads(t, <<conv, rows>>, <<conv, m>>)
    BY <1>3, <1>4, <2>1, <2>2, <2>3, <2>7, RowLeads
  <2>10. Leads(t \o Announce, <<conv, rows>>, <<conv, m>>)
    BY <1>5, <2>1, <2>9, ThenAnnounce
  <2> QED BY <2>1, <2>8, <2>10
<1>7. Start(r, t \o Announce, <<>>)
  BY <1>2, <1>4 DEF RejectMember
<1>8. t \o Announce \in Seq(DbCalls) /\ t \o Announce # <<>> /\ <<>> \in Seq(DbCalls)
  BY <1>5, ThenAnnounce
<1> QED BY <1>6, <1>7, <1>8 DEF Launches

LEMMA UnblockLaunches ==
  ASSUME Typed, NEW r \in Slots, NEW u \in Users, UnblockMember(r, u)
  PROVE  Launches(r)
<1>1. Deciding(r) /\ Start(r, <<Unblock(u)>>, <<>>)
  BY DEF UnblockMember, RequesterIsActive
<1>2. <<Unblock(u)>> \in Seq(DbCalls) /\ <<Unblock(u)>> # <<>>
  BY CallTypes, OneCall
<1>3. Fresh(r) => <<conv, rows>> \in States
  BY <1>1, FreshMeans DEF States
<1>4. Fresh(r) => Leads(<<Unblock(u)>>, <<conv, rows>>, <<conv, rows>>)
  BY <1>3, BlockLeads
<1> QED BY <1>1, <1>2, <1>4, SameLaunches

LEMMA SettingsLaunch ==
  ASSUME Typed, NEW r \in Slots, NEW s \in SettingsChoices, UpdateSettings(r, s)
  PROVE  Launches(r)
<1>1. PICK g : g = [settings |-> s]
  OBVIOUS
<1>2. Deciding(r) /\ Start(r, <<SetConv(g)>>, <<>>)
  BY <1>1 DEF UpdateSettings, RequesterIsManager, RequesterIsActive
<1>3. s \in SettingsType
  BY GroupAssumption
<1>4. g \in ConvFields
  BY <1>1, <1>3, FieldTypes
<1>5. <<SetConv(g)>> \in Seq(DbCalls) /\ <<SetConv(g)>> # <<>> /\ <<>> \in Seq(DbCalls)
  BY <1>4, CallTypes, OneCall
<1>6. ASSUME Fresh(r)
      PROVE  \E A : Good(A) /\ Leads(<<SetConv(g)>>, Now, A)
  <2>1. /\ Now = <<conv, rows>> /\ conv.state = "live" /\ Sane(<<conv, rows>>)
        /\ conv \in ConvType /\ rows \in MemberRows
    BY <1>2, <1>6, FreshMeans
  <2>2. PICK d : d = Merged(g, conv)
    OBVIOUS
  <2>3. /\ d \in ConvType /\ d.state = "live"
        /\ d.owner = conv.owner /\ d.admins = conv.admins /\ d.count = conv.count
    BY <1>1, <1>4, <2>1, <2>2, ConvUpdate, ConvStays
  <2>4. Good(<<d, rows>>)
    BY <2>1, <2>3, SameRowsAreGood
  <2>5. Leads(<<SetConv(g)>>, <<conv, rows>>, <<d, rows>>)
    BY <1>4, <2>1, <2>2, ConvLeads
  <2> QED BY <2>1, <2>4, <2>5
<1> QED BY <1>2, <1>5, <1>6 DEF Launches

LEMMA InfoLaunches ==
  ASSUME Typed, NEW r \in Slots, UpdateGroupInfo(r)
  PROVE  Launches(r)
<1>1. Deciding(r) /\ Start(r, <<SetConv(<<>>)>> \o Announce, <<>>)
  BY DEF UpdateGroupInfo, RequesterIsActive
<1>2. PICK t : t = <<SetConv(<<>>)>>
  OBVIOUS
<1>3. t \in Seq(DbCalls)
  BY <1>2, FieldTypes, CallTypes, OneCall
<1>4. ASSUME Fresh(r)
      PROVE  Leads(t \o Announce, <<conv, rows>>, <<conv, rows>>)
  <2>1. conv.state = "live" /\ conv \in ConvType /\ rows \in MemberRows
    BY <1>1, <1>4, FreshMeans
  <2>2. Leads(t, <<conv, rows>>, <<conv, rows>>)
    BY <1>2, <2>1, FieldTypes, ConvLeads, NothingMerged
  <2> QED BY <1>3, <2>1, <2>2, ThenAnnounce
<1>5. t \o Announce \in Seq(DbCalls) /\ t \o Announce # <<>>
  BY <1>3, ThenAnnounce
<1>6. Start(r, t \o Announce, <<>>)
  BY <1>1, <1>2
<1> QED BY <1>1, <1>4, <1>5, <1>6, SameLaunches

\* The rows go first, then the item.
LEMMA DissolveLaunches ==
  ASSUME Typed, NEW r \in Slots, DissolveGroup(r)
  PROVE  Launches(r)
<1>1. PICK a : a = [kind |-> "dropRows"]
  OBVIOUS
<1>2. PICK b : b = [kind |-> "dropConv"]
  OBVIOUS
<1>3. Deciding(r) /\ Start(r, <<a, b>>, <<>>)
  BY <1>1, <1>2 DEF DissolveGroup, RequesterIsActive
<1>4. a \in DbCalls /\ b \in DbCalls
  BY <1>1, <1>2, CallTypes
<1>5. <<a, b>> \in Seq(DbCalls) /\ <<a, b>> # <<>> /\ <<a, b>> = <<a>> \o <<b>> /\ <<>> \in Seq(DbCalls)
  BY <1>4, Splits
<1>6. ASSUME Fresh(r)
      PROVE  \E A : Good(A) /\ Leads(<<a, b>>, Now, A)
  <2>1. Now = <<conv, rows>> /\ conv \in ConvType /\ rows \in MemberRows
    BY <1>3, <1>6, FreshMeans
  <2>2. PICK d : d = [NoConv EXCEPT !.state = "deleted"]
    OBVIOUS
  <2>3. d \in ConvType /\ d.state = "deleted"
    BY <2>2 DEF NoConv, ConvType, DefaultSettings, SettingsType
  <2>4. NoRows \in MemberRows
    BY DEF NoRows, MemberRows
  <2>5. <<conv, rows>> \in States /\ <<conv, NoRows>> \in States /\ <<d, NoRows>> \in States
    BY <2>1, <2>3, <2>4 DEF States
  <2>6. Effect(a, <<conv, rows>>, <<conv, NoRows>>)
    BY <1>1 DEF Effect
  <2>7. Effect(b, <<conv, NoRows>>, <<d, NoRows>>)
    BY <1>2, <2>2 DEF Effect
  <2>8. Leads(<<a>>, <<conv, rows>>, <<conv, NoRows>>) /\ Leads(<<b>>, <<conv, NoRows>>, <<d, NoRows>>)
    BY <1>4, <2>5, <2>6, <2>7, OneStep
  <2>9. Leads(<<a>> \o <<b>>, <<conv, rows>>, <<d, NoRows>>)
    BY <1>4, <2>8, OneCall, ThenLeads
  <2>10. Good(<<d, NoRows>>)
    BY <2>3, <2>5 DEF Good
  <2> QED BY <1>5, <2>1, <2>9, <2>10
<1> QED BY <1>3, <1>5, <1>6 DEF Launches

\* A row is inserted when there is none and updated when there is one.
LEMMA PutLeads ==
  ASSUME NEW c \in ConvType, NEW m \in MemberRows, NEW u \in Users, NEW x \in Row, NEW f \in RowFields,
         NEW a, a = IF m[u] = NoRow THEN Insert(u, x) ELSE SetRow(u, f),
         NEW y, y = IF m[u] = NoRow THEN x ELSE Merged(f, m[u])
  PROVE  /\ a \in DbCalls /\ y \in Row /\ [m EXCEPT ![u] = y] \in MemberRows
         /\ Leads(<<a>>, <<c, m>>, <<c, [m EXCEPT ![u] = y]>>)
<1>1. CASE m[u] = NoRow
  BY <1>1, InsertLeads, CallTypes
<1>2. CASE m[u] # NoRow
  BY <1>2, RowLeads, CallTypes
<1> QED BY <1>1, <1>2

\* A row that is updated as new is as one that is inserted.
Makes(f, x) == \A y \in Row : Merged(f, y) = x

LEMMA NewRowTypes ==
  ASSUME NEW o \in Role, NEW s \in Status
  PROVE  /\ NewRow(o, s) \in Row /\ AsNew(o, s) \in RowFields
         /\ NewRow(o, s).role = o /\ NewRow(o, s).status = s /\ NewRow(o, s).left = FALSE
         /\ Makes(AsNew(o, s), NewRow(o, s))
<1>1. /\ NewRow(o, s) \in Row
      /\ NewRow(o, s).role = o /\ NewRow(o, s).status = s /\ NewRow(o, s).left = FALSE
  BY DEF NewRow, Row, Role, Status
<1>2. AsNew(o, s) \in [role : Role, status : Status, left : BOOLEAN]
  BY DEF AsNew
<1>3. AsNew(o, s) \in RowFields
  BY <1>2, FieldTypes
<1>4. ASSUME NEW y \in Row
      PROVE  Merged(AsNew(o, s), y) = NewRow(o, s)
  <2>1. PICK f : f = AsNew(o, s)
    OBVIOUS
  <2>2. /\ DOMAIN f = {"role", "status", "left"}
        /\ f["role"] = o /\ f["status"] = s /\ f["left"] = FALSE
    BY <2>1 DEF AsNew
  <2>3. y \in AnyRow /\ y.id = TRUE
    BY RowIsThere DEF Row
  <2>4. PICK d : d = Merged(f, y)
    OBVIOUS
  <2>5. /\ d = [role |-> d.role, status |-> d.status, left |-> d.left, id |-> d.id]
        /\ \A x \in {"role", "status", "left", "id"} : d[x] = IF x \in DOMAIN f THEN f[x] ELSE y[x]
    BY <2>3, <2>4, RowUpdate
  <2>6. d.role = o /\ d.status = s /\ d.left = FALSE /\ d.id = TRUE
    BY <2>2, <2>3, <2>5
  <2> QED BY <2>1, <2>4, <2>5, <2>6 DEF NewRow
<1> QED BY <1>1, <1>3, <1>4 DEF Makes

\* A request to join keeps the role of the row it finds.
LEMMA JoinPendingLaunches ==
  ASSUME Typed, NEW r \in Slots, JoinByInvite(r), Seen(r).settings.requireApproval
  PROVE  Launches(r)
<1>1. Deciding(r) /\ ~IsActiveMember(rows[By(r)])
  BY DEF JoinByInvite
<1>2. PICK u \in Users : u = By(r)
  BY <1>1, Reads
<1>3. PICK x : x = NewRow("MEMBER", "PENDING")
  OBVIOUS
<1>4. PICK f : f = [status |-> "PENDING", left |-> FALSE]
  OBVIOUS
<1>5. x \in Row /\ x.role = "MEMBER" /\ x.status = "PENDING" /\ x.left = FALSE
  BY <1>3, NewRowTypes DEF Role, Status
<1>6. f \in RowFields
  BY <1>4, FieldTypes DEF Status
<1>7. PICK a : a = IF rows[u] = NoRow THEN Insert(u, x) ELSE SetRow(u, f)
  OBVIOUS
<1>8. PICK y : y = IF rows[u] = NoRow THEN x ELSE Merged(f, rows[u])
  OBVIOUS
<1>9. PICK m : m = [rows EXCEPT ![u] = y]
  OBVIOUS
<1>10. a \in DbCalls
  BY <1>5, <1>6, <1>7, CallTypes
<1>11. <<a>> \in Seq(DbCalls) /\ <<a>> # <<>> /\ <<>> \in Seq(DbCalls)
  BY <1>10, OneCall
<1>12. ASSUME Fresh(r)
       PROVE  \E A : Good(A) /\ Leads(<<a>>, Now, A)
  <2>4. /\ Now = <<conv, rows>> /\ conv.state = "live" /\ Sane(<<conv, rows>>)
        /\ conv \in ConvType /\ rows \in MemberRows
    BY <1>1, <1>12, FreshMeans
  <2>6. /\ y \in Row /\ m \in MemberRows /\ Leads(<<a>>, <<conv, rows>>, <<conv, m>>)
    BY <1>5, <1>6, <1>7, <1>8, <1>9, <2>4, PutLeads
  <2>1. /\ y.status = "PENDING" /\ y.left = FALSE
        /\ y.role = "OWNER" => rows[u].role = "OWNER"
    <3>1. CASE rows[u] = NoRow
      BY <1>5, <1>8, <3>1
    <3>2. CASE rows[u] # NoRow
      <4>1. rows[u] \in Row
        BY <2>4, <3>2 DEF MemberRows
      <4> QED BY <1>4, <1>8, <3>2, <4>1, RowUpdate, RowIsThere
    <3> QED BY <3>1, <3>2
  <2>2. ~IsActiveMember(rows[u]) /\ ~IsActiveMember(y)
    BY <1>1, <1>2, <2>1 DEF IsActiveMember
  <2>3. Fits(conv, rows, u, y, conv)
    BY <1>1, <1>12, <2>1, <2>2, FreshMeans DEF Fits, Counted
  <2>5. Good(<<conv, m>>)
    BY <1>9, <2>3, <2>4, <2>6, FitsIsGood
  <2> QED BY <2>4, <2>5, <2>6
<1>13. Start(r, <<a>>, <<>>)
  BY <1>2, <1>3, <1>4, <1>7 DEF JoinByInvite
<1> QED BY <1>11, <1>12, <1>13 DEF Launches

LEMMA JoinNowLaunches ==
  ASSUME Typed, NEW r \in Slots, JoinByInvite(r), ~Seen(r).settings.requireApproval
  PROVE  Launches(r)
<1>1. Deciding(r) /\ ~IsActiveMember(rows[By(r)])
  BY DEF JoinByInvite
<1>2. PICK u \in Users : u = By(r)
  BY <1>1, Reads
<1>3. PICK x : x = NewRow("MEMBER", "ACTIVE")
  OBVIOUS
<1>4. PICK g : g = [count |-> Seen(r).count + 1]
  OBVIOUS
<1>17. PICK f : f = AsNew("MEMBER", "ACTIVE")
  OBVIOUS
<1>5. /\ x \in Row /\ x.role = "MEMBER" /\ x.status = "ACTIVE" /\ x.left = FALSE
      /\ f \in RowFields /\ Makes(f, x)
  BY <1>3, <1>17, NewRowTypes DEF Role, Status
<1>6. g \in ConvFields
  BY <1>1, <1>4, Reads, FieldTypes
<1>7. PICK a : a = IF rows[u] = NoRow THEN Insert(u, x) ELSE SetRow(u, f)
  OBVIOUS
<1>8. PICK y : y = IF rows[u] = NoRow THEN x ELSE Merged(f, rows[u])
  OBVIOUS
<1>9. PICK m : m = [rows EXCEPT ![u] = y]
  OBVIOUS
<1>10. a \in DbCalls
  BY <1>5, <1>7, CallTypes
<1>11. PICK b : b = SetConv(g)
  OBVIOUS
<1>12. /\ <<a>> \in Seq(DbCalls) /\ <<b>> \in Seq(DbCalls) /\ <<a, b>> \in Seq(DbCalls)
       /\ <<a, b>> = <<a>> \o <<b>>
  BY <1>6, <1>10, <1>11, CallTypes, OneCall, Splits
<1>16. PICK t : t = <<a, b>>
  OBVIOUS
<1>13. ASSUME Fresh(r)
       PROVE  \E A : Good(A) /\ Leads(t \o Announce, Now, A)
  <2>3. /\ Now = <<conv, rows>> /\ conv.state = "live" /\ Sane(<<conv, rows>>)
        /\ conv \in ConvType /\ rows \in MemberRows
    BY <1>1, <1>13, FreshMeans
  <2>11. /\ y \in Row /\ m \in MemberRows /\ Leads(<<a>>, <<conv, rows>>, <<conv, m>>)
    BY <1>5, <1>7, <1>8, <1>9, <2>3, PutLeads
  <2>1. y.status = "ACTIVE" /\ y.left = FALSE /\ y.role = "MEMBER"
    <3>1. rows[u] # NoRow => rows[u] \in Row
      BY <2>3 DEF MemberRows
    <3> QED BY <1>5, <1>8, <3>1 DEF Makes
  <2>2. ~IsActiveMember(rows[u]) /\ IsActiveMember(y)
    BY <1>1, <1>2, <2>1 DEF IsActiveMember
  <2>4. PICK d : d = Merged(g, conv)
    OBVIOUS
  <2>5. /\ d \in ConvType /\ d.state = "live" /\ d.owner = conv.owner /\ d.admins = conv.admins
        /\ d.count = conv.count + 1
    BY <1>1, <1>4, <1>6, <1>13, <2>3, <2>4, FreshMeans, ConvUpdate, ConvStays
  <2>6. Fits(conv, rows, u, y, d)
    BY <1>1, <1>13, <2>1, <2>2, <2>5, FreshMeans DEF Fits, Counted
  <2>7. Good(<<d, m>>)
    BY <1>9, <2>3, <2>5, <2>6, <2>11, FitsIsGood
  <2>8. Leads(<<b>>, <<conv, m>>, <<d, m>>)
    BY <1>6, <1>11, <2>3, <2>4, <2>11, ConvLeads
  <2>9. Leads(<<a>> \o <<b>>, <<conv, rows>>, <<d, m>>)
    BY <1>12, <2>8, <2>11, ThenLeads
  <2>10. Leads(t \o Announce, <<conv, rows>>, <<d, m>>)
    BY <1>12, <1>16, <2>5, <2>9, <2>11, ThenAnnounce
  <2> QED BY <2>3, <2>7, <2>10
<1>14. Start(r, t \o Announce, <<>>)
  BY <1>2, <1>3, <1>4, <1>7, <1>11, <1>16, <1>17 DEF JoinByInvite
<1>15. /\ t \o Announce \in Seq(DbCalls) /\ t \o Announce # <<>>
       /\ <<>> \in Seq(DbCalls)
  <2>1. t \in Seq(DbCalls)
    BY <1>12, <1>16
  <2> QED BY <2>1, ThenAnnounce
<1> QED BY <1>13, <1>14, <1>15 DEF Launches

\* The requester becomes a plain admin and the heir the owner.
LEMMA TransferLaunches ==
  ASSUME Typed, NEW r \in Slots, NEW heir \in Users, TransferOwner(r, heir)
  PROVE  Launches(r)
<1>1. /\ Deciding(r) /\ IsActiveMember(rows[heir]) /\ rows[heir].status = "ACTIVE"
      /\ IsActiveMember(slots[r].me) /\ slots[r].me.status = "ACTIVE"
      /\ slots[r].me.role = "OWNER" \/ Seen(r).owner = By(r)
  BY DEF TransferOwner, RequesterIsOwner, RequesterIsActive, IsOwnerMember, IsActiveMember
<1>2. PICK u \in Users : u = By(r)
  BY <1>1, Reads
<1>3. PICK g : g = [owner |-> heir, admins |-> (Seen(r).admins \ {heir}) \cup {u}]
  OBVIOUS
<1>4. PICK f : f = [role |-> "ADMIN"]
  OBVIOUS
<1>5. PICK h : h = [role |-> "OWNER"]
  OBVIOUS
<1>6. f \in RowFields /\ h \in RowFields
  BY <1>4, <1>5, FieldTypes DEF Role
<1>7. g \in ConvFields
  <2>1. (Seen(r).admins \ {heir}) \cup {u} \in SUBSET Users
    BY <1>1, Reads
  <2> QED BY <1>3, <2>1, FieldTypes
<1>8. PICK a : a = SetConv(g)
  OBVIOUS
<1>9. PICK b : b = SetRow(u, f)
  OBVIOUS
<1>10. PICK e : e = SetRow(heir, h)
  OBVIOUS
<1>11. a \in DbCalls /\ b \in DbCalls /\ e \in DbCalls
  BY <1>6, <1>7, <1>8, <1>9, <1>10, CallTypes
<1>12. /\ <<a>> \in Seq(DbCalls) /\ <<b>> \in Seq(DbCalls) /\ <<e>> \in Seq(DbCalls)
       /\ <<b, e>> \in Seq(DbCalls) /\ <<b, e>> = <<b>> \o <<e>>
       /\ <<a, b, e>> \in Seq(DbCalls) /\ <<a, b, e>> = <<a>> \o <<b, e>>
  <2>1. <<a>> \in Seq(DbCalls) /\ <<b>> \in Seq(DbCalls) /\ <<e>> \in Seq(DbCalls)
    BY <1>11, OneCall
  <2>2. <<b, e>> \in Seq(DbCalls) /\ <<b, e>> = <<b>> \o <<e>>
    BY <1>11, Splits
  <2>3. <<a, b, e>> \in Seq(DbCalls) /\ <<a, b, e>> = <<a>> \o <<b, e>>
    BY <1>11, Splits
  <2> QED BY <2>1, <2>2, <2>3
<1>16. PICK t : t = <<a, b, e>>
  OBVIOUS
<1>13. ASSUME Fresh(r)
       PROVE  \E A : Good(A) /\ Leads(t \o Announce, Now, A)
  <2>1. /\ Now = <<conv, rows>> /\ conv.state = "live" /\ Sane(<<conv, rows>>)
        /\ conv \in ConvType /\ rows \in MemberRows /\ Seen(r) = conv
        /\ IsActiveMember(rows[u]) /\ rows[u].status = "ACTIVE" /\ conv.owner = u
    BY <1>1, <1>2, <1>13, FreshMeans
  <2>2. /\ rows[u] # NoRow /\ rows[u] \in Row /\ rows[heir] # NoRow /\ rows[heir] \in Row
    BY <1>1, <2>1, ActiveIsThere
  <2>3. PICK d : d = Merged(g, conv)
    OBVIOUS
  <2>4. /\ d \in ConvType /\ d.state = "live" /\ d.owner = heir /\ d.count = conv.count
        /\ d.admins = (conv.admins \ {heir}) \cup {u}
    BY <1>3, <1>7, <2>1, <2>3, ConvUpdate, ConvStays
  <2>5. PICK x : x = Merged(f, rows[u])
    OBVIOUS
  <2>6. /\ x \in Row /\ x.role = "ADMIN" /\ x.status = rows[u].status /\ x.left = rows[u].left
        /\ IsActiveMember(x) /\ x.status = "ACTIVE"
    BY <1>4, <1>6, <2>1, <2>2, <2>5, RowUpdate, RowIsThere, RowStays DEF IsActiveMember
  <2>7. PICK m : m = [rows EXCEPT ![u] = x]
    OBVIOUS
  <2>8. /\ m \in MemberRows /\ m[u] = x /\ \A v \in Users : v # u => m[v] = rows[v]
    BY <2>1, <2>6, <2>7 DEF MemberRows
  <2>9. Good(<<d, m>>) /\ Sane(<<d, m>>)
    <3>1. Fits(conv, rows, u, x, d)
      BY <1>1, <1>13, <2>1, <2>4, <2>6, FreshMeans DEF Fits, Counted
    <3>2. Good(<<d, m>>)
      BY <2>1, <2>4, <2>6, <2>7, <3>1, FitsIsGood
    <3> QED BY <2>4, <3>2 DEF Good
  <2>10. IsActiveMember(m[heir]) /\ m[heir] \in Row /\ m[heir] # NoRow /\ m[heir].status = "ACTIVE"
    BY <1>1, <2>2, <2>6, <2>8, RowIsThere
  <2>11. PICK y : y = Merged(h, m[heir])
    OBVIOUS
  <2>12. /\ y \in Row /\ y.role = "OWNER" /\ y.status = m[heir].status /\ y.left = m[heir].left
         /\ IsActiveMember(y)
    BY <1>5, <1>6, <2>10, <2>11, RowUpdate, RowIsThere, RowStays DEF IsActiveMember
  <2>13. PICK n : n = [m EXCEPT ![heir] = y]
    OBVIOUS
  <2>14. Good(<<d, n>>)
    <3>1. \A v \in Users : m[v].role # "OWNER"
      BY <1>1, <1>13, <2>1, <2>6, <2>8, FreshMeans
    <3>2. Fits(d, m, heir, y, d)
      BY <2>4, <2>10, <2>12, <3>1 DEF Fits, Counted
    <3> QED BY <2>4, <2>8, <2>9, <2>12, <2>13, <3>2, FitsIsGood
  <2>15. Leads(<<a>>, <<conv, rows>>, <<d, rows>>)
    BY <1>7, <1>8, <2>1, <2>3, ConvLeads
  <2>16. Leads(<<b>>, <<d, rows>>, <<d, m>>)
    BY <1>6, <1>9, <2>1, <2>2, <2>4, <2>5, <2>7, RowLeads
  <2>17. n \in MemberRows /\ Leads(<<e>>, <<d, m>>, <<d, n>>)
    BY <1>6, <1>10, <2>4, <2>8, <2>10, <2>11, <2>13, RowLeads
  <2>18. Leads(<<b, e>>, <<d, rows>>, <<d, n>>)
    BY <1>12, <2>16, <2>17, ThenLeads
  <2>19. Leads(<<a, b, e>>, <<conv, rows>>, <<d, n>>)
    BY <1>12, <2>15, <2>18, ThenLeads
  <2>20. Leads(t \o Announce, <<conv, rows>>, <<d, n>>)
    BY <1>12, <1>16, <2>4, <2>17, <2>19, ThenAnnounce
  <2> QED BY <2>1, <2>14, <2>20
<1>14. Start(r, t \o Announce, <<>>)
  BY <1>2, <1>3, <1>4, <1>5, <1>8, <1>9, <1>10, <1>16 DEF TransferOwner
<1>15. /\ t \o Announce \in Seq(DbCalls) /\ t \o Announce # <<>>
       /\ <<>> \in Seq(DbCalls)
  <2>1. t \in Seq(DbCalls)
    BY <1>12, <1>16
  <2> QED BY <2>1, ThenAnnounce
<1> QED BY <1>13, <1>14, <1>15 DEF Launches

\* The heir becomes the owner, the leaving owner a former admin.
LEMMA HandOverLaunches ==
  ASSUME Typed, NEW r \in Slots, NEW heir \in Users, NEW admins \in SUBSET Users,
         RequesterIsOwner(r), HandOver(r, heir, admins),
         Fresh(r) => /\ rows[heir] # NoRow /\ ~rows[heir].left
                     /\ admins \subseteq conv.admins \ {By(r)}
  PROVE  Launches(r)
<1>1. /\ Deciding(r)
      /\ IsActiveMember(slots[r].me) /\ slots[r].me.status = "ACTIVE"
      /\ slots[r].me.role = "OWNER" \/ Seen(r).owner = By(r)
  BY DEF RequesterIsOwner, RequesterIsActive, IsOwnerMember, IsActiveMember
<1>2. PICK u \in Users : u = By(r)
  BY <1>1, Reads
<1>3. PICK g : g = [owner |-> heir, admins |-> admins, count |-> OneLess(Seen(r).count)]
  OBVIOUS
<1>4. PICK f : f = [left |-> TRUE, role |-> "ADMIN"]
  OBVIOUS
<1>5. PICK h : h = [role |-> "OWNER"]
  OBVIOUS
<1>6. f \in RowFields /\ h \in RowFields
  BY <1>4, <1>5, FieldTypes DEF Role
<1>7. g \in ConvFields
  BY <1>1, <1>3, Reads, FieldTypes
<1>8. PICK a : a = SetRow(heir, h)
  OBVIOUS
<1>9. PICK b : b = SetRow(u, f)
  OBVIOUS
<1>10. PICK e : e = SetConv(g)
  OBVIOUS
<1>11. a \in DbCalls /\ b \in DbCalls /\ e \in DbCalls
  BY <1>6, <1>7, <1>8, <1>9, <1>10, CallTypes
<1>12. /\ <<a>> \in Seq(DbCalls) /\ <<b>> \in Seq(DbCalls) /\ <<e>> \in Seq(DbCalls)
       /\ <<b, e>> \in Seq(DbCalls) /\ <<b, e>> = <<b>> \o <<e>>
       /\ <<a, b, e>> \in Seq(DbCalls) /\ <<a, b, e>> = <<a>> \o <<b, e>>
  <2>1. <<a>> \in Seq(DbCalls) /\ <<b>> \in Seq(DbCalls) /\ <<e>> \in Seq(DbCalls)
    BY <1>11, OneCall
  <2>2. <<b, e>> \in Seq(DbCalls) /\ <<b, e>> = <<b>> \o <<e>>
    BY <1>11, Splits
  <2>3. <<a, b, e>> \in Seq(DbCalls) /\ <<a, b, e>> = <<a>> \o <<b, e>>
    BY <1>11, Splits
  <2> QED BY <2>1, <2>2, <2>3
<1>13. PICK t : t = <<a, b, e>>
  OBVIOUS
<1>14. ASSUME Fresh(r)
       PROVE  \E A : Good(A) /\ Leads(t \o Announce, Now, A)
  <2>1. /\ Now = <<conv, rows>> /\ conv.state = "live" /\ Sane(<<conv, rows>>)
        /\ conv \in ConvType /\ rows \in MemberRows /\ Seen(r) = conv
        /\ IsActiveMember(rows[u]) /\ rows[u].status = "ACTIVE" /\ conv.owner = u
    BY <1>1, <1>2, <1>14, FreshMeans
  <2>2. /\ rows[u] # NoRow /\ rows[u] \in Row /\ rows[heir] # NoRow /\ rows[heir] \in Row
    BY <1>14, <2>1, ActiveIsThere DEF MemberRows
  <2>3. PICK d : d = Merged(g, conv)
    OBVIOUS
  <2>4. /\ d \in ConvType /\ d.state = "live" /\ d.owner = heir /\ d.count = OneLess(conv.count)
        /\ d.admins = admins
    BY <1>3, <1>7, <2>1, <2>3, ConvUpdate, ConvStays
  <2>5. PICK y : y = Merged(h, rows[heir])
    OBVIOUS
  <2>6. y \in Row /\ y.role = "OWNER" /\ y.status = rows[heir].status /\ y.left = rows[heir].left
    BY <1>5, <1>6, <2>2, <2>5, RowUpdate, RowIsThere, RowStays
  <2>7. PICK m : m = [rows EXCEPT ![heir] = y]
    OBVIOUS
  <2>8. m \in MemberRows /\ m[heir] = y /\ \A v \in Users : v # heir => m[v] = rows[v]
    BY <2>1, <2>6, <2>7 DEF MemberRows
  <2>9. m[u] \in Row /\ m[u] # NoRow /\ m[u].status = "ACTIVE"
    BY <2>1, <2>2, <2>6, <2>8, RowIsThere
  <2>10. PICK x : x = Merged(f, m[u])
    OBVIOUS
  <2>11. x \in Row /\ x.role = "ADMIN" /\ x.status = "ACTIVE" /\ x.left = TRUE /\ ~IsActiveMember(x)
    BY <1>4, <1>6, <2>9, <2>10, RowUpdate, RowIsThere, RowStays DEF IsActiveMember
  <2>12. PICK n : n = [m EXCEPT ![u] = x]
    OBVIOUS
  <2>13. PICK k : k = [rows EXCEPT ![u] = x]
    OBVIOUS
  <2>14. Good(<<d, k>>) /\ Sane(<<d, k>>)
    <3>1. Fits(conv, rows, u, x, d)
      BY <1>1, <1>2, <1>14, <2>1, <2>4, <2>11, FreshMeans DEF Fits, Counted
    <3>2. Good(<<d, k>>)
      BY <2>1, <2>4, <2>11, <2>13, <3>1, FitsIsGood
    <3> QED BY <2>4, <3>2 DEF Good
  <2>15. k \in MemberRows /\ k[u] = x /\ \A v \in Users : v # u => k[v] = rows[v]
    BY <2>1, <2>11, <2>13 DEF MemberRows
  <2>16. Good(<<d, n>>)
    <3>1. CASE heir = u
      <4>1. n = k
        BY <2>1, <2>7, <2>12, <2>13, <3>1 DEF MemberRows
      <4> QED BY <2>14, <4>1
    <3>2. CASE heir # u
      <4>1. n = [k EXCEPT ![heir] = y]
        BY <2>1, <2>7, <2>12, <2>13, <3>2 DEF MemberRows
      <4>2. k[heir] = rows[heir]
        BY <2>15, <3>2
      <4>3. IsActiveMember(y) <=> IsActiveMember(k[heir])
        BY <2>6, <4>2 DEF IsActiveMember
      <4>4. \A v \in Users : k[v].role # "OWNER"
        BY <1>1, <1>14, <2>1, <2>11, <2>15, FreshMeans
      <4>5. heir \in admins => IsActiveMember(k[heir])
        BY <1>1, <1>14, <4>2, FreshMeans
      <4>6. Fits(d, k, heir, y, d)
        BY <1>14, <2>4, <2>6, <4>3, <4>4, <4>5 DEF Fits, Counted
      <4> QED BY <2>4, <2>6, <2>14, <2>15, <4>1, <4>6, FitsIsGood
    <3> QED BY <3>1, <3>2
  <2>17. Leads(<<a>>, <<conv, rows>>, <<conv, m>>)
    BY <1>6, <1>8, <2>1, <2>2, <2>5, <2>7, RowLeads
  <2>18. n \in MemberRows /\ Leads(<<b>>, <<conv, m>>, <<conv, n>>)
    BY <1>6, <1>9, <2>1, <2>8, <2>9, <2>10, <2>12, RowLeads
  <2>19. Leads(<<e>>, <<conv, n>>, <<d, n>>)
    BY <1>7, <1>10, <2>1, <2>3, <2>18, ConvLeads
  <2>20. Leads(<<b, e>>, <<conv, m>>, <<d, n>>)
    BY <1>12, <2>18, <2>19, ThenLeads
  <2>21. Leads(<<a, b, e>>, <<conv, rows>>, <<d, n>>)
    BY <1>12, <2>17, <2>20, ThenLeads
  <2>22. Leads(t \o Announce, <<conv, rows>>, <<d, n>>)
    BY <1>12, <1>13, <2>4, <2>18, <2>21, ThenAnnounce
  <2> QED BY <2>1, <2>16, <2>22
<1>15. Start(r, t \o Announce, <<>>)
  BY <1>2, <1>3, <1>4, <1>5, <1>8, <1>9, <1>10, <1>13 DEF HandOver
<1>16. t \in Seq(DbCalls)
  BY <1>12, <1>13
<1>17. t \o Announce \in Seq(DbCalls) /\ t \o Announce # <<>> /\ <<>> \in Seq(DbCalls)
  BY <1>16, ThenAnnounce
<1> QED BY <1>14, <1>15, <1>17 DEF Launches

LEMMA LeaveToHeirLaunches ==
  ASSUME Typed, NEW r \in Slots, NEW heir \in Users, LeaveToHeir(r, heir)
  PROVE  Launches(r)
<1>1. /\ RequesterIsOwner(r) /\ Deciding(r)
      /\ IsActiveMember(rows[heir]) /\ rows[heir].status = "ACTIVE" /\ ~rows[heir].left
  BY DEF LeaveToHeir, RequesterIsOwner, RequesterIsActive, IsActiveMember
<1>2. PICK admins : admins = Seen(r).admins \ ({By(r)} \cup
                               (IF rows[heir].role = "ADMIN" THEN {heir} ELSE {}))
  OBVIOUS
<1>3. admins \in SUBSET Users /\ admins \subseteq Seen(r).admins \ {By(r)}
  BY <1>1, <1>2, Reads
<1>4. Fresh(r) => /\ rows[heir] # NoRow /\ ~rows[heir].left
                  /\ admins \subseteq conv.admins \ {By(r)}
  BY <1>1, <1>3, FreshMeans, ActiveIsThere
<1>5. HandOver(r, heir, admins)
  BY <1>2 DEF LeaveToHeir
<1> QED BY <1>1, <1>3, <1>4, <1>5, HandOverLaunches

\* The first row is there when there is a row at all.
LEMMA FirstRowIsThere ==
  ASSUME \E u \in Users : rows[u] # NoRow
  PROVE  FirstRow \in Users /\ rows[FirstRow] # NoRow
<1>1. PICK present : present = {u \in Users : rows[u] # NoRow}
  OBVIOUS
<1>2. present \subseteq Nat /\ present # {} /\ present \subseteq Users
  BY <1>1, GroupAssumption
<1>3. \E R : IsWellFoundedOn(R, Nat) /\ R = {p \in Nat \X Nat : p[1] < p[2]}
  BY NatLessThanWellFounded, Zenon DEF OpToRel
<1>4. PICK R : IsWellFoundedOn(R, Nat) /\ R = {p \in Nat \X Nat : p[1] < p[2]}
  BY <1>3
<1>5. PICK u \in present : \A x \in present : <<x, u>> \notin R
  BY <1>2, <1>4, WFMin
<1>6. \A x \in present : u <= x
  <2>1. \A x \in present : ~(x < u)
    BY <1>2, <1>4, <1>5
  <2>2. \A x \in present : x \in Nat /\ u \in Nat
    BY <1>2
  <2> QED BY <2>1, <2>2
<1>7. \E v \in Users : /\ rows[v] # NoRow
                       /\ \A x \in Users : rows[x] # NoRow => v <= x
  BY <1>1, <1>6
<1> QED BY <1>7 DEF FirstRow

LEMMA LeaveAutoLaunches ==
  ASSUME Typed, NEW r \in Slots, LeaveAuto(r)
  PROVE  Launches(r)
<1>1. /\ RequesterIsOwner(r) /\ Deciding(r)
      /\ \E u \in Users : rows[u] # NoRow
      /\ ~rows[FirstRow].left
  BY DEF LeaveAuto, RequesterIsOwner, RequesterIsActive
<1>2. PICK heir : heir = FirstRow
  OBVIOUS
<1>3. heir \in Users /\ rows[heir] # NoRow
  BY <1>1, <1>2, FirstRowIsThere
<1>4. PICK admins : admins = Seen(r).admins \ {By(r), heir}
  OBVIOUS
<1>5. admins \in SUBSET Users /\ admins \subseteq Seen(r).admins \ {By(r)}
  BY <1>1, <1>4, Reads
<1>6. Fresh(r) => /\ rows[heir] # NoRow /\ ~rows[heir].left
                  /\ admins \subseteq conv.admins \ {By(r)}
  BY <1>1, <1>2, <1>3, <1>5, FreshMeans
<1>7. HandOver(r, heir, admins)
  BY <1>2, <1>4 DEF LeaveAuto
<1> QED BY <1>1, <1>3, <1>5, <1>6, <1>7, HandOverLaunches

\* A member who is an admin is taken off conversation.admins by a write of its own.
LEMMA AdminOut ==
  ASSUME NEW c \in ConvType, NEW m \in MemberRows, c.state = "live", NEW u \in Users,
         NEW a \in SUBSET Users, NEW isAdmin \in BOOLEAN,
         NEW g, g = [admins |-> a],
         NEW t, t = IF isAdmin THEN <<SetConv(g)>> ELSE <<>>,
         NEW d, d = IF isAdmin THEN Merged(g, c) ELSE c
  PROVE  /\ t \in Seq(DbCalls) /\ d \in ConvType /\ d.state = "live"
         /\ d.owner = c.owner /\ d.count = c.count /\ d.settings = c.settings
         /\ d.admins = IF isAdmin THEN a ELSE c.admins
         /\ Leads(t, <<c, m>>, <<d, m>>)
<1>1. g \in ConvFields
  BY FieldTypes
<1>2. CASE isAdmin
  <2>1. t \in Seq(DbCalls)
    BY <1>1, <1>2, CallTypes, OneCall
  <2>2. d \in ConvType /\ d.state = "live"
    BY <1>1, <1>2, ConvStays
  <2>3. d.owner = c.owner /\ d.count = c.count /\ d.settings = c.settings /\ d.admins = a
    BY <1>2, ConvUpdate
  <2>4. Leads(t, <<c, m>>, <<d, m>>)
    BY <1>1, <1>2, ConvLeads
  <2> QED BY <1>2, <2>1, <2>2, <2>3, <2>4
<1>3. CASE ~isAdmin
  <2>1. <<c, m>> \in States
    BY DEF States
  <2>2. Leads(<<>>, <<c, m>>, <<c, m>>)
    BY <2>1, NothingToDo
  <2>3. <<>> \in Seq(DbCalls)
    OBVIOUS
  <2> QED BY <1>3, <2>2, <2>3
<1> QED BY <1>2, <1>3

LEMMA RemoveLaunches ==
  ASSUME Typed, NEW r \in Slots, NEW u \in Users, NEW block \in BOOLEAN, RemoveMember(r, u, block)
  PROVE  Launches(r)
<1>1. /\ Deciding(r) /\ IsActiveMember(rows[u]) /\ rows[u].status = "ACTIVE"
      /\ rows[u].role # "OWNER" /\ Seen(r).owner # u
  BY DEF RemoveMember, RequesterIsActive, IsOwnerMember, IsActiveMember
<1>2. PICK isAdmin \in BOOLEAN : isAdmin = (rows[u].role = "ADMIN")
  OBVIOUS
<1>3. PICK admins : admins = Seen(r).admins \ {u}
  OBVIOUS
<1>4. PICK g : g = [admins |-> admins]
  OBVIOUS
<1>5. PICK f : f = [left |-> TRUE]
  OBVIOUS
<1>6. PICK h : h = [count |-> OneLess(Seen(r).count)]
  OBVIOUS
<1>7. admins \in SUBSET Users /\ f \in RowFields /\ h \in ConvFields /\ g \in ConvFields
  BY <1>1, <1>3, <1>4, <1>5, <1>6, Reads, FieldTypes
<1>8. PICK p : p = IF isAdmin THEN <<SetConv(g)>> ELSE <<>>
  OBVIOUS
<1>9. PICK q : q = <<SetRow(u, f), SetConv(h)>>
  OBVIOUS
<1>10. PICK z : z = IF block THEN <<Block(u)>> ELSE <<>>
  OBVIOUS
<1>11. p \in Seq(DbCalls) /\ q \in Seq(DbCalls) /\ z \in Seq(DbCalls)
  <2>1. /\ SetConv(g) \in DbCalls /\ SetRow(u, f) \in DbCalls /\ SetConv(h) \in DbCalls
        /\ Block(u) \in DbCalls
    BY <1>7, CallTypes
  <2>2. q \in Seq(DbCalls)
    BY <1>9, <2>1, Splits
  <2>3. <<SetConv(g)>> \in Seq(DbCalls) /\ <<Block(u)>> \in Seq(DbCalls) /\ <<>> \in Seq(DbCalls)
    BY <2>1, OneCall
  <2> QED BY <1>8, <1>10, <2>2, <2>3
<1>12. p \o q \in Seq(DbCalls)
  BY <1>11, Joins
<1>13. PICK s : s = p \o q
  OBVIOUS
<1>14. s \o Announce \in Seq(DbCalls) /\ s \o Announce # <<>>
  BY <1>12, <1>13, ThenAnnounce
<1>15. PICK t : t = s \o Announce
  OBVIOUS
<1>16. t \o z \in Seq(DbCalls) /\ t \o z # <<>> /\ <<>> \in Seq(DbCalls)
  BY <1>11, <1>14, <1>15, Joins
<1>17. ASSUME Fresh(r)
       PROVE  \E A : Good(A) /\ Leads(t \o z, Now, A)
  <2>1. /\ Now = <<conv, rows>> /\ conv.state = "live" /\ Sane(<<conv, rows>>)
        /\ conv \in ConvType /\ rows \in MemberRows /\ Seen(r) = conv
    BY <1>1, <1>17, FreshMeans
  <2>2. rows[u] # NoRow /\ rows[u] \in Row
    BY <1>1, <2>1, ActiveIsThere
  <2>3. PICK c : c = IF isAdmin THEN Merged(g, conv) ELSE conv
    OBVIOUS
  <2>4. /\ c \in ConvType /\ c.state = "live" /\ c.owner = conv.owner /\ c.count = conv.count
        /\ c.admins = IF isAdmin THEN admins ELSE conv.admins
        /\ Leads(p, <<conv, rows>>, <<c, rows>>)
    BY <1>4, <1>7, <1>8, <2>1, <2>3, AdminOut, SMTT(30)
  <2>5. c.admins = conv.admins \ {u}
    <3>1. ~isAdmin => u \notin conv.admins
      BY <1>1, <1>2, <1>17, FreshMeans
    <3> QED BY <1>3, <2>1, <2>4, <3>1
  <2>6. Sane(<<c, rows>>)
    <3>1. c.admins \subseteq conv.admins
      BY <2>5
    <3>2. Good(<<c, rows>>)
      BY <2>1, <2>4, <3>1, SameRowsAreGood
    <3> QED BY <2>4, <3>2 DEF Good
  <2>7. PICK x : x = Merged(f, rows[u])
    OBVIOUS
  <2>8. x \in Row /\ x.role = rows[u].role /\ x.status = "ACTIVE" /\ x.left = TRUE /\ ~IsActiveMember(x)
    BY <1>1, <1>5, <1>7, <2>2, <2>7, RowUpdate, RowIsThere, RowStays DEF IsActiveMember
  <2>9. PICK d : d = Merged(h, c)
    OBVIOUS
  <2>10. /\ d \in ConvType /\ d.state = "live" /\ d.owner = conv.owner /\ d.admins = c.admins
         /\ d.count = OneLess(c.count)
    BY <1>6, <1>7, <2>1, <2>4, <2>9, ConvUpdate, ConvStays
  <2>11. PICK m : m = [rows EXCEPT ![u] = x]
    OBVIOUS
  <2>12. Good(<<d, m>>)
    <3>1. Fits(c, rows, u, x, d)
      BY <1>1, <1>17, <2>1, <2>5, <2>8, <2>10, FreshMeans DEF Fits, Counted
    <3> QED BY <2>1, <2>4, <2>6, <2>8, <2>10, <2>11, <3>1, FitsIsGood
  <2>13. m \in MemberRows /\ Leads(q, <<c, rows>>, <<d, m>>)
    BY <1>7, <1>9, <2>1, <2>2, <2>4, <2>7, <2>9, <2>11, RowThenConv
  <2>14. Leads(s, <<conv, rows>>, <<d, m>>)
    BY <1>11, <1>13, <2>4, <2>13, ThenLeads
  <2>15. Leads(t, <<conv, rows>>, <<d, m>>)
    BY <1>12, <1>13, <1>15, <2>10, <2>13, <2>14, ThenAnnounce
  <2>16. Leads(z, <<d, m>>, <<d, m>>)
    <3>1. <<d, m>> \in States
      BY <2>10, <2>13 DEF States
    <3> QED BY <1>10, <3>1, BlockLeads, NothingToDo
  <2>17. Leads(t \o z, <<conv, rows>>, <<d, m>>)
    BY <1>11, <1>14, <1>15, <2>15, <2>16, ThenLeads
  <2> QED BY <2>1, <2>12, <2>17
<1>18. Start(r, t \o z, <<>>)
  BY <1>2, <1>3, <1>4, <1>5, <1>6, <1>8, <1>9, <1>10, <1>13, <1>15 DEF RemoveMember
<1> QED BY <1>16, <1>17, <1>18 DEF Launches

\* Blocking a member removes him first; anybody else is only put on the list.
LEMMA BlockLaunches ==
  ASSUME Typed, NEW r \in Slots, NEW u \in Users, BlockMember(r, u)
  PROVE  Launches(r)
<1>1. Deciding(r) /\ (IsActiveMember(rows[u]) => rows[u].role # "OWNER")
  BY DEF BlockMember, RequesterIsActive
<1>2. PICK z : z = <<Block(u)>>
  OBVIOUS
<1>3. z \in Seq(DbCalls) /\ z # <<>> /\ <<>> \in Seq(DbCalls)
  BY <1>2, CallTypes, OneCall
<1>4. CASE ~IsActiveMember(rows[u])
  <2>1. Start(r, <<>> \o z, <<>>)
    BY <1>2, <1>4 DEF BlockMember
  <2>2. <<>> \o z = z
    BY <1>3, Joins
  <2>3. Fresh(r) => <<conv, rows>> \in States
    BY <1>1, FreshMeans DEF States
  <2>4. Fresh(r) => Leads(z, <<conv, rows>>, <<conv, rows>>)
    BY <1>2, <2>3, BlockLeads
  <2>5. Start(r, z, <<>>)
    BY <2>1, <2>2
  <2> QED BY <1>1, <1>3, <2>4, <2>5, SameLaunches
<1>5. CASE IsActiveMember(rows[u])
  <2>1. rows[u].status = "ACTIVE" /\ rows[u].role # "OWNER"
    BY <1>1, <1>5 DEF IsActiveMember
  <2>2. PICK isAdmin \in BOOLEAN : isAdmin = (rows[u].role = "ADMIN")
    OBVIOUS
  <2>3. PICK admins : admins = Seen(r).admins \ {u}
    OBVIOUS
  <2>4. PICK g : g = [admins |-> admins]
    OBVIOUS
  <2>5. PICK f : f = [left |-> TRUE]
    OBVIOUS
  <2>6. PICK h : h = [count |-> OneLess(Seen(r).count)]
    OBVIOUS
  <2>7. admins \in SUBSET Users /\ f \in RowFields /\ h \in ConvFields /\ g \in ConvFields
    BY <1>1, <2>3, <2>4, <2>5, <2>6, Reads, FieldTypes
  <2>8. PICK p : p = IF isAdmin THEN <<SetConv(g)>> ELSE <<>>
    OBVIOUS
  <2>9. PICK q : q = <<SetRow(u, f), SetConv(h)>>
    OBVIOUS
  <2>10. p \in Seq(DbCalls) /\ q \in Seq(DbCalls)
    <3>1. /\ SetConv(g) \in DbCalls /\ SetRow(u, f) \in DbCalls /\ SetConv(h) \in DbCalls
      BY <2>7, CallTypes
    <3>2. q \in Seq(DbCalls)
      BY <2>9, <3>1, Splits
    <3>3. <<SetConv(g)>> \in Seq(DbCalls)
      BY <3>1, OneCall
    <3> QED BY <1>3, <2>8, <3>2, <3>3
  <2>11. PICK s : s = q \o p
    OBVIOUS
  <2>12. s \in Seq(DbCalls)
    BY <2>10, <2>11, Joins
  <2>13. PICK t : t = s \o Announce
    OBVIOUS
  <2>14. t \in Seq(DbCalls) /\ t # <<>>
    BY <2>12, <2>13, ThenAnnounce
  <2>15. t \o z \in Seq(DbCalls) /\ t \o z # <<>>
    BY <1>3, <2>14, Joins
  <2>16. ASSUME Fresh(r)
         PROVE  \E A : Good(A) /\ Leads(t \o z, Now, A)
    <3>1. /\ Now = <<conv, rows>> /\ conv.state = "live" /\ Sane(<<conv, rows>>)
          /\ conv \in ConvType /\ rows \in MemberRows /\ Seen(r) = conv
      BY <1>1, <2>16, FreshMeans
    <3>2. rows[u] # NoRow /\ rows[u] \in Row
      BY <2>1, <3>1, ActiveIsThere
    <3>3. PICK x : x = Merged(f, rows[u])
      OBVIOUS
    <3>4. x \in Row /\ x.role = rows[u].role /\ x.status = "ACTIVE" /\ x.left = TRUE /\ ~IsActiveMember(x)
      BY <2>1, <2>5, <2>7, <3>2, <3>3, RowUpdate, RowIsThere, RowStays DEF IsActiveMember
    <3>5. PICK c : c = Merged(h, conv)
      OBVIOUS
    <3>6. /\ c \in ConvType /\ c.state = "live" /\ c.owner = conv.owner /\ c.admins = conv.admins
          /\ c.count = OneLess(conv.count)
      BY <2>6, <2>7, <3>1, <3>5, ConvUpdate, ConvStays
    <3>7. PICK m : m = [rows EXCEPT ![u] = x]
      OBVIOUS
    <3>8. m \in MemberRows /\ Leads(q, <<conv, rows>>, <<c, m>>)
      BY <2>7, <2>9, <3>1, <3>2, <3>3, <3>5, <3>7, RowThenConv
    <3>9. PICK d : d = IF isAdmin THEN Merged(g, c) ELSE c
      OBVIOUS
    <3>10. /\ d \in ConvType /\ d.state = "live" /\ d.owner = c.owner /\ d.count = c.count
           /\ d.admins = IF isAdmin THEN admins ELSE c.admins
           /\ Leads(p, <<c, m>>, <<d, m>>)
      <4>1. c \in ConvType /\ c.state = "live" /\ m \in MemberRows
        BY <3>6, <3>8
      <4>2. admins \in SUBSET Users
        BY <2>7
      <4>3. g = [admins |-> admins] /\ p = (IF isAdmin THEN <<SetConv(g)>> ELSE <<>>)
        BY <2>4, <2>8
      <4>4. d = IF isAdmin THEN Merged(g, c) ELSE c
        BY <3>9
      <4>5. /\ d \in ConvType /\ d.state = "live" /\ d.owner = c.owner /\ d.count = c.count
            /\ d.admins = IF isAdmin THEN admins ELSE c.admins
            /\ Leads(p, <<c, m>>, <<d, m>>)
        BY <4>1, <4>2, <4>3, <4>4, AdminOut
      <4> QED BY <4>5
    <3>11. d.admins = conv.admins \ {u}
      <4>1. ~isAdmin => u \notin conv.admins
        BY <1>1, <2>1, <2>2, <2>16, FreshMeans
      <4> QED BY <2>3, <3>1, <3>6, <3>10, <4>1
    <3>12. Good(<<d, m>>)
      <4>1. Fits(conv, rows, u, x, d)
        BY <1>1, <1>5, <2>1, <2>16, <3>4, <3>6, <3>10, <3>11, FreshMeans DEF Fits, Counted
      <4> QED BY <3>1, <3>4, <3>7, <3>10, <4>1, FitsIsGood
    <3>13. Leads(s, <<conv, rows>>, <<d, m>>)
      BY <2>10, <2>11, <3>8, <3>10, ThenLeads
    <3>14. Leads(t, <<conv, rows>>, <<d, m>>)
      BY <2>12, <2>13, <3>8, <3>10, <3>13, ThenAnnounce
    <3>15. Leads(z, <<d, m>>, <<d, m>>)
      <4>1. <<d, m>> \in States
        BY <3>8, <3>10 DEF States
      <4> QED BY <1>2, <4>1, BlockLeads
    <3>16. Leads(t \o z, <<conv, rows>>, <<d, m>>)
      BY <1>3, <2>14, <3>14, <3>15, ThenLeads
    <3> QED BY <3>1, <3>12, <3>16
  <2>17. Start(r, t \o z, <<>>)
    BY <1>2, <1>5, <2>2, <2>3, <2>4, <2>5, <2>6, <2>8, <2>9, <2>11, <2>13 DEF BlockMember
  <2> QED BY <1>3, <2>15, <2>16, <2>17 DEF Launches
<1> QED BY <1>4, <1>5

-----------------------------------------------------------------------------
(* Several members at once *)

LEMMA SetInOrder ==
  ASSUME NEW S, IsFiniteSet(S), NEW s, s = SetToSeq(S), NEW n, n = Cardinality(S)
  PROVE  /\ n \in Nat /\ s \in [1..n -> S]
         /\ \A i, j \in 1..n : s[i] = s[j] => i = j
         /\ \A v \in S : \E i \in 1..n : s[i] = v
<1>1. n \in Nat /\ ExistsBijection(1..n, S)
  BY FS_CardinalityType
<1>2. \E f \in [1..n -> S] : IsInjective(f)
  BY <1>1 DEF ExistsBijection, Bijection, Injection
<1>3. s \in [1..n -> S] /\ IsInjective(s)
  BY <1>2 DEF SetToSeq
<1>4. s \in Injection(1..n, S)
  BY <1>3 DEF Injection
<1>5. Cardinality(1..n) = n
  BY <1>1, FS_Interval
<1>6. s \in Surjection(1..n, S)
  BY <1>4, <1>5, FS_Injection
<1>7. \A i, j \in 1..n : s[i] = s[j] => i = j
  BY <1>3 DEF IsInjective
<1>8. \A v \in S : \E i \in 1..n : s[i] = v
  BY <1>6 DEF Surjection
<1> QED BY <1>1, <1>3, <1>7, <1>8

\* One call for each of S, each for a row that is as the call expects it.
LEMMA AllLead ==
  ASSUME NEW c \in ConvType, NEW m \in MemberRows, NEW x \in Row, NEW S \in SUBSET Users,
         NEW g, Makes(g, x),
         NEW n, n = Cardinality(S), NEW s, s = SetToSeq(S),
         NEW t \in Seq(DbCalls), Len(t) = n,
         \A i \in 1..n : \/ m[s[i]] = NoRow /\ t[i] = Insert(s[i], x)
                         \/ m[s[i]] # NoRow /\ t[i] = SetRow(s[i], g),
         NEW k, k = [v \in Users |-> IF v \in S THEN x ELSE m[v]]
  PROVE  k \in MemberRows /\ Leads(t, <<c, m>>, <<c, k>>)
<1>1. IsFiniteSet(S)
  BY GroupAssumption, FS_Subset
<1>2. /\ n \in Nat /\ s \in [1..n -> S]
      /\ \A i, j \in 1..n : s[i] = s[j] => i = j
      /\ \A v \in S : \E i \in 1..n : s[i] = v
  BY <1>1, SetInOrder
<1>3. PICK h : h = [j \in 0..n |-> [v \in Users |-> IF \E i \in 1..j : s[i] = v THEN x ELSE m[v]]]
  OBVIOUS
<1>4. ASSUME NEW j \in 0..n
      PROVE  /\ h[j] \in MemberRows
             /\ \A v \in Users : h[j][v] = IF \E i \in 1..j : s[i] = v THEN x ELSE m[v]
  <2>1. h[j] = [v \in Users |-> IF \E i \in 1..j : s[i] = v THEN x ELSE m[v]]
    BY <1>3
  <2>2. \A v \in Users : m[v] \in Row \cup {NoRow}
    BY DEF MemberRows
  <2> QED BY <2>1, <2>2 DEF MemberRows
<1>5. h[0] = m
  <2>1. 0 \in 0..n /\ 1..0 = {}
    BY <1>2
  <2>2. \A v \in Users : h[0][v] = m[v]
    BY <1>4, <2>1
  <2>3. h[0] \in MemberRows
    BY <1>4, <2>1
  <2> QED BY <2>2, <2>3 DEF MemberRows
<1>6. h[n] = k
  <2>1. n \in 0..n
    BY <1>2
  <2>2. \A v \in Users : (\E i \in 1..n : s[i] = v) <=> v \in S
    BY <1>2
  <2>3. \A v \in Users : h[n][v] = k[v]
    BY <1>4, <2>1, <2>2
  <2>4. h[n] \in MemberRows
    BY <1>4, <2>1
  <2> QED BY <2>3, <2>4 DEF MemberRows
<1>7. ASSUME NEW j \in 1..n
      PROVE  Effect(t[j], <<c, h[j - 1]>>, <<c, h[j]>>)
  <2>1. j \in 0..n /\ j - 1 \in 0..n /\ s[j] \in Users
    BY <1>2
  <2>2. \A i \in 1..j - 1 : s[i] # s[j]
    BY <1>2
  <2>3. h[j - 1][s[j]] = m[s[j]]
    BY <1>4, <2>1, <2>2
  <2>4. \A v \in Users : (\E i \in 1..j : s[i] = v) <=> (\E i \in 1..j - 1 : s[i] = v) \/ v = s[j]
    BY <1>2
  <2>5. \A v \in Users : h[j][v] = IF v = s[j] THEN x ELSE h[j - 1][v]
    BY <1>4, <2>1, <2>4
  <2>6. h[j] = [h[j - 1] EXCEPT ![s[j]] = x]
    <3>1. h[j] \in [Users -> Row \cup {NoRow}] /\ h[j - 1] \in [Users -> Row \cup {NoRow}]
      BY <1>4, <2>1 DEF MemberRows
    <3> QED BY <2>1, <2>5, <3>1
  <2>7. CASE m[s[j]] = NoRow
    <3>1. t[j] = Insert(s[j], x)
      BY <2>7
    <3> QED BY <2>3, <2>6, <2>7, <3>1 DEF Effect, Insert
  <2>8. CASE m[s[j]] # NoRow
    <3>1. t[j] = SetRow(s[j], g)
      BY <2>8
    <3>2. m[s[j]] \in Row
      BY <2>1, <2>8 DEF MemberRows
    <3>3. Merged(g, m[s[j]]) = x
      BY <3>2 DEF Makes
    <3> QED BY <2>3, <2>6, <2>8, <3>1, <3>3 DEF Effect, SetRow
  <2> QED BY <2>7, <2>8
<1>8. PICK f : f = [j \in 0..n |-> <<c, h[j]>>]
  OBVIOUS
<1>9. /\ f \in [0..n -> States] /\ f[0] = <<c, m>> /\ f[n] = <<c, k>>
      /\ \A j \in 0..n : f[j] = <<c, h[j]>>
  <2>1. \A j \in 0..n : <<c, h[j]>> \in States
    BY <1>4 DEF States
  <2>2. 0 \in 0..n /\ n \in 0..n
    BY <1>2
  <2> QED BY <1>5, <1>6, <1>8, <2>1, <2>2
<1>10. \A j \in 1..n : Effect(t[j], f[j - 1], f[j])
  <2>1. \A j \in 1..n : j \in 0..n /\ j - 1 \in 0..n
    BY <1>2
  <2> QED BY <1>7, <1>9, <2>1
<1>11. n \in 0..n
  BY <1>2
<1> QED BY <1>4, <1>6, <1>9, <1>10, <1>11 DEF Leads

LEMMA ListIsSeq ==
  ASSUME NEW S, NEW n \in Nat, NEW t \in [1..n -> S]
  PROVE  t \in Seq(S) /\ Len(t) = n
OBVIOUS

\* Everybody who is added was no active member.
LEMMA ManyIsGood ==
  ASSUME NEW c \in ConvType, NEW m \in MemberRows, Sane(<<c, m>>), NEW who \in SUBSET Users,
         NEW x \in Row, x.role = "MEMBER", x.left = FALSE,
         \A v \in who : ~IsActiveMember(m[v]),
         NEW d \in ConvType, d.state = "live", d.owner = c.owner, d.admins = c.admins,
         d.count = IF IsActiveMember(x) THEN c.count + Cardinality(who) ELSE c.count,
         NEW k, k = [v \in Users |-> IF v \in who THEN x ELSE m[v]]
  PROVE  Good(<<d, k>>)
<1>1. /\ c.count = Cardinality(ActiveIn(m))
      /\ \A v \in c.admins : v \in ActiveIn(m) /\ m[v].role \in {"ADMIN", "OWNER"}
      /\ \A v \in Users : m[v].role = "OWNER" => c.owner = v
      /\ \A v \in Users : m[v].left => m[v].status = "ACTIVE"
  BY DEF Sane
<1>2. \A v \in Users : k[v] = IF v \in who THEN x ELSE m[v]
  OBVIOUS
<1>3. k \in MemberRows
  BY DEF MemberRows
<1>4. CASE IsActiveMember(x)
  <2>1. ActiveIn(k) = ActiveIn(m) \cup who
    <3>1. \A v \in Users : IsActiveMember(k[v]) <=> IsActiveMember(m[v]) \/ v \in who
      BY <1>2, <1>4
    <3> QED BY <3>1 DEF ActiveIn
  <2>2. ActiveIn(m) \cap who = {}
    BY DEF ActiveIn
  <2>3. IsFiniteSet(who) /\ IsFiniteSet(ActiveIn(m))
    BY GroupAssumption, FS_Subset, MembersAreFinite
  <2>4. PICK a : a = ActiveIn(m)
    OBVIOUS
  <2>5. Cardinality(a \cup who) = Cardinality(a) + Cardinality(who) - Cardinality({})
    BY <2>2, <2>3, <2>4, FS_Union
  <2>6. Cardinality({}) = 0 /\ Cardinality(a) \in Nat /\ Cardinality(who) \in Nat
    BY <2>3, <2>4, FS_EmptySet, FS_CardinalityType
  <2>7. Cardinality(ActiveIn(k)) = c.count + Cardinality(who)
    <3>1. Cardinality(a \cup who) = Cardinality(a) + Cardinality(who)
      BY <2>5, <2>6
    <3>2. ActiveIn(k) = a \cup who /\ c.count = Cardinality(a)
      BY <1>1, <2>1, <2>4
    <3> QED BY <3>1, <3>2
  <2>8. \A v \in d.admins : v \in ActiveIn(k) /\ k[v].role \in {"ADMIN", "OWNER"}
    BY <1>1, <1>2, <2>1, <2>2 DEF ActiveIn
  <2>9. /\ \A v \in Users : k[v].role = "OWNER" => d.owner = v
        /\ \A v \in Users : k[v].left => k[v].status = "ACTIVE"
    BY <1>1, <1>2
  <2>10. Sane(<<d, k>>)
    BY <1>4, <2>7, <2>8, <2>9 DEF Sane
  <2> QED BY <1>3, <2>10 DEF Good, States
<1>5. CASE ~IsActiveMember(x)
  <2>1. ActiveIn(k) = ActiveIn(m)
    <3>1. \A v \in Users : IsActiveMember(k[v]) <=> IsActiveMember(m[v])
      BY <1>2, <1>5
    <3> QED BY <3>1 DEF ActiveIn
  <2>2. \A v \in d.admins : v \in ActiveIn(k) /\ k[v].role \in {"ADMIN", "OWNER"}
    BY <1>1, <1>2, <2>1 DEF ActiveIn
  <2>3. /\ \A v \in Users : k[v].role = "OWNER" => d.owner = v
        /\ \A v \in Users : k[v].left => k[v].status = "ACTIVE"
    BY <1>1, <1>2
  <2>4. Sane(<<d, k>>)
    BY <1>1, <1>5, <2>1, <2>2, <2>3 DEF Sane
  <2> QED BY <1>3, <2>4 DEF Good, States
<1> QED BY <1>4, <1>5

LEMMA AddLaunches ==
  ASSUME Typed, NEW r \in Slots, NEW who \in SUBSET Users, AddMembers(r, who)
  PROVE  Launches(r)
<1>1. PICK status : status = IF Seen(r).settings.requireApproval /\ ~RequesterIsManager(r)
                             THEN "PENDING" ELSE "ACTIVE"
  OBVIOUS
<1>2. PICK x : x = NewRow("MEMBER", status)
  OBVIOUS
<1>30. PICK f : f = AsNew("MEMBER", status)
  OBVIOUS
<1>3. /\ x \in Row /\ x.role = "MEMBER" /\ x.status = status /\ x.left = FALSE
      /\ f \in RowFields /\ Makes(f, x)
  <2>1. status \in Status /\ "MEMBER" \in Role
    BY <1>1 DEF Role, Status
  <2> QED BY <1>2, <1>30, <2>1, NewRowTypes
<1>4. Deciding(r) /\ \A u \in who : rows[u] = NoRow \/ rows[u].left
  BY DEF AddMembers, RequesterIsActive
<1>5. PICK S : S = {u \in who : rows[u] = NoRow}
  OBVIOUS
<1>6. PICK T : T = {u \in who : rows[u] # NoRow}
  OBVIOUS
<1>7. PICK new : new = SetToSeq(S)
  OBVIOUS
<1>8. PICK back : back = SetToSeq(T)
  OBVIOUS
<1>9. IsFiniteSet(S) /\ IsFiniteSet(T) /\ IsFiniteSet(who)
  BY <1>5, <1>6, GroupAssumption, FS_Subset
<1>10. PICK n : n = Cardinality(S)
  OBVIOUS
<1>11. PICK k : k = Cardinality(T)
  OBVIOUS
<1>12. n \in Nat /\ new \in [1..n -> S] /\ DOMAIN new = 1..n
  BY <1>7, <1>9, <1>10, SetInOrder
<1>13. k \in Nat /\ back \in [1..k -> T] /\ DOMAIN back = 1..k
  BY <1>8, <1>9, <1>11, SetInOrder
<1>14. PICK p : p = [i \in DOMAIN new |-> Insert(new[i], x)]
  OBVIOUS
<1>15. PICK q : q = [i \in DOMAIN back |-> SetRow(back[i], f)]
  OBVIOUS
<1>16. p \in Seq(DbCalls) /\ Len(p) = n
  <2>1. \A i \in 1..n : Insert(new[i], x) \in DbCalls
    BY <1>3, <1>5, <1>12, CallTypes
  <2>2. p \in [1..n -> DbCalls]
    BY <1>12, <1>14, <2>1
  <2> QED BY <1>12, <2>2, ListIsSeq
<1>17. q \in Seq(DbCalls) /\ Len(q) = k
  <2>1. \A i \in 1..k : SetRow(back[i], f) \in DbCalls
    BY <1>3, <1>6, <1>13, CallTypes
  <2>2. q \in [1..k -> DbCalls]
    BY <1>13, <1>15, <2>1
  <2> QED BY <1>13, <2>2, ListIsSeq
<1>18. PICK g : g = [count |-> Seen(r).count + Cardinality(who)]
  OBVIOUS
<1>19. g \in ConvFields
  <2>1. Cardinality(who) \in Nat
    BY <1>9, FS_CardinalityType
  <2> QED BY <1>4, <1>18, <2>1, Reads, FieldTypes
<1>20. PICK z : z = IF status = "ACTIVE" THEN <<SetConv(g)>> ELSE <<>>
  OBVIOUS
<1>21. z \in Seq(DbCalls)
  <2>1. <<SetConv(g)>> \in Seq(DbCalls) /\ <<>> \in Seq(DbCalls)
    BY <1>19, CallTypes, OneCall
  <2> QED BY <1>20, <2>1
<1>22. PICK s : s = p \o q
  OBVIOUS
<1>23. PICK t : t = s \o z
  OBVIOUS
<1>24. s \in Seq(DbCalls) /\ t \in Seq(DbCalls)
  <2>1. s \in Seq(DbCalls)
    BY <1>16, <1>17, <1>22, Joins
  <2> QED BY <1>21, <1>23, <2>1, Joins
<1>25. PICK undo : undo = [i \in DOMAIN back |->
                 SetRow(back[i], [status |-> rows[back[i]].status, left |-> rows[back[i]].left])]
  OBVIOUS
<1>26. undo \in Seq(DbCalls)
  <2>1. ASSUME NEW i \in 1..k
        PROVE  SetRow(back[i], [status |-> rows[back[i]].status, left |-> rows[back[i]].left]) \in DbCalls
    <3>1. back[i] \in Users
      BY <1>6, <1>13
    <3>2. rows[back[i]] \in AnyRow
      BY <1>4, <3>1, Reads
    <3>3. [status |-> rows[back[i]].status, left |-> rows[back[i]].left] \in UndoFields
      BY <3>2 DEF AnyRow, Status, UndoFields
    <3> QED BY <3>1, <3>3, CallTypes
  <2>2. undo \in [1..k -> DbCalls]
    BY <1>13, <1>25, <2>1, SMTT(40)
  <2> QED BY <1>13, <2>2, ListIsSeq
<1>27. Start(r, t \o Announce, undo)
  BY <1>1, <1>2, <1>5, <1>6, <1>7, <1>8, <1>14, <1>15, <1>18, <1>20, <1>22, <1>23, <1>25, <1>30 DEF AddMembers
<1>28. t \o Announce \in Seq(DbCalls) /\ t \o Announce # <<>>
  BY <1>24, ThenAnnounce
<1>29. ASSUME Fresh(r)
       PROVE  \E A : Good(A) /\ Leads(t \o Announce, Now, A)
  <2>1. /\ Now = <<conv, rows>> /\ conv.state = "live" /\ Sane(<<conv, rows>>)
        /\ conv \in ConvType /\ rows \in MemberRows /\ Seen(r) = conv
    BY <1>4, <1>29, FreshMeans
  <2>2. PICK a : a = [v \in Users |-> IF v \in S THEN x ELSE rows[v]]
    OBVIOUS
  <2>3. a \in MemberRows /\ Leads(p, <<conv, rows>>, <<conv, a>>)
    <3>1. S \in SUBSET Users
      BY <1>5
    <3>2. \A i \in 1..n : rows[new[i]] = NoRow /\ p[i] = Insert(new[i], x)
      BY <1>5, <1>12, <1>14
    <3>3. \A i \in 1..n : \/ rows[new[i]] = NoRow /\ p[i] = Insert(new[i], x)
                          \/ rows[new[i]] # NoRow /\ p[i] = SetRow(new[i], f)
      BY <3>2
    <3>4. /\ conv \in ConvType /\ rows \in MemberRows /\ x \in Row /\ Makes(f, x)
          /\ p \in Seq(DbCalls) /\ Len(p) = n
      BY <1>3, <1>16, <2>1
    <3> QED BY <1>7, <1>10, <2>2, <3>1, <3>3, <3>4, AllLead, SMTT(90)
  <2>4. PICK b : b = [v \in Users |-> IF v \in T THEN x ELSE a[v]]
    OBVIOUS
  <2>5. b \in MemberRows /\ Leads(q, <<conv, a>>, <<conv, b>>)
    <3>1. T \in SUBSET Users
      BY <1>6
    <3>2. \A i \in 1..k : a[back[i]] # NoRow /\ q[i] = SetRow(back[i], f)
      <4>1. \A v \in T : a[v] = rows[v] /\ rows[v] # NoRow
        BY <1>5, <1>6, <2>2
      <4> QED BY <1>13, <1>15, <4>1
    <3>3. \A i \in 1..k : \/ a[back[i]] = NoRow /\ q[i] = Insert(back[i], x)
                          \/ a[back[i]] # NoRow /\ q[i] = SetRow(back[i], f)
      BY <3>2
    <3>4. /\ conv \in ConvType /\ a \in MemberRows /\ x \in Row /\ Makes(f, x)
          /\ q \in Seq(DbCalls) /\ Len(q) = k
      BY <1>3, <1>17, <2>1, <2>3
    <3> QED BY <1>8, <1>11, <2>4, <3>1, <3>3, <3>4, AllLead, SMTT(90)
  <2>6. b = [v \in Users |-> IF v \in who THEN x ELSE rows[v]]
    BY <1>5, <1>6, <2>2, <2>4
  <2>7. PICK d : d = IF status = "ACTIVE" THEN Merged(g, conv) ELSE conv
    OBVIOUS
  <2>8. /\ d \in ConvType /\ d.state = "live" /\ d.owner = conv.owner /\ d.admins = conv.admins
        /\ d.count = IF status = "ACTIVE" THEN conv.count + Cardinality(who) ELSE conv.count
    <3>1. CASE status = "ACTIVE"
      BY <1>18, <1>19, <2>1, <2>7, <3>1, ConvUpdate, ConvStays
    <3>2. CASE status # "ACTIVE"
      BY <2>1, <2>7, <3>2
    <3> QED BY <3>1, <3>2
  <2>9. Good(<<d, b>>)
    <3>1. IsActiveMember(x) <=> status = "ACTIVE"
      BY <1>3 DEF IsActiveMember
    <3>2. \A v \in who : ~IsActiveMember(rows[v])
      BY <1>4 DEF IsActiveMember, NoRow
    <3>3. d.count = IF IsActiveMember(x) THEN conv.count + Cardinality(who) ELSE conv.count
      BY <2>8, <3>1
    <3> QED BY <1>3, <2>1, <2>6, <2>8, <3>2, <3>3, ManyIsGood
  <2>10. Leads(z, <<conv, b>>, <<d, b>>)
    <3>1. CASE status = "ACTIVE"
      BY <1>19, <1>20, <2>1, <2>5, <2>7, <3>1, ConvLeads
    <3>2. CASE status # "ACTIVE"
      <4>1. <<conv, b>> \in States
        BY <2>1, <2>5 DEF States
      <4> QED BY <1>20, <2>7, <3>2, <4>1, NothingToDo
    <3> QED BY <3>1, <3>2
  <2>11. Leads(s, <<conv, rows>>, <<conv, b>>)
    BY <1>16, <1>17, <1>22, <2>3, <2>5, ThenLeads
  <2>12. Leads(t, <<conv, rows>>, <<d, b>>)
    BY <1>21, <1>23, <1>24, <2>10, <2>11, ThenLeads
  <2>13. Leads(t \o Announce, <<conv, rows>>, <<d, b>>)
    BY <1>24, <2>5, <2>8, <2>12, ThenAnnounce
  <2> QED BY <2>1, <2>9, <2>13
<1> QED BY <1>26, <1>27, <1>28, <1>29 DEF Launches

-----------------------------------------------------------------------------
(* The inductive step *)

LEMMA DecideLaunches ==
  ASSUME Typed, NEW r \in Slots, Decide(r)
  PROVE  Refuse(r) \/ Launches(r)
<1>1. CASE \E who \in SUBSET Users : AddMembers(r, who)
  BY <1>1, AddLaunches
<1>2. CASE JoinByInvite(r)
  BY <1>2, JoinPendingLaunches, JoinNowLaunches
<1>3. CASE \E u \in Users : ApproveMember(r, u) \/ RejectMember(r, u)
  BY <1>3, ApproveLaunches, RejectLaunches
<1>4. CASE LeaveAsMember(r) \/ LeaveAuto(r)
  BY <1>4, LeaveLaunches, LeaveAutoLaunches
<1>5. CASE \E u \in Users : LeaveToHeir(r, u) \/ TransferOwner(r, u)
  BY <1>5, LeaveToHeirLaunches, TransferLaunches
<1>6. CASE \E u \in Users, block \in BOOLEAN : RemoveMember(r, u, block)
  BY <1>6, RemoveLaunches
<1>7. CASE \E u \in Users : BlockMember(r, u) \/ UnblockMember(r, u)
  BY <1>7, BlockLaunches, UnblockLaunches
<1>8. CASE \E u \in Users, isAdmin \in BOOLEAN : SetAdmin(r, u, isAdmin)
  BY <1>8, SetAdminLaunches
<1>9. CASE \E s \in SettingsChoices : UpdateSettings(r, s)
  BY <1>9, SettingsLaunch
<1>10. CASE UpdateGroupInfo(r) \/ DissolveGroup(r)
  BY <1>10, InfoLaunches, DissolveLaunches
<1> QED BY <1>1, <1>2, <1>3, <1>4, <1>5, <1>6, <1>7, <1>8, <1>9, <1>10 DEF Decide

\* The item of a new group, and the calls that fill its members in.
LEMMA CreateLaunches ==
  ASSUME Typed, NEW r \in Slots, NEW u \in Users, NEW members \in SUBSET Users,
         CreateGroup(r, u, members)
  PROVE  /\ conv' \in ConvType /\ rows' = rows /\ blocked' = blocked
         /\ \E todo, undo \in Seq(DbCalls) :
              /\ todo # <<>>
              /\ slots' = [slots EXCEPT ![r] = [pc |-> "write", todo |-> todo, undo |-> undo]]
              /\ rows = NoRows => \E A : Good(A) /\ Leads(todo, <<conv', rows'>>, A)
<1>1. PICK n : n = Cardinality(members)
  OBVIOUS
<1>2. PICK s : s = SetToSeq(members)
  OBVIOUS
<1>3. IsFiniteSet(members) /\ members \subseteq Users
  BY GroupAssumption, FS_Subset
<1>4. n \in Nat /\ s \in [1..n -> members]
  BY <1>1, <1>2, <1>3, SetInOrder
<1>5. PICK c : c = conv'
  OBVIOUS
<1>6. /\ c = [NoConv EXCEPT !.state = "live", !.owner = u, !.count = n + 1]
      /\ rows' = rows /\ blocked' = blocked /\ u \notin members
  BY <1>1, <1>5 DEF CreateGroup
<1>7. c = [state |-> "live", owner |-> u, admins |-> {}, count |-> n + 1, settings |-> DefaultSettings]
  BY <1>6 DEF NoConv
<1>8. c \in ConvType /\ c.state = "live" /\ c.owner = u /\ c.admins = {} /\ c.count = n + 1
  BY <1>4, <1>7 DEF ConvType, DefaultSettings, SettingsType
<1>9. PICK x : x = NewRow("OWNER", "ACTIVE")
  OBVIOUS
<1>10. PICK y : y = NewRow("MEMBER", "ACTIVE")
  OBVIOUS
<1>11. /\ x \in Row /\ x.role = "OWNER" /\ x.status = "ACTIVE" /\ x.left = FALSE
       /\ y \in Row /\ y.role = "MEMBER" /\ y.status = "ACTIVE" /\ y.left = FALSE
  BY <1>9, <1>10, NewRowTypes DEF Role, Status
<1>12. PICK a : a = <<Insert(u, x)>>
  OBVIOUS
<1>13. PICK b : b = [i \in 1..n |-> Insert(s[i], y)]
  OBVIOUS
<1>14. PICK e : e = <<SetConv(<<>>)>>
  OBVIOUS
<1>15. a \in Seq(DbCalls) /\ e \in Seq(DbCalls) /\ a # <<>> /\ e # <<>>
  BY <1>11, <1>12, <1>14, CallTypes, FieldTypes, OneCall
<1>16. b \in Seq(DbCalls) /\ Len(b) = n
  <2>1. \A i \in 1..n : Insert(s[i], y) \in DbCalls
    BY <1>3, <1>4, <1>11, CallTypes
  <2>2. b \in [1..n -> DbCalls]
    BY <1>13, <2>1
  <2> QED BY <1>4, <2>2, ListIsSeq
<1>17. PICK p : p = a \o b
  OBVIOUS
<1>18. PICK t : t = p \o e
  OBVIOUS
<1>19. p \in Seq(DbCalls) /\ t \in Seq(DbCalls) /\ t # <<>>
  <2>1. p \in Seq(DbCalls)
    BY <1>15, <1>16, <1>17, Joins
  <2> QED BY <1>15, <1>18, <2>1, Joins
<1>20. PICK undo : undo = <<[kind |-> "dropRows"], [kind |-> "dropConv"]>>
  OBVIOUS
<1>21. undo \in Seq(DbCalls)
  BY <1>20, CallTypes, Splits
<1>22. slots' = [slots EXCEPT ![r] = [pc |-> "write", todo |-> t, undo |-> undo]]
  BY <1>1, <1>2, <1>9, <1>10, <1>12, <1>13, <1>14, <1>17, <1>18, <1>20 DEF CreateGroup
<1>23. ASSUME rows = NoRows
       PROVE  \E A : Good(A) /\ Leads(t, <<c, rows>>, A)
  <2>1. rows \in MemberRows /\ \A v \in Users : rows[v] = NoRow
    BY <1>23 DEF NoRows, MemberRows
  <2>2. PICK k : k = [rows EXCEPT ![u] = x]
    OBVIOUS
  <2>3. k \in MemberRows /\ Leads(a, <<c, rows>>, <<c, k>>)
    BY <1>8, <1>11, <1>12, <2>1, <2>2, InsertLeads
  <2>4. k[u] = x /\ \A v \in Users : v # u => k[v] = NoRow
    BY <2>1, <2>2 DEF MemberRows
  <2>5. PICK m : m = [v \in Users |-> IF v \in members THEN y ELSE k[v]]
    OBVIOUS
  <2>6. m \in MemberRows /\ Leads(b, <<c, k>>, <<c, m>>)
    <3>1. \A i \in 1..n : k[s[i]] = NoRow /\ b[i] = Insert(s[i], y)
      <4>1. \A i \in 1..n : s[i] \in Users /\ s[i] # u
        BY <1>3, <1>4, <1>6
      <4> QED BY <1>13, <2>4, <4>1
    <3>2. PICK f : Makes(f, y)
      BY <1>10, NewRowTypes DEF Role, Status
    <3>3. /\ c \in ConvType /\ k \in MemberRows /\ y \in Row /\ members \in SUBSET Users
          /\ b \in Seq(DbCalls) /\ Len(b) = n
      BY <1>8, <1>11, <1>16, <2>3
    <3>4. \A i \in 1..n : \/ k[s[i]] = NoRow /\ b[i] = Insert(s[i], y)
                          \/ k[s[i]] # NoRow /\ b[i] = SetRow(s[i], f)
      BY <3>1
    <3> QED BY <1>1, <1>2, <2>5, <3>2, <3>3, <3>4, AllLead, SMTT(90)
  <2>7. Leads(e, <<c, m>>, <<c, m>>)
    BY <1>8, <1>14, <2>6, FieldTypes, ConvLeads, NothingMerged
  <2>8. Leads(p, <<c, rows>>, <<c, m>>)
    BY <1>15, <1>16, <1>17, <2>3, <2>6, ThenLeads
  <2>9. Leads(t, <<c, rows>>, <<c, m>>)
    BY <1>15, <1>18, <1>19, <2>7, <2>8, ThenLeads
  <2>10. Good(<<c, m>>)
    <3>1. PICK d : d = [c EXCEPT !.count = 1]
      OBVIOUS
    <3>2. /\ d \in ConvType /\ d.state = "live" /\ d.owner = u /\ d.admins = {} /\ d.count = 1
      BY <1>8, <3>1 DEF ConvType
    <3>3. ActiveIn(k) = {u}
      BY <1>11, <2>4 DEF ActiveIn, IsActiveMember, NoRow
    <3>4. Cardinality({u}) = 1
      BY FS_Singleton
    <3>5. Sane(<<d, k>>)
      BY <1>11, <2>4, <3>2, <3>3, <3>4 DEF Sane, NoRow
    <3>6. \A v \in members : ~IsActiveMember(k[v])
      BY <1>6, <2>4 DEF IsActiveMember, NoRow
    <3>7. IsActiveMember(y) /\ c.count = d.count + Cardinality(members)
      BY <1>1, <1>4, <1>8, <1>11, <3>2 DEF IsActiveMember
    <3> QED BY <1>8, <1>11, <2>3, <2>5, <3>2, <3>5, <3>6, <3>7, ManyIsGood, ZenonT(40)
  <2> QED BY <2>9, <2>10
<1> QED BY <1>5, <1>6, <1>8, <1>19, <1>21, <1>22, <1>23

LEMMA TypedInit == Init => Typed
BY RowIsThere DEF Init, Typed, NoConv, ConvType, DefaultSettings, SettingsType

\* What a slot holds while its request writes.
LEMMA Writing ==
  ASSUME Typed, NEW r \in Slots, IsWriting(r)
  PROVE  /\ slots[r] \in Writers
         /\ slots[r].todo \in Seq(DbCalls) /\ slots[r].todo # <<>>
         /\ slots[r].undo \in Seq(DbCalls) /\ slots[r].pc \in {"write", "undo"}
         /\ slots[r] = [pc |-> slots[r].pc, todo |-> slots[r].todo, undo |-> slots[r].undo]
         /\ Call(r) \in DbCalls
<1>1. slots[r] \in Writers
  BY DEF Typed, IsWriting, Idle, Deciders
<1>2. /\ slots[r].todo \in Seq(DbCalls) /\ slots[r].todo # <<>>
      /\ slots[r].undo \in Seq(DbCalls) /\ slots[r].pc \in {"write", "undo"}
      /\ slots[r] = [pc |-> slots[r].pc, todo |-> slots[r].todo, undo |-> slots[r].undo]
  BY <1>1 DEF Writers
<1>3. Call(r) \in DbCalls
  BY <1>2, Tails DEF Call
<1> QED BY <1>1, <1>2, <1>3

LEMMA ReturnTyped ==
  ASSUME Typed, NEW r \in Slots, IsWriting(r), Return(r)
  PROVE  slots' \in [Slots -> {Idle} \cup Deciders \cup Writers]
<1>1. PICK w : w = slots[r]
  OBVIOUS
<1>2. /\ w.todo \in Seq(DbCalls) /\ w.todo # <<>> /\ w.undo \in Seq(DbCalls)
      /\ w.pc \in {"write", "undo"} /\ w = [pc |-> w.pc, todo |-> w.todo, undo |-> w.undo]
  BY <1>1, Writing
<1>3. PICK t : t = Tail(w.todo)
  OBVIOUS
<1>4. t \in Seq(DbCalls) /\ (Len(w.todo) = 1 <=> t = <<>>)
  BY <1>2, <1>3, Tails
<1>5. PICK v : v = [w EXCEPT !.todo = t]
  OBVIOUS
<1>6. v = [pc |-> w.pc, todo |-> t, undo |-> w.undo]
  BY <1>2, <1>5
<1>7. Len(w.todo) # 1 => v \in Writers
  BY <1>2, <1>4, <1>6 DEF Writers
<1>8. slots' = [slots EXCEPT ![r] = IF Len(w.todo) = 1 THEN Idle ELSE v]
  BY <1>1, <1>3, <1>5 DEF Return
<1> QED BY <1>7, <1>8 DEF Typed

LEMMA ThrowTyped ==
  ASSUME Typed, NEW r \in Slots, IsWriting(r), Throw(r)
  PROVE  slots' \in [Slots -> {Idle} \cup Deciders \cup Writers]
<1>1. CASE slots[r].pc = "undo"
  BY <1>1, ReturnTyped DEF Throw
<1>2. CASE slots[r].pc # "undo"
  <2>1. slots[r].undo \in Seq(DbCalls)
    BY Writing
  <2>2. PICK w : w = [pc |-> "undo", todo |-> slots[r].undo, undo |-> <<>>]
    OBVIOUS
  <2>3. slots[r].undo # <<>> => w \in Writers
    <3>1. <<>> \in Seq(DbCalls)
      OBVIOUS
    <3> QED BY <2>1, <2>2, <3>1 DEF Writers
  <2>4. slots' = [slots EXCEPT ![r] = IF slots[r].undo = <<>> THEN Idle ELSE w]
    BY <1>2, <2>2 DEF Throw
  <2> QED BY <2>3, <2>4 DEF Typed
<1> QED BY <1>1, <1>2

LEMMA CallKinds ==
  ASSUME NEW c \in DbCalls
  PROVE  /\ c.kind = "conv" => c.set \in ConvFields
         /\ c.kind \in {"row", "update"} => c.user \in Users /\ c.set \in RowFields \cup UndoFields
         /\ c.kind = "insert" => c.user \in Users /\ c.row \in Row
         /\ c.kind \in {"block", "unblock"} => c.user \in Users
         /\ c.kind = "put" => /\ DOMAIN c.rows \subseteq Users
                              /\ \A u \in DOMAIN c.rows : c.rows[u] \in AnyRow
<1>1. CASE c \in [kind : {"put"}, rows : UNION {[D -> AnyRow] : D \in SUBSET Users}]
  BY <1>1
<1>2. CASE c \notin [kind : {"put"}, rows : UNION {[D -> AnyRow] : D \in SUBSET Users}]
  BY <1>2 DEF DbCalls
<1> QED BY <1>1, <1>2

\* A read is followed by the write it is for.
LEMMA ThenTyped ==
  ASSUME Typed, NEW r \in Slots, IsWriting(r), NEW c \in DbCalls, Then(r, c)
  PROVE  /\ slots' \in [Slots -> {Idle} \cup Deciders \cup Writers]
         /\ slots'[r].todo = <<c>> \o Tail(slots[r].todo) /\ slots'[r].pc = slots[r].pc
         /\ \A q \in Slots : q # r => slots'[q] = slots[q]
<1>1. PICK w : w = slots[r]
  OBVIOUS
<1>2. /\ w.todo \in Seq(DbCalls) /\ w.todo # <<>> /\ w.undo \in Seq(DbCalls)
      /\ w.pc \in {"write", "undo"} /\ w = [pc |-> w.pc, todo |-> w.todo, undo |-> w.undo]
  BY <1>1, Writing
<1>3. PICK t : t = <<c>> \o Tail(w.todo)
  OBVIOUS
<1>4. t \in Seq(DbCalls) /\ t # <<>>
  <2>1. Tail(w.todo) \in Seq(DbCalls)
    BY <1>2, Tails
  <2>2. <<c>> \in Seq(DbCalls) /\ <<c>> # <<>>
    BY OneCall
  <2> QED BY <1>3, <2>1, <2>2, Joins
<1>5. PICK v : v = [w EXCEPT !.todo = t]
  OBVIOUS
<1>6. v = [pc |-> w.pc, todo |-> t, undo |-> w.undo]
  BY <1>2, <1>5
<1>7. v \in Writers
  BY <1>2, <1>4, <1>6 DEF Writers
<1>8. slots' = [slots EXCEPT ![r] = v]
  <2>1. slots' = [slots EXCEPT ![r].todo = t]
    BY <1>1, <1>3 DEF Then
  <2> QED BY <1>1, <1>5, <2>1
<1>9. slots' \in [Slots -> {Idle} \cup Deciders \cup Writers]
  BY <1>7, <1>8 DEF Typed
<1>10. slots'[r] = v /\ \A q \in Slots : q # r => slots'[q] = slots[q]
  BY <1>8 DEF Typed
<1>11. v.todo = t /\ v.pc = w.pc
  BY <1>6
<1> QED BY <1>1, <1>3, <1>9, <1>10, <1>11

\* The calls that only read: when the write that follows finds what has been
\* read, the two do what the call does.
Reading(r) == TouchRead(r) \/ DropRead(r) \/ (UpdateRead(r) /\ rows[Call(r).user].id)

LEMMA ReadThenWrite ==
  ASSUME Typed, NEW r \in Slots, IsWriting(r), Reading(r)
  PROVE  /\ UNCHANGED <<tables, counters>>
         /\ \E c \in DbCalls : /\ Then(r, c)
                               /\ \A B : Effect(Call(r), Now, B) => Effect(c, Now, B)
<1>1. PICK e : e = Call(r)
  OBVIOUS
<1>2. PICK A : A = Now
  OBVIOUS
<1>3. A[1] = conv /\ A[2] = rows /\ A = <<conv, rows>>
  BY <1>2 DEF Now
<1>4. e \in DbCalls
  BY <1>1, Writing
<1>5. CASE TouchRead(r)
  <2>1. PICK seen : seen = {u \in Users : rows[u] # NoRow /\ ~rows[u].left}
    OBVIOUS
  <2>2. PICK m : m = [u \in seen |-> rows[u]]
    OBVIOUS
  <2>3. PICK c : c = [kind |-> "put", rows |-> m]
    OBVIOUS
  <2>4. c \in DbCalls
    <3>1. \A u \in seen : rows[u] \in AnyRow
      BY <2>1 DEF Typed
    <3>2. m \in [seen -> AnyRow] /\ seen \in SUBSET Users
      BY <2>1, <2>2, <3>1
    <3>3. c \in [kind : {"put"}, rows : UNION {[D -> AnyRow] : D \in SUBSET Users}]
      BY <2>3, <3>2
    <3> QED BY <3>3 DEF DbCalls
  <2>5. Then(r, c) /\ e.kind = "touch" /\ UNCHANGED <<tables, counters>>
    BY <1>1, <1>5, <2>1, <2>2, <2>3 DEF TouchRead, Calls
  <2>6. ASSUME NEW B, Effect(e, A, B)
        PROVE  Effect(c, A, B)
    <3>1. B = A
      BY <2>5, <2>6 DEF Effect
    <3>2. c.kind = "put" /\ c.rows = m /\ DOMAIN m = seen /\ \A u \in seen : m[u] = A[2][u]
      BY <1>3, <2>2, <2>3
    <3> QED BY <3>1, <3>2 DEF Effect
  <2> QED BY <1>1, <1>2, <2>4, <2>5, <2>6
<1>6. CASE DropRead(r)
  <2>1. PICK D : D = {u \in Users : rows[u] # NoRow}
    OBVIOUS
  <2>2. PICK c : c = [kind |-> "delete", users |-> D]
    OBVIOUS
  <2>3. c \in DbCalls
    BY <2>1, <2>2, CallTypes
  <2>4. Then(r, c) /\ e.kind = "dropRows" /\ UNCHANGED <<tables, counters>>
    BY <1>1, <1>6, <2>1, <2>2 DEF DropRead, Calls
  <2>5. ASSUME NEW B, Effect(e, A, B)
        PROVE  Effect(c, A, B)
    <3>1. B = <<conv, NoRows>>
      BY <1>3, <2>4, <2>5 DEF Effect
    <3>2. NoRows = [u \in Users |-> IF u \in D THEN NoRow ELSE rows[u]]
      BY <2>1 DEF NoRows
    <3> QED BY <1>3, <2>2, <3>1, <3>2 DEF Effect
  <2> QED BY <1>1, <1>2, <2>3, <2>4, <2>5
<1>7. CASE UpdateRead(r) /\ rows[e.user].id
  <2>1. PICK c : c = [kind |-> "update", user |-> e.user, set |-> e.set]
    OBVIOUS
  <2>2. Then(r, c) /\ e.kind = "row" /\ UNCHANGED <<tables, counters>>
    BY <1>1, <1>7, <2>1 DEF UpdateRead, Calls
  <2>3. c \in DbCalls
    <3>1. e.user \in Users /\ e.set \in RowFields \cup UndoFields
      BY <1>4, <2>2, CallKinds
    <3> QED BY <2>1, <3>1, CallTypes
  <2>4. rows[e.user] # NoRow
    BY <1>7, RowIsThere
  <2>5. ASSUME NEW B, Effect(e, A, B)
        PROVE  Effect(c, A, B)
    <3>1. B = <<A[1], [A[2] EXCEPT ![e.user] = Merged(e.set, A[2][e.user])]>>
      BY <1>3, <2>2, <2>4, <2>5 DEF Effect
    <3> QED BY <2>1, <3>1 DEF Effect
  <2> QED BY <1>1, <1>2, <2>2, <2>3, <2>5
<1> QED BY <1>1, <1>5, <1>6, <1>7 DEF Reading

LEMMA DatabaseTyped ==
  ASSUME Typed, NEW r \in Slots, DatabaseCall(r)
  PROVE  Typed'
<1>1. IsWriting(r)
  BY DEF DatabaseCall, WriteConv, UpdateRead, UpdateRow, InsertRow, TouchRead, TouchPut, WriteBlock,
         DropRead, DropRows, DropConv, CallFails, Calls
<1>2. Call(r) \in DbCalls
  BY <1>1, Writing
<1>3. /\ conv \in ConvType /\ rows \in [Users -> AnyRow] /\ blocked \in SUBSET Users
      /\ slots \in [Slots -> {Idle} \cup Deciders \cup Writers]
      /\ started \in Nat /\ calm \in BOOLEAN
  BY DEF Typed
<1>4. CASE WriteConv(r)
  <2>1. Merged(Call(r).set, conv) \in ConvType
    BY <1>2, <1>3, <1>4, CallKinds, ConvStays DEF WriteConv, Calls
  <2>2. slots' \in [Slots -> {Idle} \cup Deciders \cup Writers]
    BY <1>1, <1>4, ReturnTyped, ThrowTyped DEF WriteConv
  <2>3. conv' \in ConvType /\ rows' = rows /\ blocked' = blocked /\ started' = started /\ calm' = calm
    BY <1>3, <1>4, <2>1 DEF WriteConv, counters
  <2> QED BY <1>3, <2>2, <2>3 DEF Typed
<1>5. CASE UpdateRow(r)
  <2>1. Call(r).user \in Users /\ Merged(Call(r).set, rows[Call(r).user]) \in AnyRow
    BY <1>2, <1>3, <1>5, CallKinds, AnyRowStays DEF UpdateRow, Calls
  <2>2. slots' \in [Slots -> {Idle} \cup Deciders \cup Writers]
    BY <1>1, <1>5, ReturnTyped DEF UpdateRow
  <2>3. rows' \in [Users -> AnyRow]
    BY <1>3, <1>5, <2>1 DEF UpdateRow
  <2>4. conv' = conv /\ blocked' = blocked /\ started' = started /\ calm' = calm
    BY <1>5 DEF UpdateRow, counters
  <2> QED BY <1>3, <2>2, <2>3, <2>4 DEF Typed
<1>6. CASE InsertRow(r)
  <2>1. Call(r).row \in AnyRow
    BY <1>2, <1>6, CallKinds, RowIsThere DEF InsertRow, Calls
  <2>2. slots' \in [Slots -> {Idle} \cup Deciders \cup Writers]
    BY <1>1, <1>6, ReturnTyped, ThrowTyped DEF InsertRow
  <2>3. rows' \in [Users -> AnyRow]
    BY <1>3, <1>6, <2>1 DEF InsertRow
  <2>4. conv' = conv /\ blocked' = blocked /\ started' = started /\ calm' = calm
    BY <1>6 DEF InsertRow, counters
  <2> QED BY <1>3, <2>2, <2>3, <2>4 DEF Typed
<1>7. CASE Reading(r)
  <2>1. UNCHANGED <<tables, counters>> /\ \E c \in DbCalls : Then(r, c)
    BY <1>1, <1>7, ReadThenWrite
  <2>2. slots' \in [Slots -> {Idle} \cup Deciders \cup Writers]
    BY <1>1, <2>1, ThenTyped
  <2> QED BY <1>3, <2>1, <2>2 DEF Typed, tables, counters
<1>13. CASE UpdateRead(r) /\ ~Reading(r)
  <2>1. Return(r) /\ UNCHANGED <<tables, counters>>
    BY <1>13 DEF UpdateRead, Reading
  <2>2. slots' \in [Slots -> {Idle} \cup Deciders \cup Writers]
    BY <1>1, <2>1, ReturnTyped
  <2> QED BY <1>3, <2>1, <2>2 DEF Typed, tables, counters
<1>8. CASE TouchPut(r)
  <2>1. \A u \in DOMAIN Call(r).rows : Call(r).rows[u] \in AnyRow
    BY <1>2, <1>8, CallKinds DEF TouchPut, Calls
  <2>2. slots' \in [Slots -> {Idle} \cup Deciders \cup Writers]
    BY <1>1, <1>8, ReturnTyped DEF TouchPut
  <2>3. rows' \in [Users -> AnyRow]
    BY <1>3, <1>8, <2>1 DEF TouchPut
  <2>4. conv' = conv /\ blocked' = blocked /\ started' = started /\ calm' = calm
    BY <1>8 DEF TouchPut, counters
  <2> QED BY <1>3, <2>2, <2>3, <2>4 DEF Typed
<1>9. CASE WriteBlock(r)
  <2>1. Call(r).user \in Users
    BY <1>2, <1>9, CallKinds DEF WriteBlock, Calls
  <2>2. slots' \in [Slots -> {Idle} \cup Deciders \cup Writers]
    BY <1>1, <1>9, ReturnTyped DEF WriteBlock
  <2>3. blocked' \in SUBSET Users
    BY <1>3, <1>9, <2>1 DEF WriteBlock
  <2>4. conv' = conv /\ rows' = rows /\ started' = started /\ calm' = calm
    BY <1>9 DEF WriteBlock, counters
  <2> QED BY <1>3, <2>2, <2>3, <2>4 DEF Typed
<1>10. CASE DropRows(r)
  <2>1. slots' \in [Slots -> {Idle} \cup Deciders \cup Writers]
    BY <1>1, <1>10, ReturnTyped DEF DropRows
  <2>2. rows' \in [Users -> AnyRow]
    BY <1>3, <1>10, RowIsThere DEF DropRows
  <2>3. conv' = conv /\ blocked' = blocked /\ started' = started /\ calm' = calm
    BY <1>10 DEF DropRows, counters
  <2> QED BY <1>3, <2>1, <2>2, <2>3 DEF Typed
<1>11. CASE DropConv(r)
  <2>1. slots' \in [Slots -> {Idle} \cup Deciders \cup Writers]
    BY <1>1, <1>11, ReturnTyped DEF DropConv
  <2>2. conv' \in ConvType
    BY <1>11 DEF DropConv, NoConv, ConvType, DefaultSettings, SettingsType
  <2>3. rows' = rows /\ blocked' = blocked /\ started' = started /\ calm' = calm
    BY <1>11 DEF DropConv, counters
  <2> QED BY <1>3, <2>1, <2>2, <2>3 DEF Typed
<1>12. CASE CallFails(r)
  <2>1. slots' \in [Slots -> {Idle} \cup Deciders \cup Writers]
    BY <1>1, <1>12, ThrowTyped DEF CallFails
  <2>2. conv' = conv /\ rows' = rows /\ blocked' = blocked /\ started' = started /\ calm' \in BOOLEAN
    BY <1>12 DEF CallFails, tables
  <2> QED BY <1>3, <2>1, <2>2 DEF Typed
<1> QED BY <1>4, <1>5, <1>6, <1>7, <1>8, <1>9, <1>10, <1>11, <1>12, <1>13 DEF DatabaseCall, Reading

LEMMA LaunchTyped ==
  ASSUME Typed, NEW r \in Slots, NEW todo \in Seq(DbCalls), NEW undo \in Seq(DbCalls), todo # <<>>,
         slots' = [slots EXCEPT ![r] = [pc |-> "write", todo |-> todo, undo |-> undo]]
  PROVE  /\ slots' \in [Slots -> {Idle} \cup Deciders \cup Writers]
         /\ slots'[r].pc = "write" /\ slots'[r].todo = todo
         /\ \A q \in Slots : q # r => slots'[q] = slots[q]
<1>1. PICK w : w = [pc |-> "write", todo |-> todo, undo |-> undo]
  OBVIOUS
<1>2. w \in Writers /\ w.pc = "write" /\ w.todo = todo
  BY <1>1 DEF Writers
<1> QED BY <1>1, <1>2 DEF Typed

LEMMA BeginTyped ==
  ASSUME Typed, NEW r \in Slots, NEW u \in Users, Begin(r, u)
  PROVE  /\ slots' \in [Slots -> {Idle} \cup Deciders \cup Writers]
         /\ slots'[r].pc = "decide" /\ slots'[r].by = u
         /\ slots'[r].conv = conv /\ slots'[r].me = rows[u]
         /\ \A q \in Slots : q # r => slots'[q] = slots[q]
<1>1. PICK w : w = [pc |-> "decide", by |-> u, conv |-> conv, me |-> rows[u]]
  OBVIOUS
<1>2. w \in Deciders /\ w.pc = "decide" /\ w.by = u /\ w.conv = conv /\ w.me = rows[u]
  BY <1>1 DEF Deciders, Typed
<1> QED BY <1>1, <1>2 DEF Typed, Begin

LEMMA TypedStep ==
  ASSUME Typed, [Next]_vars
  PROVE  Typed'
<1>1. CASE UNCHANGED vars
  BY <1>1 DEF vars, Typed
<1>2. CASE Next
  <2>1. PICK r \in Slots :
          \/ \E u \in Users, members \in SUBSET Users : CreateGroup(r, u, members)
          \/ \E u \in Users : Begin(r, u)
          \/ Decide(r)
          \/ DatabaseCall(r)
    BY <1>2 DEF Next
  <2>2. /\ conv \in ConvType /\ rows \in [Users -> AnyRow] /\ blocked \in SUBSET Users
        /\ started \in Nat /\ calm \in BOOLEAN
        /\ slots \in [Slots -> {Idle} \cup Deciders \cup Writers]
    BY DEF Typed
  <2>3. ASSUME NEW u \in Users, NEW members \in SUBSET Users, CreateGroup(r, u, members)
        PROVE  Typed'
    <3>1. /\ conv' \in ConvType /\ rows' = rows /\ blocked' = blocked
          /\ slots' \in [Slots -> {Idle} \cup Deciders \cup Writers]
      BY <2>3, CreateLaunches, LaunchTyped
    <3>2. started' \in Nat /\ calm' \in BOOLEAN
      BY <2>2, <2>3 DEF CreateGroup, CountRequest
    <3> QED BY <2>2, <3>1, <3>2 DEF Typed
  <2>4. ASSUME NEW u \in Users, Begin(r, u)
        PROVE  Typed'
    <3>1. slots' \in [Slots -> {Idle} \cup Deciders \cup Writers]
      BY <2>4, BeginTyped
    <3>2. started' \in Nat /\ calm' \in BOOLEAN /\ conv' = conv /\ rows' = rows /\ blocked' = blocked
      BY <2>2, <2>4 DEF Begin, CountRequest, tables
    <3> QED BY <2>2, <3>1, <3>2 DEF Typed
  <2>5. CASE Decide(r)
    <3>1. CASE Refuse(r)
      BY <2>2, <3>1 DEF Refuse, Typed, tables, counters
    <3>2. CASE Launches(r)
      <4>1. PICK todo \in Seq(DbCalls), undo \in Seq(DbCalls) : todo # <<>> /\ Start(r, todo, undo)
        BY <3>2 DEF Launches
      <4>2. slots' \in [Slots -> {Idle} \cup Deciders \cup Writers]
        BY <4>1, LaunchTyped DEF Start
      <4> QED BY <2>2, <4>1, <4>2 DEF Start, Typed, tables, counters
    <3> QED BY <2>5, <3>1, <3>2, DecideLaunches
  <2> QED BY <2>1, <2>3, <2>4, <2>5, DatabaseTyped
<1> QED BY <1>1, <1>2

\* A call that meets no failure does what its effect says.
LEMMA CallDoes ==
  ASSUME Typed, NEW r \in Slots, DatabaseCall(r), ~CallFails(r), ~Reading(r),
         Call(r) \in DbCalls, Now \in States, NEW B, Effect(Call(r), Now, B)
  PROVE  Return(r) /\ <<conv', rows'>> = B /\ calm' = calm
<1>1. PICK c : c = Call(r)
  OBVIOUS
<1>2. PICK A : A = Now
  OBVIOUS
<1>3. A = <<conv, rows>> /\ A[1] = conv /\ A[2] = rows /\ Effect(c, A, B)
  BY <1>1, <1>2 DEF Now
<1>4. CASE WriteConv(r)
  <2>1. c.kind = "conv"
    BY <1>1, <1>4 DEF WriteConv, Calls
  <2>2. conv.state = "live" /\ B = <<Merged(c.set, conv), rows>>
    BY <1>3, <2>1 DEF Effect
  <2> QED BY <1>1, <1>4, <2>2 DEF WriteConv, counters
<1>5. CASE UpdateRow(r)
  <2>1. c.kind = "update"
    BY <1>1, <1>5 DEF UpdateRow, Calls
  <2>2. B = <<conv, [rows EXCEPT ![c.user] = Merged(c.set, rows[c.user])]>>
    BY <1>3, <2>1 DEF Effect
  <2> QED BY <1>1, <1>5, <2>2 DEF UpdateRow, counters
<1>11. CASE UpdateRead(r)
  <2>1. c.kind = "row" /\ ~rows[c.user].id /\ Return(r) /\ UNCHANGED <<tables, counters>>
    BY <1>1, <1>11 DEF UpdateRead, Reading, Calls
  <2>2. c.user \in Users /\ rows \in MemberRows
    BY <1>1, <1>2, <1>3, <2>1, CallKinds DEF States
  <2>3. rows[c.user] = NoRow
    BY <2>1, <2>2, RowIsThere DEF MemberRows
  <2>4. B = <<conv, rows>>
    BY <1>3, <2>1, <2>3 DEF Effect
  <2> QED BY <2>1, <2>4 DEF tables, counters
<1>6. CASE InsertRow(r)
  <2>1. c.kind = "insert"
    BY <1>1, <1>6 DEF InsertRow, Calls
  <2>2. rows[c.user] = NoRow /\ B = <<conv, [rows EXCEPT ![c.user] = c.row]>>
    BY <1>3, <2>1 DEF Effect
  <2> QED BY <1>1, <1>6, <2>2, RowIsThere DEF InsertRow, counters
<1>7. CASE TouchPut(r)
  <2>1. c.kind = "put"
    BY <1>1, <1>7 DEF TouchPut, Calls
  <2>2. B = <<conv, rows>> /\ \A u \in DOMAIN c.rows : c.rows[u] = rows[u]
    BY <1>3, <2>1 DEF Effect
  <2>3. rows' = [u \in Users |-> IF u \in DOMAIN c.rows THEN c.rows[u] ELSE rows[u]]
    BY <1>1, <1>7 DEF TouchPut
  <2>4. rows' = rows
    BY <2>2, <2>3 DEF Typed
  <2> QED BY <1>7, <2>2, <2>4 DEF TouchPut, counters
<1>8. CASE WriteBlock(r)
  <2>1. c.kind \in {"block", "unblock"}
    BY <1>1, <1>8 DEF WriteBlock, Calls
  <2>2. B = <<conv, rows>>
    BY <1>3, <2>1 DEF Effect
  <2> QED BY <1>8, <2>2 DEF WriteBlock, counters
<1>9. CASE DropRows(r)
  <2>1. c.kind = "delete"
    BY <1>1, <1>9 DEF DropRows, Calls
  <2>2. B = <<conv, [u \in Users |-> IF u \in c.users THEN NoRow ELSE rows[u]]>>
    BY <1>3, <2>1 DEF Effect
  <2> QED BY <1>1, <1>9, <2>2 DEF DropRows, counters
<1>10. CASE DropConv(r)
  <2>1. c.kind = "dropConv"
    BY <1>1, <1>10 DEF DropConv, Calls
  <2>2. B = <<[NoConv EXCEPT !.state = "deleted"], rows>>
    BY <1>3, <2>1 DEF Effect
  <2> QED BY <1>10, <2>2 DEF DropConv, counters
<1> QED BY <1>4, <1>5, <1>6, <1>7, <1>8, <1>9, <1>10, <1>11 DEF DatabaseCall, Reading

LEMMA InvInit == Init => GroupInv
<1> SUFFICES ASSUME Init
             PROVE  GroupInv
  OBVIOUS
<1>1. Typed
  BY TypedInit
<1>2. \A r \in Slots : slots[r] = Idle /\ slots[r].pc = "idle"
  BY DEF Init, Idle
<1>3. conv = NoConv /\ rows = NoRows
  BY DEF Init, NoRows
<1>4. conv.state = "none" /\ Now[1] = conv /\ Now[2] = rows
  BY <1>3 DEF NoConv, Now
<1>5. Now \in States
  BY <1>1, <1>3 DEF Typed, States, MemberRows, Now, NoRows
<1>6. Good(Now)
  BY <1>3, <1>4, <1>5 DEF Good
<1> QED BY <1>1, <1>2, <1>6 DEF GroupInv, Deciding, IsWriting

\* One request at a time: after a step of r the other slots are idle.
LEMMA OthersIdle ==
  ASSUME GroupInv, calm, NEW r \in Slots, slots[r] # Idle
  PROVE  \A q \in Slots : q # r => slots[q] = Idle
BY DEF GroupInv

\* What has to be shown of a step of r.
LEMMA StepOfOne ==
  ASSUME NEW r \in Slots, Typed',
         \A q \in Slots : q # r => slots'[q] = Idle,
         \/ slots'[r] = Idle /\ Good(Now)'
         \/ slots'[r].pc = "decide" /\ Fresh(r)'
         \/ /\ slots'[r].pc = "write"
            /\ \E A : Good(A) /\ Leads(slots'[r].todo, Now', A)
  PROVE  GroupInv'
<1>1. Idle.pc = "idle"
  BY DEF Idle
<1>2. \A q \in Slots : q # r => slots'[q].pc = "idle"
  BY <1>1
<1>3. CASE slots'[r] = Idle /\ Good(Now)'
  BY <1>1, <1>2, <1>3 DEF GroupInv, Deciding, IsWriting
<1>4. CASE slots'[r].pc = "decide" /\ Fresh(r)'
  BY <1>1, <1>2, <1>4 DEF GroupInv, Deciding, IsWriting
<1>5. CASE slots'[r].pc = "write" /\ \E A : Good(A) /\ Leads(slots'[r].todo, Now', A)
  BY <1>1, <1>2, <1>5 DEF GroupInv, Deciding, IsWriting
<1> QED BY <1>3, <1>4, <1>5

LEMMA CallKeeps ==
  ASSUME GroupInv, NEW r \in Slots, DatabaseCall(r), calm'
  PROVE  GroupInv'
<1>1. Typed /\ Typed'
  BY DatabaseTyped DEF GroupInv
<1>2. ~CallFails(r)
  BY DEF CallFails
<1>3. IsWriting(r)
  BY DEF DatabaseCall, WriteConv, UpdateRead, UpdateRow, InsertRow, TouchRead, TouchPut, WriteBlock,
         DropRead, DropRows, DropConv, CallFails, Calls
<1>4. calm
  BY <1>2 DEF DatabaseCall, WriteConv, UpdateRead, UpdateRow, InsertRow, TouchRead, TouchPut, WriteBlock,
         DropRead, DropRows, DropConv, counters
<1>5. slots[r] # Idle /\ slots[r].pc = "write"
  BY <1>3, <1>4 DEF GroupInv, IsWriting, Idle
<1>6. \A q \in Slots : q # r => slots[q] = Idle
  BY <1>4, <1>5, OthersIdle
<1>7. PICK t : t = slots[r].todo
  OBVIOUS
<1>8. t \in Seq(DbCalls) /\ t # <<>> /\ Head(t) = Call(r) /\ Head(t) \in DbCalls
  BY <1>1, <1>3, <1>7, Writing DEF Call
<1>9. PICK C : Good(C) /\ Leads(t, Now, C)
  BY <1>3, <1>4, <1>7 DEF GroupInv
<1>10. PICK B \in States : Effect(Head(t), Now, B) /\ Leads(Tail(t), B, C)
  BY <1>8, <1>9, FirstStep
<1>13. Now \in States
  BY <1>8, <1>9, LeadsFrom
<1>11. CASE Reading(r)
  <2>1. PICK c \in DbCalls : Then(r, c) /\ Effect(c, Now, B)
    BY <1>1, <1>3, <1>8, <1>10, <1>11, ReadThenWrite
  <2>2. Now' = Now
    BY <1>1, <1>3, <1>11, ReadThenWrite DEF tables, Now
  <2>3. /\ slots'[r].todo = <<c>> \o Tail(t) /\ slots'[r].pc = slots[r].pc
        /\ \A q \in Slots : q # r => slots'[q] = slots[q]
    BY <1>1, <1>3, <1>7, <2>1, ThenTyped
  <2>6. Leads(<<c>>, Now, B)
    BY <1>10, <1>13, <2>1, OneStep
  <2>7. Tail(t) \in Seq(DbCalls) /\ <<c>> \in Seq(DbCalls)
    BY <1>8, Tails, OneCall
  <2>8. Leads(<<c>> \o Tail(t), Now, C)
    BY <1>10, <2>6, <2>7, ThenLeads
  <2>9. slots'[r].pc = "write" /\ Leads(slots'[r].todo, Now', C)
    BY <1>5, <2>2, <2>3, <2>8
  <2>10. \A q \in Slots : q # r => slots'[q] = Idle
    BY <1>6, <2>3
  <2> QED BY <1>1, <1>9, <2>9, <2>10, StepOfOne
<1>12. CASE ~Reading(r)
  <2>1. Return(r) /\ Now' = B
    BY <1>1, <1>2, <1>8, <1>10, <1>12, <1>13, CallDoes DEF Now
  <2>2. slots \in [Slots -> {Idle} \cup Deciders \cup Writers]
    BY <1>1 DEF Typed
  <2>3. \A q \in Slots : q # r => slots'[q] = Idle
    BY <1>6, <2>1, <2>2 DEF Return
  <2>4. CASE Len(t) = 1
    <3>1. slots'[r] = Idle
      BY <1>7, <2>1, <2>2, <2>4 DEF Return
    <3>2. Tail(t) = <<>>
      BY <1>8, <2>4, Tails
    <3>3. B = C
      BY <1>10, <3>2, NothingToDo
    <3>4. Good(Now')
      BY <1>9, <2>1, <3>3
    <3> QED BY <1>1, <2>3, <3>1, <3>4, StepOfOne DEF Good, States
  <2>5. CASE Len(t) # 1
    <3>1. slots[r] = [pc |-> slots[r].pc, todo |-> slots[r].todo, undo |-> slots[r].undo]
      BY <1>1, <1>3, Writing
    <3>2. slots'[r] = [slots[r] EXCEPT !.todo = Tail(t)]
      BY <1>7, <2>1, <2>2, <2>5 DEF Return
    <3>3. slots'[r].todo = Tail(t) /\ slots'[r].pc = "write"
      BY <1>5, <3>1, <3>2
    <3>4. Leads(slots'[r].todo, Now', C)
      BY <1>10, <2>1, <3>3
    <3> QED BY <1>1, <1>9, <2>3, <3>3, <3>4, StepOfOne
  <2> QED BY <2>4, <2>5
<1> QED BY <1>11, <1>12

LEMMA InvStep ==
  ASSUME GroupInv, [Next]_vars
  PROVE  GroupInv'
<1>1. Typed /\ Typed'
  BY TypedStep DEF GroupInv
<1>2. CASE UNCHANGED vars
  BY <1>1, <1>2 DEF GroupInv, vars, Now, Fresh, Deciding, IsWriting, Seen, By, Good, Sane
<1>3. CASE ~calm'
  BY <1>1, <1>3 DEF GroupInv
<1>4. CASE Next /\ calm'
  <2>1. PICK r \in Slots :
          \/ \E u \in Users, members \in SUBSET Users : CreateGroup(r, u, members)
          \/ \E u \in Users : Begin(r, u)
          \/ Decide(r)
          \/ DatabaseCall(r)
    BY <1>4 DEF Next
  <2>2. ASSUME NEW u \in Users, NEW members \in SUBSET Users, CreateGroup(r, u, members)
        PROVE  GroupInv'
    <3>1. calm /\ \A q \in Slots : slots[q] = Idle
      BY <1>4, <2>2 DEF CreateGroup, CountRequest
    <3>2. rows = NoRows
      <4>1. Good(Now)
        BY <3>1 DEF GroupInv
      <4> QED BY <2>2, <4>1 DEF Good, Now, CreateGroup
    <3>3. PICK todo \in Seq(DbCalls), undo \in Seq(DbCalls) :
            /\ todo # <<>>
            /\ slots' = [slots EXCEPT ![r] = [pc |-> "write", todo |-> todo, undo |-> undo]]
            /\ \E A : Good(A) /\ Leads(todo, <<conv', rows'>>, A)
      BY <1>1, <2>2, <3>2, CreateLaunches
    <3>4. /\ slots'[r].pc = "write" /\ slots'[r].todo = todo
          /\ \A q \in Slots : q # r => slots'[q] = slots[q]
      BY <1>1, <3>3, LaunchTyped
    <3>5. \E A : Good(A) /\ Leads(slots'[r].todo, Now', A)
      BY <3>3, <3>4 DEF Now
    <3> QED BY <1>1, <3>1, <3>4, <3>5, StepOfOne
  <2>3. ASSUME NEW u \in Users, Begin(r, u)
        PROVE  GroupInv'
    <3>1. calm /\ \A q \in Slots : slots[q] = Idle
      BY <1>4, <2>3 DEF Begin, CountRequest
    <3>2. Good(Now) /\ conv.state = "live" /\ conv' = conv /\ rows' = rows
      BY <2>3, <3>1 DEF GroupInv, Begin, tables
    <3>3. /\ slots'[r].pc = "decide" /\ slots'[r].by = u
          /\ slots'[r].conv = conv /\ slots'[r].me = rows[u]
          /\ \A q \in Slots : q # r => slots'[q] = slots[q]
      BY <1>1, <2>3, BeginTyped
    <3>4. Good(Now')
      BY <3>2 DEF Now
    <3>5. Fresh(r)'
      BY <3>2, <3>3, <3>4 DEF Fresh, Seen, By, Good, Sane
    <3> QED BY <1>1, <3>1, <3>3, <3>5, StepOfOne
  <2>4. CASE Decide(r)
    <3>1. Deciding(r) /\ slots[r] # Idle /\ UNCHANGED <<tables, counters>>
      <4>1. CASE Refuse(r)
        BY <4>1 DEF Refuse, Deciding, Idle
      <4>2. CASE Launches(r)
        <5>1. UNCHANGED <<tables, counters>>
          BY <4>2 DEF Launches, Start
        <5>2. Deciding(r)
          BY <2>4 DEF Decide, AddMembers, JoinByInvite, ApproveMember, RejectMember, LeaveAsMember,
               LeaveToHeir, LeaveAuto, RemoveMember, BlockMember, UnblockMember, TransferOwner, SetAdmin,
               UpdateSettings, UpdateGroupInfo, DissolveGroup, Refuse, RequesterIsActive,
               RequesterIsManager, RequesterIsOwner, Deciding
        <5> QED BY <5>1, <5>2 DEF Deciding, Idle
      <4> QED BY <1>1, <2>4, <4>1, <4>2, DecideLaunches
    <3>2. calm /\ conv' = conv /\ rows' = rows /\ Now' = Now
      BY <1>4, <3>1 DEF tables, counters, Now
    <3>3. Fresh(r)
      BY <3>1, <3>2 DEF GroupInv
    <3>4. \A q \in Slots : q # r => slots[q] = Idle
      BY <3>1, <3>2, OthersIdle
    <3>5. CASE Refuse(r)
      <4>1. slots'[r] = Idle /\ \A q \in Slots : q # r => slots'[q] = slots[q]
        BY <1>1, <3>5 DEF Refuse, Typed
      <4>2. Good(Now')
        BY <3>2, <3>3 DEF Fresh
      <4>3. Good(Now)'
        BY <4>2
      <4> QED BY <1>1, <3>4, <4>1, <4>3, StepOfOne
    <3>6. CASE Launches(r)
      <4>1. PICK todo \in Seq(DbCalls), undo \in Seq(DbCalls) :
              /\ todo # <<>> /\ Start(r, todo, undo)
              /\ \E A : Good(A) /\ Leads(todo, Now, A)
        BY <3>3, <3>6 DEF Launches
      <4>2. /\ slots'[r].pc = "write" /\ slots'[r].todo = todo
            /\ \A q \in Slots : q # r => slots'[q] = slots[q]
        BY <1>1, <4>1, LaunchTyped DEF Start
      <4>3. \E A : Good(A) /\ Leads(slots'[r].todo, Now', A)
        BY <3>2, <4>1, <4>2
      <4> QED BY <1>1, <3>4, <4>2, <4>3, StepOfOne
    <3> QED BY <1>1, <2>4, <3>5, <3>6, DecideLaunches
  <2>5. CASE DatabaseCall(r)
    BY <1>4, <2>5, CallKeeps
  <2> QED BY <2>1, <2>2, <2>3, <2>4, <2>5
<1> QED BY <1>2, <1>3, <1>4

\* While requests are handled one at a time and no call fails the tables are
\* between two Good ones.
LEMMA CalmStates ==
  ASSUME GroupInv, calm
  PROVE  Now \in States
<1>1. CASE \A r \in Slots : slots[r] = Idle
  BY <1>1 DEF GroupInv, Good
<1>2. ASSUME NEW r \in Slots, slots[r] # Idle
      PROVE  Now \in States
  <2>1. slots[r] \in Deciders \/ slots[r] \in Writers
    BY <1>2 DEF GroupInv, Typed
  <2>2. CASE slots[r] \in Deciders
    BY <2>2 DEF GroupInv, Deciders, Deciding, Fresh, Good
  <2>3. CASE slots[r] \in Writers
    <3>1. slots[r].todo \in Seq(DbCalls) /\ IsWriting(r)
      BY <2>3 DEF Writers, IsWriting
    <3>2. \E A : Leads(slots[r].todo, Now, A)
      BY <3>1 DEF GroupInv
    <3> QED BY <3>1, <3>2, LeadsFrom
  <2> QED BY <2>1, <2>2, <2>3
<1> QED BY <1>1, <1>2

\* A row is whole or gone, and never the part of one that an unconditional
\* update creates (member-repo.ts), unless requests have overlapped or a call
\* has failed; the item and the rest have their shape whatever happens.
THEOREM GroupTyped == Spec => []TypeOK
<1>1. GroupInv => TypeOK
  <2> SUFFICES ASSUME GroupInv PROVE TypeOK
    OBVIOUS
  <2>1. Typed
    BY DEF GroupInv
  <2>2. calm => rows \in [Users -> Row \cup {NoRow}]
    BY CalmStates DEF States, MemberRows, Now
  <2>3. \A r \in Slots : slots[r].pc \in {"idle", "decide", "write", "undo"}
    BY <2>1 DEF Typed, Idle, Deciders, Writers
  <2> QED BY <2>1, <2>2, <2>3 DEF Typed, TypeOK
<1> QED BY <1>1, InvInit, InvStep, PTL DEF Spec

\* A dissolution that nobody disturbs leaves no row of the group behind: the
\* rows it has read are all there are when it deletes them.
THEOREM DissolvedTakesRows == Spec => []DissolvedLeavesNoRow
<1>1. GroupInv => DissolvedLeavesNoRow
  BY DEF GroupInv, DissolvedLeavesNoRow, Good, Now, NoRows
<1> QED BY <1>1, InvInit, InvStep, PTL DEF Spec

\* Between requests membersCount is the number of active members, whatever
\* sequence of use cases has run (add-members-to-group.ts to transfer-owner.ts).
THEOREM CountStaysExact == Spec => []CountIsExact
<1>1. GroupInv => CountIsExact
  BY DEF GroupInv, CountIsExact, Quiet, Now, Good, Sane, ActiveIn, ActiveMembers
<1> QED BY <1>1, InvInit, InvStep, PTL DEF Spec

\* Between requests every entry of conversation.admins is an active member
\* whose row has the role that the entry stands for.
THEOREM AdminsKeepTheRole == Spec => []AdminsHoldTheRole
<1>1. GroupInv => AdminsHoldTheRole
  BY DEF GroupInv, AdminsHoldTheRole, Quiet, Now, Good, Sane, ActiveIn, ActiveMembers
<1> QED BY <1>1, InvInit, InvStep, PTL DEF Spec

\* Between requests nobody but the owner the conversation names has a row
\* with the role of owner.
THEOREM OwnerRoleFollows == Spec => []OwnerRoleIsOwnerId
<1>1. GroupInv => OwnerRoleIsOwnerId
  BY DEF GroupInv, OwnerRoleIsOwnerId, Quiet, Now, Good, Sane
<1> QED BY <1>1, InvInit, InvStep, PTL DEF Spec
=============================================================================
