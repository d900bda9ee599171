------------------------------- MODULE Account -------------------------------
(***************************************************************************)
(* Registration, email verification and password reset (auth/usecase), on  *)
(* top of the sessions of module Session.  A code is mailed to a user and  *)
(* kept in Redis with the number of attempts made on it; a request reads   *)
(* it, writes it back with one attempt more, and only then compares it.    *)
(* A reset code that was entered is traded for a grant, and the grant for  *)
(* a new password and the end of every session of the user.                *)
(*                                                                         *)
(* Codes are numbered in the order they are mailed.  The rate limit of     *)
(* mails (a fixed window per address) is left out: it refuses requests.    *)
(***************************************************************************)
EXTENDS Session

CONSTANTS
  WithEmail,            \* users with an email address, which is optional
  RequireVerification,  \* config.auth.requireEmailVerification
  MaxAttempts,          \* MAX_ATTEMPTS, RESET_OTP_MAX_ATTEMPTS
  MaxCodes              \* bound: codes mailed

ASSUME AccountAssumption ==
  /\ WithEmail \subseteq Users
  /\ RequireVerification \in BOOLEAN
  /\ MaxAttempts \in Nat \ {0} /\ MaxCodes \in Nat

VARIABLES
  registered,  \* users with a row in the users table
  verified,    \* user.verified.email
  codes,       \* verify:{email} and reset-otp:{email}
  mail,        \* the codes mailed so far: to whom and what for
  expired,     \* codes whose createdAt is too old
  grants,      \* reset:{jti}
  tries,       \* history: how often the code of a mail was compared or refused
  accepted,    \* history: how often it was accepted
  resets       \* history: how often a password was reset with it

codeHistory == <<tries, accepted, resets>>
codeVars == <<registered, verified, codes, mail, expired, grants, codeHistory>>
accountVars == <<vars, codeVars>>

-----------------------------------------------------------------------------
Purposes == {"verify", "reset"}
NoCode == [mail |-> 0, attempts |-> 0]
Grant(n) == [user |-> mail[n].user, mail |-> n, nth |-> accepted[n]]

\* A use case of a user that is registered.
SessionStep(r) ==
  /\ \/ \E u \in registered, d \in Devices :
          (RequireVerification /\ u \in WithEmail => u \in verified) /\ Login(r, u, d)
     \/ TokenUseCase(r)
     \/ RedisCommand(r)
  /\ UNCHANGED codeVars

AccountStart(r, todo) == Begin(r, todo, {}) /\ UNCHANGED codeVars

\* The calls of an account are steps of the same slots.
AccountCall(r) == Proceed(r, <<>>) /\ UNCHANGED <<version, redis, history>>

-----------------------------------------------------------------------------
(* Codes *)

MailCall(u, purpose) == <<[kind |-> "mail", user |-> u, purpose |-> purpose]>>

\* sendVerificationEmail and forgotPassword (and what resends them).
RequestCode(r, u, purpose) ==
  /\ u \in registered
  /\ purpose = "verify" => u \notin verified
  /\ AccountStart(r, MailCall(u, purpose))

\* setEx of a fresh code without attempts, in place of the one before.
MailCode(r) ==
  /\ Doing(r, "mail")
  /\ Len(mail) < MaxCodes
  /\ LET u == Command(r).user
         purpose == Command(r).purpose
     IN /\ mail' = Append(mail, [user |-> u, purpose |-> purpose])
        /\ codes' = [codes EXCEPT ![purpose][u] = [mail |-> Len(mail'), attempts |-> 0]]
  /\ AccountCall(r)
  /\ UNCHANGED <<registered, verified, expired, grants, codeHistory>>

\* verifyEmail and verifyResetOTP with the code of mail n, or a wrong one.  A
\* code that is too old is refused.
EnterCode(r, u, purpose, n) ==
  LET code == codes[purpose][u]
  IN /\ code # NoCode
     /\ code.mail \notin expired
     /\ AccountStart(r, <<[kind |-> "attempt", user |-> u, purpose |-> purpose,
                           entered |-> n, code |-> code]>>)

\* The code that was read is written back with one attempt more.
WriteAttempt(r) ==
  /\ Doing(r, "attempt")
  /\ LET c == Command(r)
         counted == [c.code EXCEPT !.attempts = @ + 1]
     IN /\ codes' = [codes EXCEPT ![c.purpose][c.user] = counted]
        /\ Proceed(r, <<[c EXCEPT !.kind = "compare", !.code = counted]>>)
  /\ UNCHANGED <<version, redis, history, registered, verified, mail, expired, grants, codeHistory>>

\* A code with too many attempts is deleted, a wrong one stays, and the right
\* one is deleted before it takes effect.
CompareCode(r) ==
  /\ Doing(r, "compare")
  /\ LET c == Command(r)
         n == c.code.mail
         spent == c.code.attempts > MaxAttempts
         right == ~spent /\ c.entered = n
     IN /\ tries' = [tries EXCEPT ![n] = @ + 1]
        /\ accepted' = IF right THEN [accepted EXCEPT ![n] = @ + 1] ELSE accepted
        /\ codes' = IF spent \/ right
                      THEN [codes EXCEPT ![c.purpose][c.user] = NoCode] ELSE codes
        /\ Proceed(r, IF right THEN <<[kind |-> c.purpose, mail |-> n]>> ELSE <<>>)
  /\ UNCHANGED <<version, redis, history, registered, verified, mail, expired, grants, resets>>

VerifyEmail(r) ==
  /\ Doing(r, "verify")
  /\ verified' = verified \cup {mail[Command(r).mail].user}
  /\ AccountCall(r)
  /\ UNCHANGED <<registered, codes, mail, expired, grants, codeHistory>>

\* The temporary token of verifyResetOTP: a jti of its own each time.
GrantReset(r) ==
  /\ Doing(r, "reset")
  /\ grants' = grants \cup {Grant(Command(r).mail)}
  /\ AccountCall(r)
  /\ UNCHANGED <<registered, verified, codes, mail, expired, codeHistory>>

AllIdle == \A r \in Slots : slots[r] = Idle

\* VERIFY_TTL or RESET_OTP_TTL has passed since the mail ...
ExpireCode(u, purpose) ==
  /\ AllIdle
  /\ codes[purpose][u] # NoCode
  /\ codes[purpose][u].mail \notin expired
  /\ expired' = expired \cup {codes[purpose][u].mail}
  /\ UNCHANGED <<vars, registered, verified, codes, mail, grants, codeHistory>>

\* ... or RESET_OTP_TTL since the grant.
ExpireGrant(g) ==
  /\ AllIdle
  /\ grants' = grants \ {g}
  /\ UNCHANGED <<vars, registered, verified, codes, mail, expired, codeHistory>>

-----------------------------------------------------------------------------
(* Password reset *)

\* resetPassword: the grant is read, the user is written, the grant deleted
\* and every session revoked.
ResetPassword(r, g) ==
  /\ g \in grants
  /\ ChangePasswordOf(r, g.user, <<[kind |-> "spend", grant |-> g]>>)
  /\ resets' = [resets EXCEPT ![g.mail] = @ + 1]
  /\ UNCHANGED <<registered, verified, codes, mail, expired, grants, tries, accepted>>

\* Mutant: the grant stays until it expires.
KeepGrant(r) ==
  /\ Doing(r, "spend")
  /\ AccountCall(r)
  /\ UNCHANGED codeVars

SpendGrant(r) ==
  /\ Doing(r, "spend")
  /\ grants' = grants \ {Command(r).grant}
  /\ AccountCall(r)
  /\ UNCHANGED <<registered, verified, codes, mail, expired, codeHistory>>

-----------------------------------------------------------------------------
(* Registration *)

\* A verification that is asked for, or required, comes before the first
\* session; otherwise the tokens and the session follow at once, and no
\* session of the device is revoked first.
Register(r, u, d, verification) ==
  /\ u \notin registered
  /\ RequireVerification => verification
  /\ verification => u \in WithEmail
  /\ AccountStart(r, <<[kind |-> "register", user |-> u]>>
                     \o (IF u \in WithEmail THEN MailCall(u, "verify") ELSE <<>>)
                     \o (IF verification THEN <<>> ELSE IssueCalls(u, d, 1, "create")))

InsertUser(r) ==
  /\ Doing(r, "register")
  /\ registered' = registered \cup {Command(r).user}
  /\ AccountCall(r)
  /\ UNCHANGED <<verified, codes, mail, expired, grants, codeHistory>>

-----------------------------------------------------------------------------
AccountInit ==
  /\ Init
  /\ registered \in {{}, Users}
  /\ verified = {}
  /\ codes = [p \in Purposes |-> [u \in WithEmail |-> NoCode]]
  /\ mail = <<>>
  /\ expired = {}
  /\ grants = {}
  /\ tries = [n \in 1..MaxCodes |-> 0]
  /\ accepted = tries
  /\ resets = tries

AccountUseCase(r) ==
  \/ \E u \in WithEmail, purpose \in Purposes :
       RequestCode(r, u, purpose) \/ \E n \in 0..Len(mail) : EnterCode(r, u, purpose, n)
  \/ \E g \in grants : ResetPassword(r, g)
  \/ \E u \in Users, d \in Devices, verification \in BOOLEAN : Register(r, u, d, verification)

CodeCommand(r) ==
  \/ MailCode(r)
  \/ WriteAttempt(r)
  \/ CompareCode(r)
  \/ VerifyEmail(r)
  \/ GrantReset(r)
  \/ SpendGrant(r)
  \/ InsertUser(r)

AccountNext ==
  \/ \E r \in Slots : SessionStep(r) \/ AccountUseCase(r) \/ CodeCommand(r)
  \/ \E u \in WithEmail, purpose \in Purposes : ExpireCode(u, purpose)
  \/ \E g \in grants : ExpireGrant(g)
  \/ Lapse /\ UNCHANGED codeVars

AccountSpec == AccountInit /\ [][AccountNext]_accountVars

-----------------------------------------------------------------------------
(* Properties *)

\* Handled one at a time and without failures, a mailed code stands for one
\* verification, made within MAX_ATTEMPTS tries, or for one new password,
\* whatever mails, wrong codes and expiries come in between.
CodesAreSpent ==
  calm => \A n \in 1..MaxCodes :
    /\ accepted[n] <= 1
    /\ accepted[n] = 1 => tries[n] <= MaxAttempts
    /\ resets[n] <= accepted[n]
=============================================================================
