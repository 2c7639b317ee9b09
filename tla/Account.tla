------------------------------- MODULE Account -------------------------------
(***************************************************************************)
(* The account of a seller or of an agent (src/src/domains/auth): the      *)
(* password and the links that set it, the address and its link, the       *)
(* lockout of the login, the second factor and its backup codes.           *)
(*                                                                         *)
(* A handler reads the row once, hashes or compares for a while, and then  *)
(* writes what follows from its reading, one statement at a time.          *)
(***************************************************************************)
EXTENDS Integers, FiniteSets

CONSTANTS
  AccountRequests,  \* handlers the process may have in flight
  Links,            \* bound: tokens ever mailed to set the password
  NoLink,           \* no token
  CodeIds,          \* the backup codes of one setup: 8 in the code
  MaxSetups,        \* bound: setups of the second factor
  MaxAttempts,      \* failed attempts that lock: 5 in the code
  MaxCount          \* bound: the count at which no more attempts are made

ASSUME AccountAssumption ==
  /\ NoLink \notin Links /\ IsFiniteSet(AccountRequests)
  /\ MaxSetups \in Nat /\ MaxAttempts \in Nat \ {0, 1} /\ MaxCount \in Nat

VARIABLES
  account,   \* none, invited (a lead, no password) or set
  address,   \* the address: new, linked (a link to verify it is out), stale, verified
  token,     \* passwordResetToken: a link, or none
  fresh,     \* passwordResetExpiry is to come
  mailed,    \* ghost: the links ever sent
  opened,    \* ghost: the links that set a password
  login,     \* failedLoginAttempts, loginLockedUntil
  factor,    \* setups made, twoFactorEnabled, twoFactorBackupCodes, lock and attempts
  spent,     \* ghost: the codes a login was let in with
  access,    \* the local state of each request
  doubled    \* ghost: what an overlap or a crash between two writes has touched

NoAccess == [op |-> "idle", link |-> NoLink, n |-> 0, codes |-> {}, code |-> <<>>]

passwordVars == <<account, address, token, fresh, mailed, opened, login>>
factorVars == <<factor, spent>>
accountVars == <<passwordVars, factorVars, access, doubled>>

\* loginLockedUntil: unset, to come, or past and still there.
Locks == {"none", "now", "past"}

AllCodes == (1..MaxSetups) \X CodeIds

AccountTypeOK ==
  /\ account \in {"none", "invited", "set"}
  /\ address \in {"new", "linked", "stale", "verified"}
  /\ token \in mailed \cup {NoLink} /\ fresh \in BOOLEAN
  /\ mailed \subseteq Links /\ opened \subseteq mailed
  /\ login.failures \in Nat /\ login.lock \in Locks
  /\ factor.setups \in 0..MaxSetups /\ factor.codes \subseteq AllCodes
  /\ factor.enabled => factor.setups > 0
  /\ factor.failures \in Nat /\ factor.locked \in BOOLEAN
  /\ spent \subseteq AllCodes
  /\ doubled \subseteq {"link", "login", "codes"}

Access(r, op) ==
  /\ access[r].op = "idle"
  /\ access' = [access EXCEPT ![r] = [NoAccess EXCEPT !.op = op, !.link = token]]

Proceed(r, op) == access' = [access EXCEPT ![r].op = op]

Depart(r) == access' = [access EXCEPT ![r] = NoAccess]

Mark(what, yes) == doubled' = IF yes THEN doubled \cup {what} ELSE doubled

\* The handler throws or dies: between two writes, it leaves a link that has been
\* opened, or a failure counted that should have locked.
Abort(r) ==
  /\ access[r].op # "idle"
  /\ Depart(r)
  /\ doubled' = doubled \cup (IF access[r].op = "clear" THEN {"link"} ELSE {})
                        \cup (IF access[r].op = "lock" THEN {"login"} ELSE {})
  /\ UNCHANGED <<passwordVars, factorVars>>

-----------------------------------------------------------------------------
(* Registration and the address.                                           *)

\* registerSeller: no seller has the address.  A lead has one without a password.
RegisterSeller(r) ==
  /\ account = "none" /\ Access(r, "register")
  /\ UNCHANGED <<passwordVars, factorVars, doubled>>

\* The seller and the consent in one transaction; the second of two is told
\* nothing else than the first (P2002, Abort).
CreateSellerWithConsent(r) ==
  /\ access[r].op = "register" /\ account = "none"
  /\ account' = "set"
  /\ Proceed(r, "mailAddress")
  /\ UNCHANGED <<address, token, fresh, mailed, opened, login, factorVars, doubled>>

\* resendVerificationEmail asks nothing but an address.
ResendVerificationEmail(r) ==
  /\ account = "set" /\ Access(r, "mailAddress")
  /\ UNCHANGED <<passwordVars, factorVars, doubled>>

\* sendVerificationEmail: a new token, also of an address verified already.
SendVerificationEmail(r) ==
  /\ access[r].op = "mailAddress"
  /\ address' = IF address = "verified" THEN "verified" ELSE "linked"
  /\ Depart(r)
  /\ UNCHANGED <<account, token, fresh, mailed, opened, login, factorVars, doubled>>

\* verifyEmail: found by its token, in time.
VerifyEmail(r) ==
  /\ address = "linked" /\ Access(r, "verify")
  /\ UNCHANGED <<passwordVars, factorVars, doubled>>

MarkSellerEmailVerified(r) ==
  /\ access[r].op = "verify"
  /\ address' = "verified"
  /\ Depart(r)
  /\ UNCHANGED <<account, token, fresh, mailed, opened, login, factorVars, doubled>>

-----------------------------------------------------------------------------
(* The links that set a password: to reset it, or of an invitation.        *)

\* updateSellerStatus to engaged, and resendAccountSetup.
InviteSeller(r) ==
  /\ account = "invited" /\ address = "verified" /\ Access(r, "mailLink")
  /\ UNCHANGED <<passwordVars, factorVars, doubled>>

\* requestPasswordReset: an invited lead may ask for one as well.
RequestPasswordReset(r) ==
  /\ account # "none" /\ Access(r, "mailLink")
  /\ UNCHANGED <<passwordVars, factorVars, doubled>>

\* One column for both: a link replaces the last one.
SetPasswordResetToken(r) ==
  /\ access[r].op = "mailLink"
  /\ \E l \in Links \ mailed : token' = l /\ mailed' = mailed \cup {l}
  /\ fresh' = TRUE
  /\ Depart(r)
  /\ UNCHANGED <<account, address, opened, login, factorVars, doubled>>

\* resetPassword, or POST /auth/setup-account: by the token, in time.
OpenLink(r) ==
  /\ token # NoLink /\ fresh /\ Access(r, "hash")
  /\ UNCHANGED <<passwordVars, factorVars, doubled>>

\* updateSellerPasswordHash, some time after the token was read.
UpdatePasswordHash(r) ==
  /\ access[r].op = "hash"
  /\ account' = "set" /\ opened' = opened \cup {access[r].link}
  /\ Mark("link", access[r].link # token)
  /\ Proceed(r, "clear")
  /\ UNCHANGED <<address, token, fresh, mailed, login, factorVars>>

ClearPasswordResetToken_Kept(r) ==
  /\ access[r].op = "clear"
  /\ Depart(r)
  /\ UNCHANGED <<passwordVars, factorVars, doubled>>

\* By id: a link mailed in between goes with it.  The sessions are deleted next.
ClearPasswordResetToken(r) ==
  /\ access[r].op = "clear"
  /\ token' = NoLink /\ fresh' = FALSE
  /\ Depart(r)
  /\ UNCHANGED <<account, address, mailed, opened, login, factorVars, doubled>>

\* One hour, or a day; 24 hours for an address.
TokenExpires ==
  /\ \/ fresh /\ fresh' = FALSE /\ UNCHANGED address
     \/ address = "linked" /\ address' = "stale" /\ UNCHANGED fresh
  /\ UNCHANGED <<account, token, mailed, opened, login, factorVars, access, doubled>>

-----------------------------------------------------------------------------
(* Login, of a seller or of an agent.                                      *)

CanLogin == account = "set" /\ login.lock # "now"

LoginFails(r) ==
  /\ CanLogin /\ login.failures < MaxCount
  /\ access[r].op = "idle"
  /\ access' = [access EXCEPT ![r] = [NoAccess EXCEPT !.op = "fail", !.n = login.failures]]
  /\ UNCHANGED <<passwordVars, factorVars, doubled>>

IncrementFailedLoginAttempts_OffByOne(r) ==
  /\ access[r].op = "fail"
  /\ login' = [login EXCEPT !.failures = @ + 1]
  /\ IF access[r].n > MaxAttempts THEN Proceed(r, "lock") ELSE Depart(r)
  /\ UNCHANGED <<account, address, token, fresh, mailed, opened, factorVars, doubled>>

\* Counted by the database; whether it locks is judged by the count read before.
IncrementFailedLoginAttempts(r) ==
  /\ access[r].op = "fail"
  /\ login' = [login EXCEPT !.failures = @ + 1]
  /\ IF access[r].n + 1 >= MaxAttempts THEN Proceed(r, "lock") ELSE Depart(r)
  /\ UNCHANGED <<account, address, token, fresh, mailed, opened, factorVars, doubled>>

LockLogin(r) ==
  /\ access[r].op = "lock"
  /\ login' = [failures |-> 0, lock |-> "now"]
  /\ Depart(r)
  /\ UNCHANGED <<account, address, token, fresh, mailed, opened, factorVars, doubled>>

\* A lock that has passed is left for the next success to clear.
LoginSucceeds(r) ==
  /\ CanLogin
  /\ IF login.failures > 0 \/ login.lock # "none" THEN Access(r, "reset") ELSE UNCHANGED access
  /\ UNCHANGED <<passwordVars, factorVars, doubled>>

\* It clears a lock set meanwhile, too.
ResetLoginAttempts(r) ==
  /\ access[r].op = "reset"
  /\ login' = [failures |-> 0, lock |-> "none"]
  /\ Depart(r)
  /\ UNCHANGED <<account, address, token, fresh, mailed, opened, factorVars, doubled>>

LockoutEnds ==
  /\ \/ login.lock = "now" /\ login' = [login EXCEPT !.lock = "past"] /\ UNCHANGED factor
     \/ factor.locked /\ factor' = [factor EXCEPT !.locked = FALSE] /\ UNCHANGED login
  /\ UNCHANGED <<account, address, token, fresh, mailed, opened, spent, access, doubled>>

-----------------------------------------------------------------------------
(* The second factor.                                                      *)

\* setup2FA: a secret not yet in force, and new codes in place of the old ones.
Setup2FA ==
  /\ account = "set" /\ factor.setups < MaxSetups
  /\ factor' = [factor EXCEPT !.setups = @ + 1, !.enabled = FALSE,
                              !.codes = {factor.setups + 1} \X CodeIds]
  /\ UNCHANGED <<passwordVars, spent, access, doubled>>

\* confirm2FA and verify2FA of a right number: the lock is read, then cleared.
PassFactor(r) ==
  /\ factor.setups > 0 /\ ~factor.locked /\ Access(r, "pass")
  /\ UNCHANGED <<passwordVars, factorVars, doubled>>

ResetFailedTwoFactor(r) ==
  /\ access[r].op = "pass"
  /\ \E on \in {factor.enabled, TRUE} :
       factor' = [factor EXCEPT !.enabled = on, !.failures = 0, !.locked = FALSE]
  /\ Depart(r)
  /\ UNCHANGED <<passwordVars, spent, doubled>>

\* confirm2FA, verify2FA or verifyBackupCode of a wrong one.
FailFactor(r) ==
  /\ factor.setups > 0 /\ ~factor.locked /\ factor.failures < MaxCount
  /\ access[r].op = "idle"
  /\ access' = [access EXCEPT ![r] = [NoAccess EXCEPT !.op = "wrong", !.n = factor.failures]]
  /\ UNCHANGED <<passwordVars, factorVars, doubled>>

\* Of the three confirm2FA counts, and does not lock.
IncrementFailedTwoFactor(r) ==
  /\ access[r].op = "wrong"
  /\ factor' = [factor EXCEPT !.failures = @ + 1]
  /\ \/ access[r].n + 1 >= MaxAttempts /\ Proceed(r, "lockFactor")
     \/ Depart(r)
  /\ UNCHANGED <<passwordVars, spent, doubled>>

\* The count stays as it is.
LockTwoFactor(r) ==
  /\ access[r].op = "lockFactor"
  /\ factor' = [factor EXCEPT !.locked = TRUE]
  /\ Depart(r)
  /\ UNCHANGED <<passwordVars, spent, doubled>>

\* verifyBackupCode: compared with each of the codes read.
VerifyBackupCode(r) ==
  /\ access[r].op = "idle" /\ ~factor.locked
  /\ \E c \in factor.codes :
       access' = [access EXCEPT ![r] = [NoAccess EXCEPT !.op = "remove",
                                                   !.codes = factor.codes, !.code = c]]
  /\ UNCHANGED <<passwordVars, factorVars, doubled>>

\* removeBackupCodeAtomically: what remains of the codes read, whatever is there.
RemoveBackupCode(r) ==
  /\ access[r].op = "remove"
  /\ factor' = [factor EXCEPT !.codes = access[r].codes \ {access[r].code}]
  /\ spent' = spent \cup {access[r].code}
  /\ Mark("codes", factor.codes # access[r].codes)
  /\ Depart(r)
  /\ UNCHANGED passwordVars

-----------------------------------------------------------------------------

AccountInit ==
  /\ account \in {"none", "invited"} /\ address = "new"
  /\ token = NoLink /\ fresh = FALSE /\ mailed = {} /\ opened = {}
  /\ login = [failures |-> 0, lock |-> "none"]
  /\ factor = [setups |-> 0, enabled |-> FALSE, codes |-> {}, failures |-> 0, locked |-> FALSE]
  /\ spent = {} /\ access = [r \in AccountRequests |-> NoAccess] /\ doubled = {}

\* /auth/register, /auth/verify-email and /auth/resend-verification
RegistrationStep(r) ==
  \/ RegisterSeller(r) \/ CreateSellerWithConsent(r) \/ ResendVerificationEmail(r)
  \/ SendVerificationEmail(r) \/ VerifyEmail(r) \/ MarkSellerEmailVerified(r)

\* /auth/forgot-password, /auth/reset-password/:token and /auth/setup-account
PasswordStep(r) ==
  \/ InviteSeller(r) \/ RequestPasswordReset(r) \/ SetPasswordResetToken(r)
  \/ OpenLink(r) \/ UpdatePasswordHash(r) \/ ClearPasswordResetToken(r)

LoginStep(r) ==
  \/ LoginFails(r) \/ IncrementFailedLoginAttempts(r) \/ LockLogin(r)
  \/ LoginSucceeds(r) \/ ResetLoginAttempts(r)

FactorStep(r) ==
  \/ PassFactor(r) \/ ResetFailedTwoFactor(r) \/ FailFactor(r) \/ IncrementFailedTwoFactor(r)
  \/ LockTwoFactor(r) \/ VerifyBackupCode(r) \/ RemoveBackupCode(r)

AccountNext ==
  \/ \E r \in AccountRequests : \/ Abort(r) \/ RegistrationStep(r) \/ PasswordStep(r)
                         \/ LoginStep(r) \/ FactorStep(r)
  \/ TokenExpires \/ LockoutEnds \/ Setup2FA

AccountSpec == AccountInit /\ [][AccountNext]_accountVars

-----------------------------------------------------------------------------
(* Properties.                                                             *)

\* A link which has set a password is not the one that would set it next, but for
\* the handler about to clear it, a crash there, or two that opened it together.
LinkWorksOnce ==
  token \in opened => "link" \in doubled \/ \E r \in AccountRequests : access[r].op = "clear"

\* The backup codes left are those of the last setup that let nobody in: none comes
\* back and none is lost, but where two handlers overlapped.
CodesAreSpentOnce ==
  "codes" \in doubled \/ factor.setups = 0
    \/ factor.codes = ({factor.setups} \X CodeIds) \ spent

\* Requests that read the count together overshoot the limit by their own number
\* at most, and once more while they are counted, before one of them locks.
LockoutIsBounded ==
  "login" \in doubled \/
    login.failures <= MaxAttempts - 2 + Cardinality(AccountRequests)
                        + Cardinality({r \in AccountRequests : access[r].op # "idle"})

\* What may be used once, a link that sets a password or a backup code, is.
TokensWorkOnce == LinkWorksOnce /\ CodesAreSpentOnce

\* A second factor in force was set up, and the count of failed logins is bounded
\* though it is read before it is written.
LoginIsSound == AccountTypeOK /\ LockoutIsBounded
=============================================================================
