----------------------------- MODULE OfficeProofs -----------------------------
(***************************************************************************)
(* Proofs about Account, about the parts of the office (Slots, Reports,    *)
(* Content and HdbSync) and about Photo, for any number of requests and    *)
(* rows.                                                                   *)
(***************************************************************************)
EXTENDS MCOffice, Slots, Account, Photo, FiniteSetTheorems, SequenceTheorems, TLAPS
-----------------------------------------------------------------------------
(* The account.                                                            *)

Calls == {"idle", "register", "mailAddress", "verify", "mailLink", "hash", "clear", "fail",
          "lock", "reset", "pass", "wrong", "lockFactor", "remove"}

CallStates == [op : Calls, link : Links \cup {NoLink}, n : Nat, codes : SUBSET AllCodes,
               code : AllCodes \cup {<<>>}]

CodesOf(n) == {c \in AllCodes : c[1] <= n}

\* What the handlers hold: a link that was sent, the codes of a setup that was made.
CallFits(r) ==
  /\ access[r].op = "hash" => access[r].link \in mailed
  /\ access[r].op = "pass" => factor.setups > 0
  /\ access[r].op = "remove" =>
       access[r].code \in CodesOf(factor.setups) /\ access[r].codes \subseteq CodesOf(factor.setups)

CallsFit == access \in [AccountRequests -> CallStates] /\ \A r \in AccountRequests : CallFits(r)

\* The columns, in full.
RowFits ==
  /\ AccountTypeOK
  /\ login \in [failures : Nat, lock : Locks]
  /\ factor \in [setups : 0..MaxSetups, enabled : BOOLEAN, codes : SUBSET AllCodes,
                 failures : Nat, locked : BOOLEAN]

\* A code that let somebody in is of a setup that was made.
CodesFit ==
  /\ CodesAreSpentOnce
  /\ spent \subseteq CodesOf(factor.setups) /\ factor.codes \subseteq CodesOf(factor.setups)

\* About to count a failure that will not lock: the count was read below the limit.
Early == {r \in AccountRequests : access[r].op = "fail" /\ access[r].n <= MaxAttempts - 2}

Locking == {r \in AccountRequests : access[r].op = "lock"}

\* Once the limit is reached, whoever reads the count will lock: a failure is counted
\* either by one of those that read it before, each of which counts once, or by a
\* request that then waits to lock.
LoginHolds ==
  "login" \notin doubled /\ login.failures >= MaxAttempts - 1
    => login.failures + Cardinality(Early)
         <= MaxAttempts - 2 + Cardinality(AccountRequests) + Cardinality(Locking)

AccountInv == RowFits /\ CallsFit /\ LinkWorksOnce /\ CodesFit /\ LoginHolds

-----------------------------------------------------------------------------

LEMMA FewRequests ==
  /\ IsFiniteSet(AccountRequests) /\ Cardinality(AccountRequests) \in Nat
  /\ IsFiniteSet(Early) /\ Cardinality(Early) \in Nat
  /\ IsFiniteSet(Locking) /\ Cardinality(Locking) \in Nat
<1>1. IsFiniteSet(AccountRequests) /\ Early \subseteq AccountRequests /\ Locking \subseteq AccountRequests
  BY AccountAssumption DEF Early, Locking
<1> QED
  BY <1>1, FS_Subset, FS_CardinalityType

LEMMA CallBecomes ==
  ASSUME access \in [AccountRequests -> CallStates], NEW r \in AccountRequests, NEW s \in CallStates,
         access' = [access EXCEPT ![r] = s]
  PROVE  /\ access' \in [AccountRequests -> CallStates] /\ access'[r] = s
         /\ \A q \in AccountRequests \ {r} : access'[q] = access[q]
OBVIOUS

LEMMA FreeFits == NoAccess \in CallStates /\ NoAccess.op = "idle"
BY DEF NoAccess, CallStates, Calls

LEMMA Enters ==
  ASSUME RowFits, CallsFit, NEW r \in AccountRequests, NEW op \in Calls, Access(r, op)
  PROVE  /\ access[r].op = "idle"
         /\ access' \in [AccountRequests -> CallStates]
         /\ access'[r].op = op /\ access'[r].link = token
         /\ \A q \in AccountRequests \ {r} : access'[q] = access[q]
<1>1. token \in Links \cup {NoLink}
  BY DEF RowFits, AccountTypeOK
<1>2. PICK s \in CallStates : s = [NoAccess EXCEPT !.op = op, !.link = token]
  BY <1>1 DEF NoAccess, CallStates
<1>3. s.op = op /\ s.link = token
  BY <1>2 DEF NoAccess
<1>4. access' = [access EXCEPT ![r] = s] /\ access[r].op = "idle"
  BY <1>2 DEF Access
<1> QED
  BY <1>3, <1>4, CallBecomes DEF CallsFit

LEMMA Leaves ==
  ASSUME CallsFit, NEW r \in AccountRequests, Depart(r)
  PROVE  /\ access' \in [AccountRequests -> CallStates] /\ access'[r].op = "idle"
         /\ \A q \in AccountRequests \ {r} : access'[q] = access[q]
BY FreeFits, CallBecomes DEF CallsFit, Depart

LEMMA GoesOn ==
  ASSUME CallsFit, NEW r \in AccountRequests, NEW op \in Calls, Proceed(r, op)
  PROVE  /\ access' \in [AccountRequests -> CallStates] /\ access'[r].op = op
         /\ access'[r].link = access[r].link /\ access'[r].n = access[r].n
         /\ \A q \in AccountRequests \ {r} : access'[q] = access[q]
<1>1. PICK s \in CallStates : s = [access[r] EXCEPT !.op = op]
  BY DEF CallsFit, CallStates
<1>2. access' = [access EXCEPT ![r] = s]
  BY <1>1 DEF Proceed, CallsFit
<1>3. s.op = op /\ s.link = access[r].link /\ s.n = access[r].n
  BY <1>1 DEF CallsFit, CallStates
<1> QED
  BY <1>2, <1>3, CallBecomes DEF CallsFit

\* Who starts nothing to count, and does not leave a lock undone, keeps the count.
LEMMA CountKept ==
  ASSUME LoginHolds, login' = login, "login" \in doubled => "login" \in doubled',
         Early' \subseteq Early, Locking \subseteq Locking', Locking' \subseteq AccountRequests,
         login.failures \in Nat
  PROVE  LoginHolds'
<1>1. Cardinality(Early') <= Cardinality(Early) /\ Cardinality(Early') \in Nat
  BY FewRequests, FS_Subset, FS_CardinalityType
<1>2. Cardinality(Locking) <= Cardinality(Locking') /\ Cardinality(Locking') \in Nat
  <2>1. IsFiniteSet(Locking')
    BY FewRequests, FS_Subset
  <2> QED
    BY <2>1, FS_Subset, FS_CardinalityType
<1>3. SUFFICES ASSUME "login" \notin doubled', login.failures >= MaxAttempts - 1
               PROVE  login.failures + Cardinality(Early')
                        <= MaxAttempts - 2 + Cardinality(AccountRequests) + Cardinality(Locking')
  BY DEF LoginHolds
<1>4. login.failures + Cardinality(Early)
        <= MaxAttempts - 2 + Cardinality(AccountRequests) + Cardinality(Locking)
  BY <1>3 DEF LoginHolds
<1>5. PICK a, b, c, d, e \in Nat : a = Cardinality(Early) /\ b = Cardinality(Early')
        /\ c = Cardinality(Locking) /\ d = Cardinality(Locking') /\ e = Cardinality(AccountRequests)
  BY <1>1, <1>2, FewRequests
<1> QED
  BY <1>1, <1>2, <1>4, <1>5, AccountAssumption

\* What one handler's step keeps, once it keeps the types.
LEMMA AccountMoves ==
  ASSUME AccountInv, NEW r \in AccountRequests, RowFits',
         access' \in [AccountRequests -> CallStates], \A q \in AccountRequests \ {r} : access'[q] = access[q],
         CallFits(r)', doubled \subseteq doubled', mailed \subseteq mailed',
         factor.setups <= factor'.setups,
         (token' = token /\ opened' = opened /\ access[r].op # "clear") \/ LinkWorksOnce',
         (factor'.setups = factor.setups /\ factor'.codes = factor.codes /\ spent' = spent)
           \/ CodesFit',
         (login' = login /\ access[r].op # "lock" /\ access'[r].op # "fail") \/ LoginHolds'
  PROVE  AccountInv'
<1>1. factor.setups \in Nat /\ factor'.setups \in Nat
  BY DEF AccountInv, RowFits
<1>2. CallsFit'
  <2> SUFFICES ASSUME NEW q \in AccountRequests \ {r} PROVE CallFits(q)'
    BY DEF CallsFit
  <2>1. CallFits(q) /\ access'[q] = access[q]
    BY DEF AccountInv, CallsFit
  <2>2. CodesOf(factor.setups) \subseteq CodesOf(factor'.setups)
    BY <1>1 DEF CodesOf, AllCodes
  <2> QED
    BY <1>1, <2>1, <2>2 DEF CallFits
<1>3. LinkWorksOnce'
  <2>1. CASE token' = token /\ opened' = opened /\ access[r].op # "clear"
    BY <2>1 DEF AccountInv, LinkWorksOnce
  <2> QED
    BY <2>1
<1>4. CodesFit'
  BY DEF AccountInv, CodesFit, CodesAreSpentOnce
<1>5. LoginHolds'
  <2>1. CASE login' = login /\ access[r].op # "lock" /\ access'[r].op # "fail"
    <3>1. Early' \subseteq Early /\ Locking \subseteq Locking' /\ Locking' \subseteq AccountRequests
      BY <2>1 DEF Early, Locking
    <3> QED
      BY <2>1, <3>1, CountKept DEF AccountInv, RowFits
  <2> QED
    BY <2>1
<1> QED
  BY <1>2, <1>3, <1>4, <1>5 DEF AccountInv

-----------------------------------------------------------------------------

\* The row is as it was.
LEMMA RowStays ==
  ASSUME RowFits, UNCHANGED <<passwordVars, factorVars>>, doubled' \subseteq {"link", "login", "codes"}
  PROVE  RowFits'
BY DEF RowFits, AccountTypeOK, passwordVars, factorVars

LEMMA StillKeeps ==
  ASSUME AccountInv, UNCHANGED <<passwordVars, factorVars, doubled, access>>
  PROVE  AccountInv'
<1>1. RowFits'
  BY RowStays DEF AccountInv, RowFits, AccountTypeOK
<1>2. CallsFit' /\ LinkWorksOnce' /\ CodesFit'
  BY DEF AccountInv, CallsFit, CallFits, LinkWorksOnce, CodesFit, CodesAreSpentOnce,
         passwordVars, factorVars
<1>3. Early' = Early /\ Locking' = Locking
  BY DEF Early, Locking
<1>4. LoginHolds'
  BY <1>3 DEF AccountInv, LoginHolds, passwordVars
<1> QED
  BY <1>1, <1>2, <1>4 DEF AccountInv

\* A failure counted is one early request less, or one more that waits to lock.
LEMMA FailureCounted ==
  ASSUME LoginHolds, login.failures \in Nat, login'.failures = login.failures + 1,
         doubled' = doubled,
         \/ /\ Cardinality(Locking') = Cardinality(Locking) + 1
            /\ Cardinality(Early') = Cardinality(Early)
         \/ /\ Cardinality(Early') = Cardinality(Early) - 1
            /\ Cardinality(Locking') = Cardinality(Locking),
         Early' \subseteq AccountRequests
  PROVE  LoginHolds'
<1>1. SUFFICES ASSUME "login" \notin doubled, login'.failures >= MaxAttempts - 1
               PROVE  login'.failures + Cardinality(Early')
                        <= MaxAttempts - 2 + Cardinality(AccountRequests) + Cardinality(Locking')
  BY DEF LoginHolds
<1>2. PICK a, c, e \in Nat : a = Cardinality(Early) /\ c = Cardinality(Locking)
        /\ e = Cardinality(AccountRequests)
  BY FewRequests
<1>3. a <= e
  <2>1. Early \subseteq AccountRequests
    BY DEF Early
  <2> QED
    BY <1>2, <2>1, FewRequests, FS_Subset
<1>4. CASE login.failures >= MaxAttempts - 1
  BY <1>1, <1>2, <1>4, AccountAssumption DEF LoginHolds
<1>5. CASE login.failures = MaxAttempts - 2
  BY <1>1, <1>2, <1>3, <1>5, AccountAssumption
<1> QED
  BY <1>1, <1>4, <1>5, AccountAssumption

LEMMA EnterKeeps ==
  ASSUME AccountInv, NEW r \in AccountRequests,
         NEW op \in Calls \ {"clear", "fail", "lock", "remove"}, Access(r, op),
         UNCHANGED <<passwordVars, factorVars, doubled>>,
         op = "hash" => token \in mailed, op = "pass" => factor.setups > 0
  PROVE  AccountInv'
<1>1. RowFits' /\ factor.setups <= factor'.setups
  BY RowStays DEF AccountInv, RowFits, AccountTypeOK, factorVars
<1>2. /\ access[r].op = "idle" /\ access' \in [AccountRequests -> CallStates]
      /\ access'[r].op = op /\ access'[r].link = token
      /\ \A q \in AccountRequests \ {r} : access'[q] = access[q]
  BY Enters DEF AccountInv
<1>3. CallFits(r)'
  BY <1>2 DEF CallFits, passwordVars, factorVars
<1> QED
  BY <1>1, <1>2, <1>3, AccountMoves DEF passwordVars, factorVars

LEMMA QuitKeeps ==
  ASSUME AccountInv, NEW r \in AccountRequests, Abort(r)
  PROVE  AccountInv'
<1>1. UNCHANGED <<passwordVars, factorVars>> /\ doubled \subseteq doubled' /\ Depart(r)
      /\ (access[r].op = "clear" => "link" \in doubled')
      /\ (access[r].op = "lock" => "login" \in doubled')
      /\ doubled' \subseteq {"link", "login", "codes"}
  BY DEF Abort, AccountInv, RowFits, AccountTypeOK
<1>2. RowFits' /\ factor.setups <= factor'.setups
  BY <1>1, RowStays DEF AccountInv, RowFits, AccountTypeOK, factorVars
<1>3. /\ access' \in [AccountRequests -> CallStates] /\ access'[r].op = "idle"
      /\ \A q \in AccountRequests \ {r} : access'[q] = access[q]
  BY <1>1, Leaves DEF AccountInv
<1>4. CallFits(r)'
  BY <1>3 DEF CallFits
<1>5. access[r].op # "clear" \/ LinkWorksOnce'
  BY <1>1 DEF LinkWorksOnce
<1>6. access[r].op # "lock" \/ LoginHolds'
  BY <1>1 DEF LoginHolds
<1> QED
  BY <1>1, <1>2, <1>3, <1>4, <1>5, <1>6, AccountMoves DEF passwordVars, factorVars

-----------------------------------------------------------------------------
(* Registration and the address.                                           *)

LEMMA RegistrationKeeps ==
  ASSUME AccountInv, NEW r \in AccountRequests, RegistrationStep(r)
  PROVE  AccountInv'
<1>1. CASE RegisterSeller(r) \/ ResendVerificationEmail(r) \/ VerifyEmail(r)
  BY <1>1, EnterKeeps DEF RegisterSeller, ResendVerificationEmail, VerifyEmail, Calls
<1>2. ASSUME CreateSellerWithConsent(r) PROVE AccountInv'
  <2>1. RowFits' /\ factor.setups <= factor'.setups /\ access[r].op = "register"
    BY <1>2 DEF CreateSellerWithConsent, AccountInv, RowFits, AccountTypeOK, factorVars
  <2>2. /\ access' \in [AccountRequests -> CallStates] /\ access'[r].op = "mailAddress"
        /\ \A q \in AccountRequests \ {r} : access'[q] = access[q]
    BY <1>2, GoesOn DEF CreateSellerWithConsent, AccountInv, Calls
  <2>3. CallFits(r)'
    BY <2>2 DEF CallFits
  <2> QED
    BY <1>2, <2>1, <2>2, <2>3, AccountMoves DEF CreateSellerWithConsent, factorVars
<1>3. ASSUME SendVerificationEmail(r) \/ MarkSellerEmailVerified(r) PROVE AccountInv'
  <2>1. /\ access[r].op \in {"mailAddress", "verify"} /\ Depart(r)
        /\ UNCHANGED <<account, token, fresh, mailed, opened, login, factorVars, doubled>>
        /\ address' \in {"linked", "verified"}
    BY <1>3 DEF SendVerificationEmail, MarkSellerEmailVerified
  <2>2. RowFits' /\ factor.setups <= factor'.setups
    BY <2>1 DEF AccountInv, RowFits, AccountTypeOK, factorVars
  <2>3. /\ access' \in [AccountRequests -> CallStates] /\ access'[r].op = "idle"
        /\ \A q \in AccountRequests \ {r} : access'[q] = access[q]
    BY <2>1, Leaves DEF AccountInv
  <2>4. CallFits(r)'
    BY <2>3 DEF CallFits
  <2> QED
    BY <2>1, <2>2, <2>3, <2>4, AccountMoves DEF factorVars
<1> QED
  BY <1>1, <1>2, <1>3 DEF RegistrationStep

-----------------------------------------------------------------------------
(* The links.                                                              *)

LEMMA SetTokenKeeps ==
  ASSUME AccountInv, NEW r \in AccountRequests, SetPasswordResetToken(r)
  PROVE  AccountInv'
<1>1. PICK l \in Links \ mailed : token' = l /\ mailed' = mailed \cup {l}
  BY DEF SetPasswordResetToken
<1>2. access[r].op = "mailLink" /\ fresh' = TRUE /\ Depart(r)
      /\ UNCHANGED <<account, address, opened, login, factorVars, doubled>>
  BY DEF SetPasswordResetToken
<1>3. RowFits' /\ factor.setups <= factor'.setups
  BY <1>1, <1>2 DEF AccountInv, RowFits, AccountTypeOK, factorVars
<1>4. /\ access' \in [AccountRequests -> CallStates] /\ access'[r].op = "idle"
      /\ \A q \in AccountRequests \ {r} : access'[q] = access[q]
  BY <1>2, Leaves DEF AccountInv
<1>5. CallFits(r)'
  BY <1>4 DEF CallFits
<1>6. LinkWorksOnce'
  BY <1>1, <1>2 DEF LinkWorksOnce, AccountInv, RowFits, AccountTypeOK
<1> QED
  BY <1>1, <1>2, <1>3, <1>4, <1>5, <1>6, AccountMoves DEF factorVars

LEMMA UpdatePasswordKeeps ==
  ASSUME AccountInv, NEW r \in AccountRequests, UpdatePasswordHash(r)
  PROVE  AccountInv'
<1>1. /\ access[r].op = "hash" /\ account' = "set" /\ opened' = opened \cup {access[r].link}
      /\ Mark("link", access[r].link # token) /\ Proceed(r, "clear")
      /\ UNCHANGED <<address, token, fresh, mailed, login, factorVars>>
  BY DEF UpdatePasswordHash
<1>2. access[r].link \in mailed
  BY <1>1 DEF AccountInv, CallsFit, CallFits
<1>3. doubled \subseteq doubled' /\ doubled' \subseteq {"link", "login", "codes"}
      /\ (access[r].link # token => "link" \in doubled')
  BY <1>1 DEF Mark, AccountInv, RowFits, AccountTypeOK
<1>4. RowFits' /\ factor.setups <= factor'.setups
  BY <1>1, <1>2, <1>3 DEF AccountInv, RowFits, AccountTypeOK, factorVars
<1>5. /\ access' \in [AccountRequests -> CallStates] /\ access'[r].op = "clear"
      /\ \A q \in AccountRequests \ {r} : access'[q] = access[q]
  BY <1>1, GoesOn DEF AccountInv, Calls
<1>6. CallFits(r)'
  BY <1>5 DEF CallFits
<1>7. LinkWorksOnce'
  BY <1>5 DEF LinkWorksOnce
<1> QED
  BY <1>1, <1>3, <1>4, <1>5, <1>6, <1>7, AccountMoves DEF factorVars

LEMMA ClearTokenKeeps ==
  ASSUME AccountInv, NEW r \in AccountRequests, ClearPasswordResetToken(r)
  PROVE  AccountInv'
<1>1. /\ access[r].op = "clear" /\ token' = NoLink /\ fresh' = FALSE /\ Depart(r)
      /\ UNCHANGED <<account, address, mailed, opened, login, factorVars, doubled>>
  BY DEF ClearPasswordResetToken
<1>2. RowFits' /\ factor.setups <= factor'.setups
  <2>1. AccountTypeOK /\ UNCHANGED factor
    BY <1>1 DEF AccountInv, RowFits, factorVars
  <2>2. AccountTypeOK'
    BY <1>1, <2>1 DEF AccountTypeOK, factorVars
  <2> QED
    BY <1>1, <2>1, <2>2 DEF AccountInv, RowFits
<1>3. /\ access' \in [AccountRequests -> CallStates] /\ access'[r].op = "idle"
      /\ \A q \in AccountRequests \ {r} : access'[q] = access[q]
  BY <1>1, Leaves DEF AccountInv
<1>4. CallFits(r)'
  BY <1>3 DEF CallFits
<1>5. LinkWorksOnce'
  BY <1>1, AccountAssumption DEF LinkWorksOnce, AccountInv, RowFits, AccountTypeOK
<1> QED
  BY <1>1, <1>2, <1>3, <1>4, <1>5, AccountMoves DEF factorVars

LEMMA PasswordKeeps ==
  ASSUME AccountInv, NEW r \in AccountRequests, PasswordStep(r)
  PROVE  AccountInv'
<1>1. CASE InviteSeller(r) \/ RequestPasswordReset(r)
  BY <1>1, EnterKeeps DEF InviteSeller, RequestPasswordReset, Calls
<1>2. ASSUME OpenLink(r) PROVE AccountInv'
  <2>1. token \in mailed
    BY <1>2 DEF OpenLink, AccountInv, RowFits, AccountTypeOK
  <2> QED
    BY <1>2, <2>1, EnterKeeps DEF OpenLink, Calls
<1> QED
  BY <1>1, <1>2, SetTokenKeeps, UpdatePasswordKeeps, ClearTokenKeeps DEF PasswordStep

-----------------------------------------------------------------------------
(* The lockout.                                                            *)

LEMMA LoginFailsKeeps ==
  ASSUME AccountInv, NEW r \in AccountRequests, LoginFails(r)
  PROVE  AccountInv'
<1>1. /\ access[r].op = "idle" /\ UNCHANGED <<passwordVars, factorVars, doubled>>
      /\ access' = [access EXCEPT ![r] = [NoAccess EXCEPT !.op = "fail", !.n = login.failures]]
  BY DEF LoginFails
<1>2. login.failures \in Nat
  BY DEF AccountInv, RowFits
<1>3. PICK s \in CallStates : s = [NoAccess EXCEPT !.op = "fail", !.n = login.failures]
  BY <1>2 DEF NoAccess, CallStates, Calls
<1>4. s.op = "fail" /\ s.n = login.failures
  BY <1>3 DEF NoAccess
<1>5. /\ access' \in [AccountRequests -> CallStates] /\ access'[r] = s
      /\ \A q \in AccountRequests \ {r} : access'[q] = access[q]
  BY <1>1, <1>3, CallBecomes DEF AccountInv, CallsFit
<1>6. RowFits' /\ factor.setups <= factor'.setups
  BY <1>1, RowStays DEF AccountInv, RowFits, AccountTypeOK, factorVars
<1>7. CallFits(r)'
  BY <1>4, <1>5 DEF CallFits
<1>8. LoginHolds'
  <2>1. CASE login.failures >= MaxAttempts - 1
    <3>1. Early' \subseteq Early /\ Locking \subseteq Locking' /\ Locking' \subseteq AccountRequests
      BY <1>1, <1>2, <1>4, <1>5, <2>1, AccountAssumption DEF Early, Locking
    <3> QED
      BY <1>1, <1>2, <3>1, CountKept DEF AccountInv, passwordVars
  <2>2. CASE ~ (login.failures >= MaxAttempts - 1)
    BY <1>1, <2>2 DEF LoginHolds, passwordVars
  <2> QED
    BY <2>1, <2>2
<1> QED
  BY <1>1, <1>4, <1>5, <1>6, <1>7, <1>8, AccountMoves DEF passwordVars, factorVars

LEMMA CountsKeeps ==
  ASSUME AccountInv, NEW r \in AccountRequests, IncrementFailedLoginAttempts(r)
  PROVE  AccountInv'
<1>1. /\ access[r].op = "fail" /\ login' = [login EXCEPT !.failures = @ + 1]
      /\ IF access[r].n + 1 >= MaxAttempts THEN Proceed(r, "lock") ELSE Depart(r)
      /\ UNCHANGED <<account, address, token, fresh, mailed, opened, factorVars, doubled>>
  BY DEF IncrementFailedLoginAttempts
<1>2. login \in [failures : Nat, lock : Locks] /\ access[r].n \in Nat
      /\ LoginHolds /\ Early \subseteq AccountRequests
  BY DEF AccountInv, RowFits, CallsFit, CallStates, Early
<1>3. login' \in [failures : Nat, lock : Locks] /\ login'.failures = login.failures + 1
  BY <1>1, <1>2
<1>4. RowFits' /\ factor.setups <= factor'.setups
  <2>1. AccountTypeOK /\ UNCHANGED factor
    BY <1>1 DEF AccountInv, RowFits, factorVars
  <2>2. AccountTypeOK'
    BY <1>1, <1>3, <2>1 DEF AccountTypeOK, factorVars
  <2> QED
    BY <1>1, <1>3, <2>1, <2>2 DEF AccountInv, RowFits, AccountTypeOK
<1>5. /\ access' \in [AccountRequests -> CallStates]
      /\ access'[r].op = IF access[r].n + 1 >= MaxAttempts THEN "lock" ELSE "idle"
      /\ \A q \in AccountRequests \ {r} : access'[q] = access[q]
  <2>1. CASE access[r].n + 1 >= MaxAttempts
    BY <1>1, <2>1, GoesOn DEF AccountInv, Calls
  <2>2. CASE ~ (access[r].n + 1 >= MaxAttempts)
    BY <1>1, <2>2, Leaves DEF AccountInv
  <2> QED
    BY <2>1, <2>2
<1>6. CallFits(r)'
  BY <1>5 DEF CallFits
<1>7. LoginHolds'
  <2>1. CASE access[r].n + 1 >= MaxAttempts
    <3>1. Early' = Early /\ Locking' = Locking \cup {r} /\ r \notin Locking
      BY <1>1, <1>2, <1>5, <2>1, AccountAssumption DEF Early, Locking
    <3>2. Cardinality(Locking') = Cardinality(Locking) + 1 /\ Cardinality(Early') = Cardinality(Early)
      BY <3>1, FewRequests, FS_AddElement
    <3> QED
      BY <1>1, <1>2, <1>3, <3>1, <3>2, FailureCounted
  <2>2. CASE ~ (access[r].n + 1 >= MaxAttempts)
    <3>1. Early' = Early \ {r} /\ Locking' = Locking /\ r \in Early
      BY <1>1, <1>2, <1>5, <2>2, AccountAssumption DEF Early, Locking
    <3>2. Cardinality(Early') = Cardinality(Early) - 1 /\ Cardinality(Locking') = Cardinality(Locking)
      BY <3>1, FewRequests, FS_RemoveElement
    <3> QED
      BY <1>1, <1>2, <1>3, <3>1, <3>2, FailureCounted
  <2> QED
    BY <2>1, <2>2
<1> QED
  BY <1>1, <1>3, <1>4, <1>5, <1>6, <1>7, AccountMoves DEF factorVars

LEMMA ResetKeeps ==
  ASSUME AccountInv, NEW r \in AccountRequests, LockLogin(r) \/ ResetLoginAttempts(r)
  PROVE  AccountInv'
<1>1. PICK b \in Locks : login' = [failures |-> 0, lock |-> b]
  BY DEF Locks, LockLogin, ResetLoginAttempts
<1>2. /\ access[r].op \in {"lock", "reset"} /\ Depart(r)
      /\ UNCHANGED <<account, address, token, fresh, mailed, opened, factorVars, doubled>>
  BY DEF LockLogin, ResetLoginAttempts
<1>3. login' \in [failures : Nat, lock : Locks] /\ login'.failures = 0
  BY <1>1
<1>4. RowFits' /\ factor.setups <= factor'.setups
  <2>1. AccountTypeOK /\ UNCHANGED factor
    BY <1>2 DEF AccountInv, RowFits, factorVars
  <2>2. AccountTypeOK'
    BY <1>2, <1>3, <2>1 DEF AccountTypeOK, factorVars
  <2> QED
    BY <1>2, <1>3, <2>1, <2>2 DEF AccountInv, RowFits, AccountTypeOK
<1>5. /\ access' \in [AccountRequests -> CallStates] /\ access'[r].op = "idle"
      /\ \A q \in AccountRequests \ {r} : access'[q] = access[q]
  BY <1>2, Leaves DEF AccountInv
<1>6. CallFits(r)'
  BY <1>5 DEF CallFits
<1>7. LoginHolds'
  BY <1>3, AccountAssumption DEF LoginHolds
<1> QED
  BY <1>2, <1>4, <1>5, <1>6, <1>7, AccountMoves DEF factorVars

LEMMA LoginKeeps ==
  ASSUME AccountInv, NEW r \in AccountRequests, LoginStep(r)
  PROVE  AccountInv'
<1>1. ASSUME LoginSucceeds(r) PROVE AccountInv'
  <2>1. CASE Access(r, "reset")
    BY <1>1, <2>1, EnterKeeps DEF LoginSucceeds, Calls
  <2>2. CASE UNCHANGED <<passwordVars, factorVars, doubled, access>>
    BY <2>2, StillKeeps
  <2> QED
    BY <1>1, <2>1, <2>2 DEF LoginSucceeds
<1> QED
  BY <1>1, LoginFailsKeeps, CountsKeeps, ResetKeeps DEF LoginStep

-----------------------------------------------------------------------------
(* The second factor.                                                      *)

FactorRows == [setups : 0..MaxSetups, enabled : BOOLEAN, codes : SUBSET AllCodes,
               failures : Nat, locked : BOOLEAN]

\* Only the second factor's columns change, and they keep their types.
LEMMA FactorFits ==
  ASSUME RowFits, UNCHANGED passwordVars, factor' \in FactorRows,
         factor'.enabled => factor'.setups > 0,
         spent' \subseteq AllCodes, doubled' \subseteq {"link", "login", "codes"}
  PROVE  RowFits'
<1>1. AccountTypeOK'
  BY DEF RowFits, AccountTypeOK, passwordVars, FactorRows
<1> QED
  BY <1>1 DEF RowFits, FactorRows, passwordVars

LEMMA SetupKeeps == ASSUME AccountInv, Setup2FA PROVE AccountInv'
<1>1. /\ account = "set" /\ factor.setups < MaxSetups
      /\ factor' = [factor EXCEPT !.setups = @ + 1, !.enabled = FALSE,
                                  !.codes = {factor.setups + 1} \X CodeIds]
      /\ UNCHANGED <<passwordVars, spent, access, doubled>>
  BY DEF Setup2FA
<1>2. factor \in FactorRows /\ factor.setups \in Nat /\ MaxSetups \in Nat
      /\ spent \subseteq CodesOf(factor.setups) /\ RowFits
  BY AccountAssumption DEF AccountInv, RowFits, CodesFit, FactorRows
<1>3. {factor.setups + 1} \X CodeIds \subseteq AllCodes
  BY <1>1, <1>2 DEF AllCodes
<1>4. /\ factor' \in FactorRows /\ factor'.setups = factor.setups + 1 /\ ~ factor'.enabled
      /\ factor'.codes = {factor.setups + 1} \X CodeIds
  <2>1. PICK n \in 0..MaxSetups, cs \in SUBSET AllCodes :
          n = factor.setups + 1 /\ cs = {factor.setups + 1} \X CodeIds
    <3>1. factor.setups + 1 \in 0..MaxSetups
      BY <1>1, <1>2
    <3> QED
      BY <1>3, <3>1
  <2>2. factor' = [factor EXCEPT !.setups = n, !.enabled = FALSE, !.codes = cs]
    BY <1>1, <2>1
  <2>3. factor' \in FactorRows /\ factor'.setups = n /\ factor'.enabled = FALSE /\ factor'.codes = cs
    BY <1>2, <2>2 DEF FactorRows
  <2> QED
    BY <2>1, <2>3
<1>5. RowFits'
  <2>1. spent \subseteq AllCodes /\ doubled \subseteq {"link", "login", "codes"}
    BY DEF AccountInv, RowFits, AccountTypeOK
  <2> QED
    BY <1>1, <1>2, <1>4, <2>1, FactorFits
<1>6. CodesOf(factor.setups) \subseteq CodesOf(factor'.setups)
      /\ \A c \in CodesOf(factor.setups) : c \notin {factor.setups + 1} \X CodeIds
  BY <1>2, <1>4 DEF CodesOf, AllCodes
<1>7. CallsFit'
  <2>1. access' = access /\ mailed' = mailed /\ CallsFit
    BY <1>1 DEF AccountInv, passwordVars
  <2>2. \A r \in AccountRequests : CallFits(r) => CallFits(r)'
    BY <1>2, <1>4, <1>6, <2>1 DEF CallFits
  <2> QED
    BY <2>1, <2>2 DEF CallsFit
<1>8. CodesFit'
  <2>1. factor'.codes \subseteq CodesOf(factor'.setups)
    BY <1>2, <1>3, <1>4 DEF CodesOf, AllCodes
  <2>2. factor'.codes = ({factor'.setups} \X CodeIds) \ spent
    BY <1>2, <1>4, <1>6
  <2> QED
    BY <1>1, <1>2, <1>6, <2>1, <2>2 DEF CodesFit, CodesAreSpentOnce
<1>9. LinkWorksOnce' /\ LoginHolds'
  <2>1. Early' = Early /\ Locking' = Locking
    BY <1>1 DEF Early, Locking
  <2> QED
    BY <1>1, <2>1 DEF AccountInv, LinkWorksOnce, LoginHolds, passwordVars
<1> QED
  BY <1>5, <1>7, <1>8, <1>9 DEF AccountInv

\* A step that changes the lock or the count of the second factor alone.
LEMMA FactorMoves ==
  ASSUME AccountInv, NEW r \in AccountRequests, access[r].op \notin {"clear", "lock"},
         Depart(r) \/ Proceed(r, "lockFactor"),
         factor' \in FactorRows, factor'.setups = factor.setups, factor'.codes = factor.codes,
         factor'.enabled => factor.setups > 0, UNCHANGED <<passwordVars, spent, doubled>>
  PROVE  AccountInv'
<1>1. RowFits'
  BY FactorFits DEF AccountInv, RowFits, AccountTypeOK
<1>2. /\ access' \in [AccountRequests -> CallStates] /\ access'[r].op \in {"idle", "lockFactor"}
      /\ \A q \in AccountRequests \ {r} : access'[q] = access[q]
  BY Leaves, GoesOn DEF AccountInv, Calls
<1>3. CallFits(r)' /\ factor.setups <= factor'.setups
  BY <1>2 DEF CallFits, FactorRows
<1> QED
  BY <1>1, <1>2, <1>3, AccountMoves DEF passwordVars

LEMMA FactorResets ==
  ASSUME AccountInv, NEW r \in AccountRequests, ResetFailedTwoFactor(r)
  PROVE  AccountInv'
<1>1. PICK on \in {factor.enabled, TRUE} :
        factor' = [factor EXCEPT !.enabled = on, !.failures = 0, !.locked = FALSE]
  BY DEF ResetFailedTwoFactor
<1>2. access[r].op = "pass" /\ Depart(r) /\ UNCHANGED <<passwordVars, spent, doubled>>
  BY DEF ResetFailedTwoFactor
<1>3. factor \in FactorRows /\ factor.setups > 0
  BY <1>2 DEF AccountInv, RowFits, FactorRows, CallsFit, CallFits
<1>4. on \in BOOLEAN
  BY <1>1, <1>3 DEF FactorRows
<1>5. factor' \in FactorRows /\ factor'.setups = factor.setups /\ factor'.codes = factor.codes
  BY <1>1, <1>3, <1>4 DEF FactorRows
<1> QED
  BY <1>2, <1>3, <1>5, FactorMoves

LEMMA FactorCounts ==
  ASSUME AccountInv, NEW r \in AccountRequests, IncrementFailedTwoFactor(r) \/ LockTwoFactor(r)
  PROVE  AccountInv'
<1>1. /\ access[r].op \in {"wrong", "lockFactor"} /\ UNCHANGED <<passwordVars, spent, doubled>>
      /\ Depart(r) \/ Proceed(r, "lockFactor")
  BY DEF IncrementFailedTwoFactor, LockTwoFactor
<1>2. factor \in FactorRows /\ (factor.enabled => factor.setups > 0)
  BY DEF AccountInv, RowFits, AccountTypeOK, FactorRows
<1>3. PICK n \in Nat, locks \in BOOLEAN :
        factor' = [factor EXCEPT !.failures = n, !.locked = locks]
  <2>1. CASE IncrementFailedTwoFactor(r)
    <3>1. PICK n \in Nat : n = factor.failures + 1
      BY <1>2 DEF FactorRows
    <3>2. factor' = [factor EXCEPT !.failures = n, !.locked = factor.locked]
      BY <1>2, <2>1, <3>1 DEF IncrementFailedTwoFactor, FactorRows
    <3> QED
      BY <1>2, <3>2 DEF FactorRows
  <2>2. CASE LockTwoFactor(r)
    <3>1. factor' = [factor EXCEPT !.failures = factor.failures, !.locked = TRUE]
      BY <1>2, <2>2 DEF LockTwoFactor, FactorRows
    <3> QED
      BY <1>2, <3>1 DEF FactorRows
  <2> QED
    BY <2>1, <2>2
<1>4. /\ factor' \in FactorRows /\ factor'.setups = factor.setups /\ factor'.codes = factor.codes
      /\ factor'.enabled = factor.enabled
  BY <1>2, <1>3 DEF FactorRows
<1> QED
  BY <1>1, <1>2, <1>4, FactorMoves

LEMMA FailFactorKeeps ==
  ASSUME AccountInv, NEW r \in AccountRequests, FailFactor(r)
  PROVE  AccountInv'
<1>1. /\ access[r].op = "idle" /\ UNCHANGED <<passwordVars, factorVars, doubled>>
      /\ access' = [access EXCEPT ![r] = [NoAccess EXCEPT !.op = "wrong", !.n = factor.failures]]
  BY DEF FailFactor
<1>2. factor.failures \in Nat
  BY DEF AccountInv, RowFits
<1>3. PICK s \in CallStates : s = [NoAccess EXCEPT !.op = "wrong", !.n = factor.failures]
  BY <1>2 DEF NoAccess, CallStates, Calls
<1>4. s.op = "wrong"
  BY <1>3 DEF NoAccess
<1>5. /\ access' \in [AccountRequests -> CallStates] /\ access'[r] = s
      /\ \A q \in AccountRequests \ {r} : access'[q] = access[q]
  BY <1>1, <1>3, CallBecomes DEF AccountInv, CallsFit
<1>6. RowFits' /\ factor.setups <= factor'.setups
  BY <1>1, RowStays DEF AccountInv, RowFits, AccountTypeOK, factorVars
<1>7. CallFits(r)'
  BY <1>4, <1>5 DEF CallFits
<1> QED
  BY <1>1, <1>4, <1>5, <1>6, <1>7, AccountMoves DEF passwordVars, factorVars

LEMMA VerifyCodeKeeps ==
  ASSUME AccountInv, NEW r \in AccountRequests, VerifyBackupCode(r)
  PROVE  AccountInv'
<1>1. PICK c \in factor.codes :
        access' = [access EXCEPT ![r] = [NoAccess EXCEPT !.op = "remove", !.codes = factor.codes, !.code = c]]
  BY DEF VerifyBackupCode
<1>2. access[r].op = "idle" /\ UNCHANGED <<passwordVars, factorVars, doubled>>
  BY DEF VerifyBackupCode
<1>3. factor.codes \subseteq AllCodes /\ factor.codes \subseteq CodesOf(factor.setups)
  BY DEF AccountInv, RowFits, AccountTypeOK, CodesFit
<1>4. PICK s \in CallStates : s = [NoAccess EXCEPT !.op = "remove", !.codes = factor.codes, !.code = c]
  BY <1>1, <1>3 DEF NoAccess, CallStates, Calls
<1>5. s.op = "remove" /\ s.code = c /\ s.codes = factor.codes
  BY <1>4 DEF NoAccess
<1>6. /\ access' \in [AccountRequests -> CallStates] /\ access'[r] = s
      /\ \A q \in AccountRequests \ {r} : access'[q] = access[q]
  BY <1>1, <1>4, CallBecomes DEF AccountInv, CallsFit
<1>7. RowFits' /\ factor.setups <= factor'.setups
  BY <1>2, RowStays DEF AccountInv, RowFits, AccountTypeOK, factorVars
<1>8. CallFits(r)'
  BY <1>2, <1>3, <1>5, <1>6 DEF CallFits, factorVars
<1> QED
  BY <1>2, <1>5, <1>6, <1>7, <1>8, AccountMoves DEF passwordVars, factorVars

LEMMA RemoveCodeKeeps ==
  ASSUME AccountInv, NEW r \in AccountRequests, RemoveBackupCode(r)
  PROVE  AccountInv'
<1>1. /\ access[r].op = "remove" /\ Depart(r) /\ UNCHANGED passwordVars
      /\ factor' = [factor EXCEPT !.codes = access[r].codes \ {access[r].code}]
      /\ spent' = spent \cup {access[r].code}
      /\ Mark("codes", factor.codes # access[r].codes)
  BY DEF RemoveBackupCode
<1>2. factor \in FactorRows /\ (factor.enabled => factor.setups > 0)
      /\ access[r].codes \subseteq AllCodes /\ access[r].code \in CodesOf(factor.setups)
      /\ spent \subseteq AllCodes /\ doubled \subseteq {"link", "login", "codes"}
  BY <1>1 DEF AccountInv, RowFits, AccountTypeOK, FactorRows, CallsFit, CallFits, CallStates
<1>3. /\ factor' \in FactorRows /\ factor'.setups = factor.setups
      /\ factor'.codes = access[r].codes \ {access[r].code} /\ factor'.enabled = factor.enabled
  BY <1>1, <1>2 DEF FactorRows
<1>4. doubled \subseteq doubled' /\ doubled' \subseteq {"link", "login", "codes"}
      /\ (factor.codes # access[r].codes => "codes" \in doubled')
  BY <1>1, <1>2 DEF Mark
<1>5. spent' \subseteq AllCodes
  BY <1>1, <1>2 DEF CodesOf
<1>6. RowFits'
  BY <1>1, <1>2, <1>3, <1>4, <1>5, FactorFits DEF AccountInv
<1>7. /\ access' \in [AccountRequests -> CallStates] /\ access'[r].op = "idle"
      /\ \A q \in AccountRequests \ {r} : access'[q] = access[q]
  BY <1>1, Leaves DEF AccountInv
<1>8. CallFits(r)' /\ factor.setups <= factor'.setups
  BY <1>2, <1>3, <1>7 DEF CallFits, FactorRows
<1>9. CodesFit'
  <2>1. CodesFit
    BY DEF AccountInv
  <2>2. factor.setups # 0
    BY <1>2 DEF CodesOf, AllCodes, FactorRows
  <2>3. CodesAreSpentOnce'
    <3>1. CASE factor.codes # access[r].codes \/ "codes" \in doubled
      BY <1>4, <3>1 DEF CodesAreSpentOnce
    <3>2. CASE factor.codes = access[r].codes /\ "codes" \notin doubled
      <4>1. factor.codes = ({factor.setups} \X CodeIds) \ spent
        BY <2>1, <2>2, <3>2 DEF CodesFit, CodesAreSpentOnce
      <4> QED
        BY <1>1, <1>3, <3>2, <4>1 DEF CodesAreSpentOnce
    <3> QED
      BY <3>1, <3>2
  <2>4. spent' \subseteq CodesOf(factor.setups)
    BY <1>1, <1>2, <2>1 DEF CodesFit
  <2>5. factor'.codes \subseteq CodesOf(factor.setups)
    <3>1. access[r].codes \subseteq CodesOf(factor.setups)
      BY <1>1 DEF AccountInv, CallsFit, CallFits
    <3> QED
      BY <1>3, <3>1
  <2> QED
    BY <1>3, <2>3, <2>4, <2>5 DEF CodesFit
<1> QED
  BY <1>1, <1>4, <1>6, <1>7, <1>8, <1>9, AccountMoves DEF passwordVars

LEMMA FactorKeeps ==
  ASSUME AccountInv, NEW r \in AccountRequests, FactorStep(r)
  PROVE  AccountInv'
<1>1. CASE PassFactor(r)
  BY <1>1, EnterKeeps DEF PassFactor, Calls
<1> QED
  BY <1>1, FactorResets, FactorCounts, FailFactorKeeps, VerifyCodeKeeps, RemoveCodeKeeps
     DEF FactorStep

-----------------------------------------------------------------------------
(* Time.                                                                   *)

LEMMA ClockKeeps == ASSUME AccountInv, TokenExpires \/ LockoutEnds PROVE AccountInv'
<1>1. /\ UNCHANGED <<account, token, mailed, opened, spent, access, doubled>>
      /\ fresh' \in BOOLEAN /\ address' \in {"new", "linked", "stale", "verified"}
      /\ login' \in [failures : Nat, lock : Locks] /\ login'.failures = login.failures
      /\ factor' \in FactorRows /\ factor'.setups = factor.setups /\ factor'.codes = factor.codes
      /\ factor'.enabled = factor.enabled
  <2>1. factor \in FactorRows /\ login \in [failures : Nat, lock : Locks]
        /\ fresh \in BOOLEAN /\ address \in {"new", "linked", "stale", "verified"}
    BY DEF AccountInv, RowFits, AccountTypeOK, FactorRows
  <2>2. CASE TokenExpires
    BY <2>1, <2>2 DEF TokenExpires, factorVars
  <2>3. CASE LockoutEnds
    BY <2>1, <2>3 DEF LockoutEnds, FactorRows, Locks
  <2> QED
    BY <2>2, <2>3
<1>2. RowFits'
  <2>1. AccountTypeOK'
    BY <1>1 DEF AccountInv, RowFits, AccountTypeOK, FactorRows
  <2> QED
    BY <1>1, <2>1 DEF RowFits, FactorRows
<1>3. CallsFit' /\ LinkWorksOnce' /\ CodesFit'
  BY <1>1 DEF AccountInv, CallsFit, CallFits, LinkWorksOnce, CodesFit, CodesAreSpentOnce
<1>4. LoginHolds'
  <2>1. Early' = Early /\ Locking' = Locking
    BY <1>1 DEF Early, Locking
  <2> QED
    BY <1>1, <2>1 DEF AccountInv, LoginHolds
<1> QED
  BY <1>2, <1>3, <1>4 DEF AccountInv

LEMMA AccountStarts == AccountInit => AccountInv
<1> SUFFICES ASSUME AccountInit PROVE AccountInv
  OBVIOUS
<1>1. RowFits
  <2>1. /\ factor = [setups |-> 0, enabled |-> FALSE, codes |-> {}, failures |-> 0, locked |-> FALSE]
        /\ login = [failures |-> 0, lock |-> "none"]
    BY DEF AccountInit
  <2>2. /\ login \in [failures : Nat, lock : Locks] /\ factor \in FactorRows
        /\ factor.enabled = FALSE
    BY <2>1, AccountAssumption DEF FactorRows, Locks
  <2>3. /\ account \in {"none", "invited"} /\ address = "new" /\ token = NoLink /\ fresh = FALSE
        /\ mailed = {} /\ opened = {} /\ spent = {} /\ doubled = {}
    BY DEF AccountInit
  <2>4. AccountTypeOK
    BY <2>2, <2>3 DEF AccountTypeOK, FactorRows
  <2> QED
    BY <2>2, <2>4 DEF RowFits, FactorRows
<1>2. CallsFit
  BY FreeFits DEF AccountInit, CallsFit, CallFits
<1>3. LinkWorksOnce /\ CodesFit
  BY DEF AccountInit, LinkWorksOnce, CodesFit, CodesAreSpentOnce
<1>4. LoginHolds
  BY AccountAssumption DEF AccountInit, LoginHolds
<1> QED
  BY <1>1, <1>2, <1>3, <1>4 DEF AccountInv

LEMMA AccountInvKept == AccountSpec => []AccountInv
<1>1. AccountInv /\ [AccountNext]_accountVars => AccountInv'
  <2> SUFFICES ASSUME AccountInv, [AccountNext]_accountVars PROVE AccountInv'
    OBVIOUS
  <2>1. CASE UNCHANGED accountVars
    BY <2>1, StillKeeps DEF accountVars
  <2>2. CASE AccountNext
    BY <2>2, QuitKeeps, RegistrationKeeps, PasswordKeeps, LoginKeeps, FactorKeeps, SetupKeeps,
       ClockKeeps DEF AccountNext
  <2> QED
    BY <2>1, <2>2
<1> QED
  BY <1>1, AccountStarts, PTL DEF AccountSpec

\* A link that set a password is not the one that would set the next, and of the
\* codes of the last setup those are left that let nobody in, but where two handlers
\* overlapped or one died between its two writes (resetPassword, verifyBackupCode).
THEOREM TokensWorkOnceKept == AccountSpec => []TokensWorkOnce
<1>1. AccountInv => TokensWorkOnce
  BY DEF AccountInv, CodesFit, TokensWorkOnce
<1> QED
  BY <1>1, AccountInvKept, PTL

\* However many requests read the count of failures before it is written, it stays
\* within their number of the limit (incrementFailedLoginAttempts).
THEOREM LoginIsSoundKept == AccountSpec => []LoginIsSound
<1>1. AccountInv => LoginIsSound
  <2> SUFFICES ASSUME AccountInv PROVE LoginIsSound
    OBVIOUS
  <2> DEFINE busy == {r \in AccountRequests : access[r].op # "idle"}
  <2>1. Locking \subseteq busy /\ busy \subseteq AccountRequests
    BY DEF Locking
  <2> HIDE DEF busy
  <2>2. Cardinality(Locking) <= Cardinality(busy) /\ Cardinality(busy) \in Nat
    <3>1. IsFiniteSet(busy)
      BY <2>1, FewRequests, FS_Subset
    <3> QED
      BY <2>1, <3>1, FS_Subset, FS_CardinalityType
  <2>3. login.failures \in Nat /\ LoginHolds /\ AccountTypeOK
    BY DEF AccountInv, RowFits
  <2>4. PICK a, b, c, e \in Nat : a = Cardinality(Early) /\ b = Cardinality(busy)
          /\ c = Cardinality(Locking) /\ e = Cardinality(AccountRequests)
    BY <2>2, FewRequests
  <2>5. "login" \in doubled \/
          login.failures <= MaxAttempts - 2 + Cardinality(AccountRequests) + Cardinality(busy)
    <3>1. CASE login.failures >= MaxAttempts - 1
      BY <2>2, <2>3, <2>4, <3>1, AccountAssumption DEF LoginHolds
    <3>2. CASE ~ (login.failures >= MaxAttempts - 1)
      BY <2>2, <2>3, <2>4, <3>2, AccountAssumption
    <3> QED
      BY <3>1, <3>2
  <2>6. LockoutIsBounded
    BY <2>5 DEF LockoutIsBounded, busy
  <2> QED
    BY <2>3, <2>6 DEF LoginIsSound
<1> QED
  BY <1>1, AccountInvKept, PTL

-----------------------------------------------------------------------------
(* The financial reports.                                                  *)

Acts == {"idle", "create", "narrate", "approve", "reject", "announce", "mark"}

Statuses == {"none", "draft", "pending_review", "approved", "rejected", "sent"}

ReportRows == [status : Statuses, version : 0..Cardinality(Rows),
               narrative : {"none", "empty", "text"}, approved : BOOLEAN, sent : BOOLEAN]

Doings == [op : Acts, row : Rows \cup {"none", "version"}, seen : 0..Cardinality(Rows)]

\* What a request is about to do to a row rests on what no other takes back.
DoingFits(c) ==
  /\ doing[c].op = "idle" <=> doing[c] = F!Quiet
  /\ doing[c].op = "create" => doing[c].row = "version" /\ doing[c].seen <= Cardinality(F!Stored)
  /\ doing[c].op \in Acts \ {"idle", "create"} =>
       doing[c].row \in Rows /\ report[doing[c].row].status # "none"
  /\ doing[c].op \in {"approve", "reject"} => report[doing[c].row].narrative # "none"
  /\ doing[c].op \in {"announce", "mark"} => report[doing[c].row].approved
  /\ doing[c].op = "mark" => notices[doing[c].row] > 0

\* Whoever else reads or writes the row.
RowHolds(r) ==
  /\ r \in F!ListedForSeller \/ notices[r] > 0 => report[r].approved
  /\ report[r].approved \/ report[r].status = "pending_review" => report[r].narrative # "none"
  /\ report[r].sent => notices[r] > 0
  /\ report[r].status = "none" => notices[r] = 0 /\ ~report[r].sent /\ ~report[r].approved
                                  /\ report[r].version = 0 /\ report[r].narrative = "none"

\* One request at most is at work on a row that is not shared, and finds it as it
\* was when it looked.
RowAlone(r) ==
  r \notin shared =>
    /\ \A c, d \in Staff : doing[c].row = r /\ doing[d].row = r => c = d
    /\ report[r].sent => report[r].status = "sent"
    /\ report[r].approved => report[r].status \in {"approved", "sent"}
    /\ notices[r] > 1 => r \in broken
    /\ notices[r] > 0 /\ ~report[r].sent =>
         r \in broken \/ \E c \in Staff : doing[c].op = "mark" /\ doing[c].row = r
    /\ \A c \in Staff : doing[c].row = r =>
         /\ doing[c].op = "narrate" => ~report[r].approved
         /\ doing[c].op = "reject" => ~report[r].approved
         /\ ~report[r].sent
         /\ doing[c].op = "announce" => notices[r] = 0 \/ r \in broken

\* The versions: no more than there are rows, with a highest one; unless two
\* calculations met, each row has its own, and who calculates knows the highest.
VersionsHold ==
  /\ \A r \in F!Stored : report[r].version <= Cardinality(F!Stored)
  /\ F!Stored = {} \/ \E r \in F!Stored : \A s \in F!Stored : report[s].version <= report[r].version
  /\ "version" \notin shared =>
       /\ \A r, s \in F!Stored : r # s => report[r].version # report[s].version
       /\ \A c, d \in Staff : doing[c].row = "version" /\ doing[d].row = "version" => c = d
       /\ \A c \in Staff : doing[c].op = "create" =>
            \A r \in F!Stored : report[r].version <= doing[c].seen

ReportsType ==
  /\ report \in [Rows -> ReportRows] /\ doing \in [Staff -> Doings]
  /\ notices \in [Rows -> 0..MaxNotices]
  /\ shared \subseteq Rows \cup {"version"} /\ broken \subseteq Rows

ReportsInv ==
  /\ ReportsType
  /\ \A c \in Staff : DoingFits(c)
  /\ \A r \in Rows : RowHolds(r) /\ RowAlone(r)
  /\ VersionsHold

-----------------------------------------------------------------------------

LEMMA SameCountF == ASSUME NEW S PROVE F!Cardinality(S) = Cardinality(S)
BY DEF F!Cardinality, Cardinality

LEMMA StoredFew ==
  /\ IsFiniteSet(Rows) /\ Cardinality(Rows) \in Nat
  /\ F!Stored \subseteq Rows /\ IsFiniteSet(F!Stored) /\ Cardinality(F!Stored) \in Nat
  /\ Cardinality(F!Stored) <= Cardinality(Rows)
<1>1. F!Stored \subseteq Rows
  BY DEF F!Stored
<1> QED
  BY <1>1, ReportsAssumption, FS_Subset, FS_CardinalityType

LEMMA QuietFits == F!Quiet \in Doings /\ F!Quiet.op = "idle" /\ F!Quiet.row = "none"
<1>1. 0 \in 0..Cardinality(Rows)
  BY StoredFew
<1> QED
  BY <1>1 DEF F!Quiet, F!NoRow, Doings, Acts

LEMMA DoingBecomes ==
  ASSUME doing \in [Staff -> Doings], NEW c \in Staff, NEW s \in Doings,
         doing' = [doing EXCEPT ![c] = s]
  PROVE  /\ doing' \in [Staff -> Doings] /\ doing'[c] = s
         /\ \A d \in Staff \ {c} : doing'[d] = doing[d]
OBVIOUS

\* What request c leaves as it was for a row it is not at work on.
LEMMA OtherRow ==
  ASSUME ReportsInv, NEW c \in Staff, NEW q \in Rows,
         report'[q] = report[q], notices'[q] = notices[q],
         shared \subseteq shared', broken \subseteq broken',
         \A d \in Staff \ {c} : doing'[d] = doing[d],
         doing[c].row # q, doing'[c].row # q
  PROVE  RowHolds(q)' /\ RowAlone(q)'
<1>1. RowHolds(q) /\ RowAlone(q)
  BY DEF ReportsInv
<1>2. RowHolds(q)'
  BY <1>1 DEF RowHolds, F!ListedForSeller
<1>3. \A d \in Staff : doing'[d].row = q => doing'[d] = doing[d]
  OBVIOUS
<1>4. \A d \in Staff : doing[d].row = q => doing'[d] = doing[d]
  OBVIOUS
<1>5. RowAlone(q)'
  BY <1>1, <1>3, <1>4 DEF RowAlone
<1> QED
  BY <1>2, <1>5

\* What the other requests rest on stays.
LEMMA OthersFit ==
  ASSUME ReportsInv, NEW c \in Staff,
         \A d \in Staff \ {c} : doing'[d] = doing[d],
         \A q \in Rows :
           /\ report[q].status # "none" => report'[q].status # "none"
           /\ report[q].narrative # "none" => report'[q].narrative # "none"
           /\ report[q].approved => report'[q].approved
           /\ notices[q] > 0 => notices'[q] > 0,
         Cardinality(F!Stored) <= Cardinality(F!Stored'), Cardinality(F!Stored') \in Nat
  PROVE  \A d \in Staff \ {c} : DoingFits(d)'
<1> SUFFICES ASSUME NEW d \in Staff \ {c} PROVE DoingFits(d)'
  OBVIOUS
<1>1. DoingFits(d) /\ doing'[d] = doing[d] /\ doing[d] \in Doings
  BY DEF ReportsInv, ReportsType
<1>2. doing[d].seen \in Nat
  BY <1>1, StoredFew DEF Doings
<1>3. doing'[d].op = "create" =>
        doing'[d].row = "version" /\ doing'[d].seen <= Cardinality(F!Stored')
  <2>1. PICK a, b \in Nat : a = Cardinality(F!Stored) /\ b = Cardinality(F!Stored')
    BY StoredFew
  <2> QED
    BY <1>1, <1>2, <2>1 DEF DoingFits
<1>4. doing'[d].op \in Acts \ {"idle", "create"} =>
        doing'[d].row \in Rows /\ report'[doing'[d].row].status # "none"
  BY <1>1 DEF DoingFits
<1>5. /\ doing'[d].op \in {"approve", "reject"} => report'[doing'[d].row].narrative # "none"
      /\ doing'[d].op \in {"announce", "mark"} => report'[doing'[d].row].approved
      /\ doing'[d].op = "mark" => notices'[doing'[d].row] > 0
  BY <1>1 DEF DoingFits, Acts
<1>6. doing'[d].op = "idle" <=> doing'[d] = F!Quiet
  BY <1>1 DEF DoingFits
<1> QED
  BY <1>3, <1>4, <1>5, <1>6 DEF DoingFits, F!Quiet, F!NoRow

\* No row comes, and who calculates is who calculated.
LEMMA VersionsStay ==
  ASSUME ReportsInv, NEW c \in Staff,
         \A d \in Staff \ {c} : doing'[d] = doing[d],
         doing'[c].row # "version" /\ doing'[c].op # "create",
         \A q \in Rows : report'[q].version = report[q].version
                         /\ (report'[q].status = "none" <=> report[q].status = "none"),
         shared \subseteq shared'
  PROVE  VersionsHold' /\ F!Stored' = F!Stored
<1>1. F!Stored' = F!Stored /\ F!Stored \subseteq Rows
  BY DEF F!Stored
<1>2. \A d \in Staff : doing'[d].row = "version" \/ doing'[d].op = "create" => doing'[d] = doing[d]
  OBVIOUS
<1>3. VersionsHold
  BY DEF ReportsInv
<1>4. /\ \A r \in F!Stored' : report'[r].version <= Cardinality(F!Stored')
      /\ F!Stored' = {} \/ \E r \in F!Stored' : \A s \in F!Stored' : report'[s].version <= report'[r].version
  BY <1>1, <1>3 DEF VersionsHold
<1>5. ASSUME "version" \notin shared'
      PROVE  /\ \A r, s \in F!Stored' : r # s => report'[r].version # report'[s].version
             /\ \A d, e \in Staff : doing'[d].row = "version" /\ doing'[e].row = "version" => d = e
             /\ \A d \in Staff : doing'[d].op = "create" =>
                  \A r \in F!Stored' : report'[r].version <= doing'[d].seen
  BY <1>1, <1>2, <1>3, <1>5 DEF VersionsHold
<1> QED
  BY <1>1, <1>4, <1>5 DEF VersionsHold

\* Request c goes on from its row r, or ends: what it leaves of the row must hold.
LEMMA RowMoves ==
  ASSUME ReportsInv, NEW c \in Staff, NEW r \in Rows, doing[c].row = r,
         NEW s \in Doings, doing' = [doing EXCEPT ![c] = s], s.op # "create",
         s.row \in {r, "none"},
         NEW x \in ReportRows, report' = [report EXCEPT ![r] = x],
         x.version = report[r].version, x.status # "none",
         report[r].narrative # "none" => x.narrative # "none", report[r].approved => x.approved,
         NEW n \in 0..MaxNotices, notices' = [notices EXCEPT ![r] = n], notices[r] > 0 => n > 0,
         shared' = shared, broken \subseteq broken', broken' \subseteq Rows,
         RowHolds(r)', RowAlone(r)', DoingFits(c)'
  PROVE  ReportsInv'
<1>1. ReportsType /\ DoingFits(c) /\ report[r] \in ReportRows
  BY DEF ReportsInv, ReportsType
<1>2. /\ doing' \in [Staff -> Doings] /\ doing'[c] = s
      /\ \A d \in Staff \ {c} : doing'[d] = doing[d]
  BY <1>1, DoingBecomes DEF ReportsType
<1>3. /\ report' \in [Rows -> ReportRows] /\ report'[r] = x
      /\ \A q \in Rows \ {r} : report'[q] = report[q]
  BY <1>1 DEF ReportsType
<1>4. /\ notices' \in [Rows -> 0..MaxNotices] /\ notices'[r] = n
      /\ \A q \in Rows \ {r} : notices'[q] = notices[q]
  BY <1>1 DEF ReportsType
<1>5. ReportsType'
  BY <1>1, <1>2, <1>3, <1>4 DEF ReportsType
<1>6. report[r].status # "none" /\ "version" # r /\ "version" # "none" /\ "none" # r
  BY <1>1, ReportsAssumption DEF DoingFits, Acts, F!Quiet, F!NoRow, Doings, ReportsInv, ReportsType
<1>7. VersionsHold' /\ F!Stored' = F!Stored
  BY <1>2, <1>3, <1>6, VersionsStay
<1>8. \A d \in Staff \ {c} : DoingFits(d)'
  BY <1>2, <1>3, <1>4, <1>7, StoredFew, OthersFit
<1>9. \A q \in Rows \ {r} : RowHolds(q)' /\ RowAlone(q)'
  <2> SUFFICES ASSUME NEW q \in Rows \ {r} PROVE RowHolds(q)' /\ RowAlone(q)'
    OBVIOUS
  <2>1. doing[c].row # q /\ doing'[c].row # q
    BY <1>2, ReportsAssumption
  <2>2. report'[q] = report[q] /\ notices'[q] = notices[q]
    BY <1>3, <1>4
  <2> QED
    BY <1>2, <2>1, <2>2, OtherRow
<1> QED
  BY <1>5, <1>7, <1>8, <1>9 DEF ReportsInv

\* Request c starts on row r: if another is at work on it, the row is shared.
LEMMA TakesRow ==
  ASSUME ReportsInv, NEW c \in Staff, NEW r \in Rows,
         NEW op \in {"approve", "reject", "announce"}, F!Takes(c, op, r, 0),
         UNCHANGED <<report, notices, broken>>, report[r].status # "none",
         op \in {"approve", "reject"} => report[r].narrative # "none",
         op = "announce" => report[r].approved,
         r \notin shared => ~report[r].sent /\ (op = "reject" => ~report[r].approved)
  PROVE  ReportsInv'
<1>1. ReportsType /\ DoingFits(c) /\ RowHolds(r) /\ RowAlone(r)
  BY DEF ReportsInv
<1>a. 0 \in 0..Cardinality(Rows)
  BY StoredFew
<1>2. PICK s \in Doings : s = F!Doing(op, r, 0)
  BY <1>a DEF F!Doing, Doings, Acts
<1>3. s.op = op /\ s.row = r /\ s.seen = 0
  BY <1>2 DEF F!Doing
<1>4. doing[c] = F!Quiet /\ doing' = [doing EXCEPT ![c] = s]
      /\ shared' = IF F!Busy(r) THEN shared \cup {r} ELSE shared
  BY <1>2 DEF F!Takes
<1>5. /\ doing' \in [Staff -> Doings] /\ doing'[c] = s
      /\ \A d \in Staff \ {c} : doing'[d] = doing[d]
  BY <1>1, <1>4, DoingBecomes DEF ReportsType
<1>6. r # "none" /\ r # "version" /\ doing[c].row = "none"
  BY <1>4, QuietFits, ReportsAssumption
<1>7. ReportsType'
  BY <1>1, <1>4, <1>5 DEF ReportsType
<1>8. VersionsHold' /\ F!Stored' = F!Stored
  BY <1>3, <1>4, <1>5, <1>6, VersionsStay
<1>9. \A d \in Staff \ {c} : DoingFits(d)'
  BY <1>5, <1>8, StoredFew, OthersFit
<1>10. DoingFits(c)'
  BY <1>3, <1>5 DEF DoingFits, F!Quiet, Acts
<1>11. \A q \in Rows \ {r} : RowHolds(q)' /\ RowAlone(q)'
  <2> SUFFICES ASSUME NEW q \in Rows \ {r} PROVE RowHolds(q)' /\ RowAlone(q)'
    OBVIOUS
  <2>1. doing[c].row # q /\ doing'[c].row # q
    BY <1>3, <1>5, <1>6, ReportsAssumption
  <2>2. shared \subseteq shared'
    BY <1>4
  <2> QED
    BY <1>5, <2>1, <2>2, OtherRow
<1>12. RowHolds(r)'
  BY <1>1 DEF RowHolds, F!ListedForSeller
<1>13. RowAlone(r)'
  <2> SUFFICES ASSUME r \notin shared' PROVE RowAlone(r)'
    BY DEF RowAlone
  <2>1. r \notin shared /\ \A d \in Staff : doing[d].row = r => doing[d].op = "idle"
    BY <1>4 DEF F!Busy
  <2>2. \A d \in Staff : doing[d].row # r
    BY <1>6, <2>1, QuietFits DEF ReportsInv, DoingFits
  <2>3. notices[r] > 0 => r \in broken
    BY <1>1, <2>1, <2>2 DEF RowAlone
  <2>4. notices[r] = 0 \/ notices[r] > 0
    BY <1>1 DEF ReportsType
  <2> QED
    BY <1>1, <1>3, <1>5, <2>1, <2>2, <2>3, <2>4 DEF RowAlone
<1> QED
  BY <1>7, <1>8, <1>9, <1>10, <1>11, <1>12, <1>13 DEF ReportsInv

LEMMA DecidesKeeps ==
  ASSUME ReportsInv, NEW c \in Staff, NEW r \in Rows,
         F!ApproveReport(c, r) \/ F!ReviewReport(c, r) \/ F!SendReport(c, r)
  PROVE  ReportsInv'
<1>1. RowHolds(r) /\ RowAlone(r) /\ report[r] \in ReportRows
  BY DEF ReportsInv, ReportsType
<1>2. CASE F!ApproveReport(c, r)
  BY <1>1, <1>2, TakesRow DEF F!ApproveReport, RowHolds
<1>3. CASE F!ReviewReport(c, r)
  <2>1. PICK verdict \in {"approve", "reject"} : F!Takes(c, verdict, r, 0)
    BY <1>3 DEF F!ReviewReport
  <2>2. report[r].status = "pending_review" /\ UNCHANGED <<report, notices, broken>>
    BY <1>3 DEF F!ReviewReport
  <2>3. report[r].narrative # "none"
    BY <1>1, <2>2 DEF RowHolds
  <2>4. r \notin shared => ~report[r].sent /\ ~report[r].approved
    BY <1>1, <2>2 DEF RowAlone
  <2> QED
    BY <2>1, <2>2, <2>3, <2>4, TakesRow
<1>4. CASE F!SendReport(c, r)
  BY <1>1, <1>4, TakesRow DEF F!SendReport, RowHolds
<1> QED
  BY <1>2, <1>3, <1>4

LEMMA CalculateKeeps ==
  ASSUME ReportsInv, NEW c \in Staff, F!CalculateStart(c)
  PROVE  ReportsInv'
<1>1. ReportsType /\ VersionsHold
  BY DEF ReportsInv
<1>2. PICK n \in Nat : n = Cardinality(F!Stored) /\ n <= Cardinality(Rows)
  BY StoredFew
<1>3. PICK v : v = F!LatestVersion
  OBVIOUS
<1>4. v \in 0..n /\ \A r \in F!Stored : report[r].version <= v
  <2>1. CASE F!Stored = {}
    BY <1>3, <2>1, <1>2 DEF F!LatestVersion
  <2>2. CASE F!Stored # {}
    <3>1. PICK r \in F!Stored : \A s \in F!Stored : report[s].version <= report[r].version
      BY <1>1, <2>2 DEF VersionsHold
    <3>2. \E w \in {report[s].version : s \in F!Stored} : \A s \in F!Stored : report[s].version <= w
      BY <3>1
    <3>3. v \in {report[s].version : s \in F!Stored} /\ \A s \in F!Stored : report[s].version <= v
      BY <1>3, <2>2, <3>2 DEF F!LatestVersion
    <3>4. PICK s \in F!Stored : v = report[s].version
      BY <3>3
    <3>5. report[s].version \in Nat /\ report[s].version <= n
      BY <1>1, <1>2, StoredFew DEF VersionsHold, ReportsType, ReportRows
    <3> QED
      BY <3>3, <3>4, <3>5
  <2> QED
    BY <2>1, <2>2
<1>a. v \in 0..Cardinality(Rows)
  <2>1. PICK m \in Nat : m = Cardinality(Rows)
    BY StoredFew
  <2> QED
    BY <1>2, <1>4, <2>1
<1>5. PICK s \in Doings : s = F!Doing("create", "version", v)
  BY <1>a DEF F!Doing, Doings, Acts
<1>6. s.op = "create" /\ s.row = "version" /\ s.seen = v
  BY <1>5 DEF F!Doing
<1>7. /\ doing[c] = F!Quiet /\ doing' = [doing EXCEPT ![c] = s]
      /\ shared' = IF F!Busy("version") THEN shared \cup {"version"} ELSE shared
      /\ UNCHANGED <<report, notices, broken>>
  BY <1>3, <1>5 DEF F!CalculateStart, F!Takes
<1>8. /\ doing' \in [Staff -> Doings] /\ doing'[c] = s
      /\ \A d \in Staff \ {c} : doing'[d] = doing[d]
  BY <1>1, <1>7, DoingBecomes DEF ReportsType
<1>9. ReportsType'
  BY <1>1, <1>7, <1>8 DEF ReportsType
<1>10. F!Stored' = F!Stored
  BY <1>7 DEF F!Stored
<1>11. \A d \in Staff \ {c} : DoingFits(d)'
  BY <1>7, <1>8, <1>10, <1>2, OthersFit
<1>12. DoingFits(c)'
  <2>1. v <= n /\ Cardinality(F!Stored') = n
    BY <1>2, <1>4, <1>10
  <2> QED
    BY <1>6, <1>8, <2>1 DEF DoingFits, F!Quiet, Acts
<1>13. \A q \in Rows : RowHolds(q)' /\ RowAlone(q)'
  <2> SUFFICES ASSUME NEW q \in Rows PROVE RowHolds(q)' /\ RowAlone(q)'
    OBVIOUS
  <2>1. doing[c].row # q /\ doing'[c].row # q
    BY <1>6, <1>7, <1>8, QuietFits, ReportsAssumption
  <2>2. shared \subseteq shared' /\ report'[q] = report[q] /\ notices'[q] = notices[q]
    BY <1>7
  <2> QED
    BY <1>7, <1>8, <2>1, <2>2, OtherRow
<1>14. VersionsHold'
  <2>1. /\ \A r \in F!Stored' : report'[r].version <= Cardinality(F!Stored')
        /\ F!Stored' = {} \/ \E r \in F!Stored' : \A q \in F!Stored' : report'[q].version <= report'[r].version
    BY <1>1, <1>7, <1>10 DEF VersionsHold
  <2>2. ASSUME "version" \notin shared'
        PROVE  /\ \A r, q \in F!Stored' : r # q => report'[r].version # report'[q].version
               /\ \A d, e \in Staff : doing'[d].row = "version" /\ doing'[e].row = "version" => d = e
               /\ \A d \in Staff : doing'[d].op = "create" =>
                    \A r \in F!Stored' : report'[r].version <= doing'[d].seen
    <3>1. "version" \notin shared /\ \A d \in Staff : doing[d].row = "version" => doing[d].op = "idle"
      BY <1>7, <2>2 DEF F!Busy
    <3>2. \A d \in Staff : doing[d].row # "version"
      BY <3>1, QuietFits DEF ReportsInv, DoingFits
    <3>3. \A d \in Staff \ {c} : doing'[d].op # "create"
      BY <1>8, <3>2 DEF ReportsInv, DoingFits
    <3>4. \A r, q \in F!Stored' : r # q => report'[r].version # report'[q].version
      BY <1>1, <1>7, <1>10, <3>1 DEF VersionsHold
    <3>5. \A d, e \in Staff : doing'[d].row = "version" /\ doing'[e].row = "version" => d = e
      BY <1>8, <3>2
    <3>6. \A r \in F!Stored' : report'[r].version <= doing'[c].seen
      BY <1>4, <1>6, <1>7, <1>8, <1>10
    <3> QED
      BY <3>3, <3>4, <3>5, <3>6
  <2> QED
    BY <2>1, <2>2 DEF VersionsHold
<1> QED
  BY <1>9, <1>11, <1>12, <1>13, <1>14 DEF ReportsInv

\* The row a calculation adds: the versions stay fewer than the rows.
LEMMA CreateKeeps ==
  ASSUME ReportsInv, NEW c \in Staff, F!CreateReport(c)
  PROVE  ReportsInv'
<1>1. ReportsType /\ VersionsHold /\ DoingFits(c) /\ doing[c] \in Doings
  BY DEF ReportsInv, ReportsType
<1>2. PICK r \in Rows : /\ r \notin F!Stored
                        /\ report' = [report EXCEPT ![r] = [report[r] EXCEPT !.status = "draft",
                                                              !.version = doing[c].seen + 1]]
                        /\ doing' = [doing EXCEPT ![c] = F!Doing("narrate", r, 0)]
  <2>1. \E x \in Rows : x \notin F!Stored
    BY StoredFew DEF F!CreateReport
  <2> QED
    BY <2>1 DEF F!CreateReport, F!Gives
<1>3. doing[c].op = "create" /\ doing[c].row = "version" /\ UNCHANGED <<notices, shared, broken>>
  BY <1>1 DEF F!CreateReport, DoingFits
<1>4. r # "none" /\ r # "version"
  BY ReportsAssumption
<1>5. report[r].status = "none" /\ notices[r] = 0 /\ report[r] \in ReportRows
      /\ ~report[r].sent /\ ~report[r].approved /\ report[r].narrative = "none"
  BY <1>1, <1>2 DEF F!Stored, ReportsInv, RowHolds, ReportsType
<1>6. PICK n \in Nat : n = Cardinality(F!Stored) /\ IsFiniteSet(F!Stored) /\ F!Stored \subseteq Rows
  BY StoredFew
<1>7. PICK v \in Nat : v = doing[c].seen + 1 /\ v <= n + 1 /\ v > 0
  <2>1. doing[c].seen \in Nat
    BY <1>1, StoredFew DEF Doings
  <2>2. doing[c].seen <= n
    BY <1>1, <1>3, <1>6 DEF DoingFits
  <2> QED
    BY <2>1, <2>2, <1>6
<1>8. Cardinality(F!Stored \cup {r}) = n + 1 /\ n + 1 <= Cardinality(Rows)
  <2>1. Cardinality(F!Stored \cup {r}) = n + 1 /\ IsFiniteSet(F!Stored \cup {r})
    BY <1>2, <1>6, FS_AddElement
  <2>2. F!Stored \cup {r} \subseteq Rows
    BY <1>6
  <2> QED
    BY <2>1, <2>2, StoredFew, FS_Subset
<1>9. PICK x \in ReportRows : /\ x = [report[r] EXCEPT !.status = "draft", !.version = v]
                              /\ x.status = "draft" /\ x.version = v /\ x.narrative = "none"
                              /\ ~x.approved /\ ~x.sent
  <2>1. v \in 0..Cardinality(Rows)
    <3>1. PICK m \in Nat : m = Cardinality(Rows)
      BY StoredFew
    <3> QED
      BY <1>7, <1>8, <3>1
  <2>2. [report[r] EXCEPT !.status = "draft", !.version = v] \in ReportRows
    BY <1>5, <2>1 DEF ReportRows, Statuses
  <2> QED
    BY <1>5, <2>2 DEF ReportRows
<1>10. report' = [report EXCEPT ![r] = x]
  BY <1>2, <1>7, <1>9
<1>11. /\ report' \in [Rows -> ReportRows] /\ report'[r] = x
       /\ \A q \in Rows \ {r} : report'[q] = report[q]
  BY <1>1, <1>10 DEF ReportsType
<1>a. 0 \in 0..Cardinality(Rows)
  BY StoredFew
<1>b. /\ report'[r].status = "draft" /\ report'[r].version = v /\ report'[r].narrative = "none"
      /\ ~report'[r].approved /\ ~report'[r].sent
  BY <1>9, <1>11
<1>12. PICK s \in Doings : s = F!Doing("narrate", r, 0)
  BY <1>a DEF F!Doing, Doings, Acts
<1>13. s.op = "narrate" /\ s.row = r
  BY <1>12 DEF F!Doing
<1>14. /\ doing' \in [Staff -> Doings] /\ doing'[c] = s
       /\ \A d \in Staff \ {c} : doing'[d] = doing[d]
  BY <1>1, <1>2, <1>12, DoingBecomes DEF ReportsType
<1>15. ReportsType'
  BY <1>1, <1>3, <1>11, <1>14 DEF ReportsType
<1>16. F!Stored' = F!Stored \cup {r}
  BY <1>2, <1>9, <1>11 DEF F!Stored
<1>17. \A d \in Staff \ {c} : DoingFits(d)'
  <2>1. Cardinality(F!Stored) <= Cardinality(F!Stored') /\ Cardinality(F!Stored') \in Nat
    BY <1>6, <1>8, <1>16
  <2>2. \A q \in Rows :
           /\ report[q].status # "none" => report'[q].status # "none"
           /\ report[q].narrative # "none" => report'[q].narrative # "none"
           /\ report[q].approved => report'[q].approved
    BY <1>5, <1>11
  <2>3. notices' = notices
    BY <1>3
  <2> QED
    BY <1>14, <2>1, <2>2, <2>3, OthersFit
<1>18. DoingFits(c)'
  BY <1>b, <1>13, <1>14 DEF DoingFits, F!Quiet, Acts
<1>19. \A q \in Rows \ {r} : RowHolds(q)' /\ RowAlone(q)'
  <2> SUFFICES ASSUME NEW q \in Rows \ {r} PROVE RowHolds(q)' /\ RowAlone(q)'
    OBVIOUS
  <2>1. doing[c].row # q /\ doing'[c].row # q
    BY <1>3, <1>13, <1>14, ReportsAssumption
  <2> QED
    BY <1>3, <1>11, <1>14, <2>1, OtherRow
<1>20. \A d \in Staff : doing[d].row # r
  BY <1>4, <1>5, QuietFits DEF ReportsInv, ReportsType, DoingFits, Doings
<1>21. RowHolds(r)'
  BY <1>3, <1>5, <1>b DEF RowHolds, F!ListedForSeller
<1>22. RowAlone(r)'
  BY <1>3, <1>5, <1>b, <1>13, <1>14, <1>20 DEF RowAlone
<1>23. VersionsHold'
  <2>1. \A q \in F!Stored : report'[q].version = report[q].version /\ report[q].version \in Nat /\ q # r
    BY <1>1, <1>2, <1>6, <1>11, StoredFew DEF ReportsType, ReportRows
  <2>2. \A q \in F!Stored : report[q].version <= n
    BY <1>1, <1>6 DEF VersionsHold
  <2>3. \A q \in F!Stored' : report'[q].version <= Cardinality(F!Stored')
    <3>1. \A q \in F!Stored : report'[q].version <= n + 1
      BY <1>6, <2>1, <2>2
    <3>2. \A q \in F!Stored' : report'[q].version <= n + 1
      BY <1>7, <1>b, <1>16, <3>1
    <3> QED
      BY <1>8, <1>16, <3>2
  <2>4. \E h \in F!Stored' : \A q \in F!Stored' : report'[q].version <= report'[h].version
    <3>1. CASE F!Stored = {}
      BY <1>b, <1>16, <3>1
    <3>2. CASE F!Stored # {}
      <4>1. PICK h \in F!Stored : \A q \in F!Stored : report[q].version <= report[h].version
        BY <1>1, <3>2 DEF VersionsHold
      <4>2. report[h].version \in Nat
        BY <2>1
      <4>3. CASE v <= report[h].version
        BY <1>b, <1>16, <2>1, <4>1, <4>3
      <4>4. CASE report[h].version < v
        <5>1. \A q \in F!Stored : report[q].version <= v
          BY <2>1, <4>1, <4>2, <4>4
        <5> QED
          BY <1>b, <1>16, <2>1, <5>1
      <4> QED
        BY <4>2, <4>3, <4>4
    <3> QED
      BY <3>1, <3>2
  <2>5. ASSUME "version" \notin shared'
        PROVE  /\ \A p, q \in F!Stored' : p # q => report'[p].version # report'[q].version
               /\ \A d, e \in Staff : doing'[d].row = "version" /\ doing'[e].row = "version" => d = e
               /\ \A d \in Staff : doing'[d].op = "create" =>
                    \A q \in F!Stored' : report'[q].version <= doing'[d].seen
    <3>1. "version" \notin shared
      BY <1>3, <2>5
    <3>2. \A d \in Staff \ {c} : doing'[d].row # "version" /\ doing'[d].op # "create"
      BY <1>1, <1>3, <1>14, <3>1 DEF VersionsHold, ReportsInv, DoingFits
    <3>3. doing'[c].row # "version" /\ doing'[c].op # "create"
      BY <1>4, <1>13, <1>14
    <3>4. \A q \in F!Stored : report[q].version <= doing[c].seen
      BY <1>1, <1>3, <3>1 DEF VersionsHold
    <3>5. \A q \in F!Stored : report[q].version < v
      <4>1. doing[c].seen \in Nat
        BY <1>1, StoredFew DEF Doings
      <4> QED
        BY <1>7, <2>1, <3>4, <4>1
    <3>6. \A p, q \in F!Stored : p # q => report[p].version # report[q].version
      BY <1>1, <3>1 DEF VersionsHold
    <3>7. \A p, q \in F!Stored' : p # q => report'[p].version # report'[q].version
      <4>1. \A q \in F!Stored : report'[q].version # v /\ report'[q].version = report[q].version
        BY <2>1, <3>5
      <4>2. report'[r].version = v
        BY <1>9, <1>11
      <4> QED
        BY <1>16, <3>6, <4>1, <4>2
    <3> QED
      BY <3>2, <3>3, <3>7
  <2> QED
    BY <2>3, <2>4, <2>5 DEF VersionsHold
<1> QED
  BY <1>15, <1>17, <1>18, <1>19, <1>21, <1>22, <1>23 DEF ReportsInv

LEMMA RowAtWork ==
  ASSUME ReportsInv, NEW c \in Staff, doing[c].op \in Acts \ {"idle", "create"}
  PROVE  \E r \in Rows : /\ r = doing[c].row /\ report[r] \in ReportRows /\ notices[r] \in 0..MaxNotices
                         /\ report[r].status # "none" /\ r # "none" /\ r # "version"
                         /\ RowHolds(r) /\ RowAlone(r) /\ DoingFits(c)
<1>1. doing[c].row \in Rows /\ report[doing[c].row].status # "none" /\ DoingFits(c)
  BY DEF ReportsInv, DoingFits
<1> QED
  BY <1>1, ReportsAssumption DEF ReportsInv, ReportsType

LEMMA NarrateKeeps ==
  ASSUME ReportsInv, NEW c \in Staff, F!GenerateNarrative(c)
  PROVE  ReportsInv'
<1>1. doing[c].op = "narrate"
  BY DEF F!GenerateNarrative
<1>2. PICK r \in Rows : /\ r = doing[c].row /\ report[r] \in ReportRows /\ notices[r] \in 0..MaxNotices
                        /\ report[r].status # "none" /\ r # "none" /\ r # "version"
                        /\ RowHolds(r) /\ RowAlone(r) /\ DoingFits(c)
  BY <1>1, RowAtWork DEF Acts
<1>3. PICK x \in ReportRows :
        /\ report' = [report EXCEPT ![r] = x]
        /\ x.version = report[r].version /\ x.status # "none"
        /\ x.approved = report[r].approved /\ x.sent = report[r].sent
        /\ \/ x.status = "pending_review" /\ x.narrative \in {"text", "empty"}
           \/ x = report[r]
  <2>1. ReportsType
    BY DEF ReportsInv
  <2>2. CASE UNCHANGED report
    <3>1. report' = [report EXCEPT ![r] = report[r]]
      BY <2>1, <2>2 DEF ReportsType
    <3> QED
      BY <1>2, <3>1
  <2>3. CASE \E n \in {"text", "empty"} :
               F!Gives(r, [report[r] EXCEPT !.narrative = n, !.status = "pending_review"])
    <3>1. PICK n \in {"text", "empty"} :
            report' = [report EXCEPT ![r] = [report[r] EXCEPT !.narrative = n, !.status = "pending_review"]]
      BY <2>3 DEF F!Gives
    <3>2. PICK x : x = [report[r] EXCEPT !.narrative = n, !.status = "pending_review"]
      OBVIOUS
    <3>3. x \in ReportRows /\ x.narrative = n /\ x.status = "pending_review"
          /\ x.version = report[r].version /\ x.approved = report[r].approved /\ x.sent = report[r].sent
      BY <1>2, <3>2 DEF ReportRows, Statuses
    <3>4. report' = [report EXCEPT ![r] = x]
      BY <3>1, <3>2
    <3> QED
      BY <3>3, <3>4
  <2> QED
    BY <1>2, <2>2, <2>3 DEF F!GenerateNarrative, F!Gives
<1>4. doing' = [doing EXCEPT ![c] = F!Quiet] /\ UNCHANGED <<notices, shared, broken>>
  BY DEF F!GenerateNarrative, F!Done
<1>5. report'[r] = x /\ notices' = [notices EXCEPT ![r] = notices[r]] /\ notices'[r] = notices[r]
  BY <1>3, <1>4 DEF ReportsInv, ReportsType
<1>6. /\ doing'[c] = F!Quiet /\ \A d \in Staff \ {c} : doing'[d] = doing[d]
  BY <1>4, QuietFits, DoingBecomes DEF ReportsInv, ReportsType
<1>7. DoingFits(c)'
  BY <1>6, QuietFits DEF DoingFits, F!Quiet, F!NoRow, Acts
<1>a. PICK na, nb : na = report[r].narrative /\ nb = x.narrative
  OBVIOUS
<1>8. RowHolds(r)'
  BY <1>2, <1>3, <1>5 DEF RowHolds, F!ListedForSeller
<1>9. RowAlone(r)'
  <2> SUFFICES ASSUME r \notin shared PROVE RowAlone(r)'
    BY <1>4 DEF RowAlone
  <2>1. \A d \in Staff : doing'[d].row # r
    BY <1>2, <1>6, QuietFits DEF RowAlone
  <2>2. ~report[r].approved /\ ~report[r].sent
    BY <1>1, <1>2 DEF RowAlone
  <2>3. notices'[r] = 0
    BY <1>2, <1>5, <2>2 DEF RowHolds
  <2> QED
    BY <1>3, <1>5, <2>1, <2>2, <2>3 DEF RowAlone
<1>10. report[r].narrative # "none" => x.narrative # "none"
  BY <1>3
<1>11. F!Quiet \in Doings /\ F!Quiet.op # "create" /\ F!Quiet.row \in {r, "none"}
       /\ doing[c].row = r
  BY QuietFits, <1>2
<1>12. shared' = shared /\ broken \subseteq broken' /\ broken' \subseteq Rows
       /\ notices' = [notices EXCEPT ![r] = notices[r]]
       /\ (report[r].approved => x.approved)
  BY <1>3, <1>4, <1>5 DEF ReportsInv, ReportsType
<1> QED
  BY <1>2, <1>3, <1>4, <1>7, <1>8, <1>9, <1>10, <1>11, <1>12, RowMoves

LEMMA VerdictKeeps ==
  ASSUME ReportsInv, NEW c \in Staff, F!Approve(c) \/ F!Reject(c) \/ F!MarkSent(c)
  PROVE  ReportsInv'
<1>1. doing[c].op \in {"approve", "reject", "mark"}
  BY DEF F!Approve, F!Reject, F!MarkSent
<1>2. PICK r \in Rows : /\ r = doing[c].row /\ report[r] \in ReportRows /\ notices[r] \in 0..MaxNotices
                        /\ report[r].status # "none" /\ r # "none" /\ r # "version"
                        /\ RowHolds(r) /\ RowAlone(r) /\ DoingFits(c)
  BY <1>1, RowAtWork DEF Acts
<1>3. PICK x \in ReportRows :
        /\ report' = [report EXCEPT ![r] = x]
        /\ x.version = report[r].version /\ x.narrative = report[r].narrative
        /\ \/ doing[c].op = "approve" /\ x.status = "approved" /\ x.approved /\ x.sent = report[r].sent
           \/ doing[c].op = "reject" /\ x.status = "rejected" /\ x.approved = report[r].approved
              /\ x.sent = report[r].sent
           \/ doing[c].op = "mark" /\ x.status = "sent" /\ x.sent /\ x.approved = report[r].approved
  <2>1. CASE F!Approve(c)
    <3>1. PICK x : x = [report[r] EXCEPT !.status = "approved", !.approved = TRUE]
      OBVIOUS
    <3>2. x \in ReportRows /\ x.version = report[r].version /\ x.narrative = report[r].narrative
          /\ x.status = "approved" /\ x.approved /\ x.sent = report[r].sent
      BY <1>2, <3>1 DEF ReportRows, Statuses
    <3> QED
      BY <1>2, <2>1, <3>1, <3>2 DEF F!Approve, F!Gives
  <2>2. CASE F!Reject(c)
    <3>1. PICK x : x = [report[r] EXCEPT !.status = "rejected"]
      OBVIOUS
    <3>2. x \in ReportRows /\ x.version = report[r].version /\ x.narrative = report[r].narrative
          /\ x.status = "rejected" /\ x.approved = report[r].approved /\ x.sent = report[r].sent
      BY <1>2, <3>1 DEF ReportRows, Statuses
    <3> QED
      BY <1>2, <2>2, <3>1, <3>2 DEF F!Reject, F!Gives
  <2>3. CASE F!MarkSent(c)
    <3>1. PICK x : x = [report[r] EXCEPT !.status = "sent", !.sent = TRUE]
      OBVIOUS
    <3>2. x \in ReportRows /\ x.version = report[r].version /\ x.narrative = report[r].narrative
          /\ x.status = "sent" /\ x.sent /\ x.approved = report[r].approved
      BY <1>2, <3>1 DEF ReportRows, Statuses
    <3> QED
      BY <1>2, <2>3, <3>1, <3>2 DEF F!MarkSent, F!Gives
  <2> QED
    BY <2>1, <2>2, <2>3
<1>4. doing' = [doing EXCEPT ![c] = F!Quiet] /\ UNCHANGED <<notices, shared, broken>>
  BY DEF F!Approve, F!Reject, F!MarkSent, F!Done
<1>5. report'[r] = x /\ notices' = [notices EXCEPT ![r] = notices[r]] /\ notices'[r] = notices[r]
  BY <1>3, <1>4 DEF ReportsInv, ReportsType
<1>6. /\ doing'[c] = F!Quiet /\ \A d \in Staff \ {c} : doing'[d] = doing[d]
  BY <1>4, QuietFits, DoingBecomes DEF ReportsInv, ReportsType
<1>7. DoingFits(c)'
  BY <1>6, QuietFits DEF DoingFits, F!Quiet, F!NoRow, Acts
<1>8. RowHolds(r)'
  <2>1. doing[c].op \in {"approve", "reject"} => report[r].narrative # "none"
    BY <1>2 DEF DoingFits
  <2>2. doing[c].op = "mark" => report[r].approved /\ notices[r] > 0
    BY <1>2 DEF DoingFits
  <2>3. /\ x.status \in {"approved", "sent"} \/ notices[r] > 0 => x.approved
        /\ x.approved \/ x.status = "pending_review" => x.narrative # "none"
        /\ x.sent => notices[r] > 0
        /\ x.status # "none"
    BY <1>2, <1>3, <2>1, <2>2 DEF RowHolds, F!ListedForSeller
  <2> QED
    BY <1>4, <1>5, <2>3 DEF RowHolds, F!ListedForSeller
<1>9. RowAlone(r)'
  <2> SUFFICES ASSUME r \notin shared PROVE RowAlone(r)'
    BY <1>4 DEF RowAlone
  <2>1. \A d \in Staff : doing'[d].row # r
    BY <1>2, <1>6, QuietFits DEF RowAlone
  <2>2. ~report[r].sent /\ (doing[c].op = "reject" => ~report[r].approved)
    BY <1>2 DEF RowAlone
  <2>3. notices[r] > 0 /\ ~x.sent => r \in broken
    BY <1>1, <1>2, <1>3, <2>2 DEF RowAlone
  <2>4. notices[r] > 1 => r \in broken
    BY <1>2 DEF RowAlone
  <2>5. /\ x.sent => x.status = "sent"
        /\ x.approved => x.status \in {"approved", "sent"}
    BY <1>3, <2>2
  <2> QED
    BY <1>4, <1>5, <2>1, <2>3, <2>4, <2>5 DEF RowAlone
<1>10. (report[r].narrative # "none" => x.narrative # "none") /\ x.status # "none"
       /\ (report[r].approved => x.approved)
  BY <1>3
<1>11. F!Quiet \in Doings /\ F!Quiet.op # "create" /\ F!Quiet.row \in {r, "none"}
       /\ doing[c].row = r
  BY QuietFits, <1>2
<1>12. shared' = shared /\ broken \subseteq broken' /\ broken' \subseteq Rows
       /\ notices' = [notices EXCEPT ![r] = notices[r]]
  BY <1>4, <1>5 DEF ReportsInv, ReportsType
<1>13. report' = [report EXCEPT ![r] = x] /\ x.version = report[r].version
  BY <1>3
<1> QED
  BY <1>2, <1>4, <1>7, <1>8, <1>9, <1>10, <1>11, <1>12, <1>13, RowMoves

LEMMA AnnounceKeeps ==
  ASSUME ReportsInv, NEW c \in Staff, F!Announce(c)
  PROVE  ReportsInv'
<1>1. doing[c].op = "announce" /\ UNCHANGED <<report, shared, broken>>
  BY DEF F!Announce
<1>2. PICK r \in Rows : /\ r = doing[c].row /\ report[r] \in ReportRows /\ notices[r] \in 0..MaxNotices
                        /\ report[r].status # "none" /\ r # "none" /\ r # "version"
                        /\ RowHolds(r) /\ RowAlone(r) /\ DoingFits(c)
  BY <1>1, RowAtWork DEF Acts
<1>3. PICK n \in 0..MaxNotices :
        notices' = [notices EXCEPT ![r] = n] /\ n > 0 /\ (n > 1 => notices[r] > 0)
  <2>1. notices' = [notices EXCEPT ![r] = IF notices[r] < MaxNotices THEN notices[r] + 1 ELSE notices[r]]
    BY <1>2 DEF F!Announce
  <2>2. PICK n : n = IF notices[r] < MaxNotices THEN notices[r] + 1 ELSE notices[r]
    OBVIOUS
  <2>3. n \in 0..MaxNotices /\ n > 0 /\ (n > 1 => notices[r] > 0)
    BY <1>2, <2>2, ReportsAssumption
  <2> QED
    BY <2>1, <2>2, <2>3
<1>a. 0 \in 0..Cardinality(Rows)
  BY StoredFew
<1>4. PICK s \in Doings : s = F!Doing("mark", r, 0)
  BY <1>a DEF F!Doing, Doings, Acts
<1>5. s.op = "mark" /\ s.row = r
  BY <1>4 DEF F!Doing
<1>6. doing' = [doing EXCEPT ![c] = s]
  BY <1>2, <1>4 DEF F!Announce
<1>7. /\ doing'[c] = s /\ \A d \in Staff \ {c} : doing'[d] = doing[d]
  BY <1>6, DoingBecomes DEF ReportsInv, ReportsType
<1>8. notices'[r] = n /\ report'[r] = report[r] /\ report' = [report EXCEPT ![r] = report[r]]
  BY <1>1, <1>3 DEF ReportsInv, ReportsType
<1>9. report[r].approved
  BY <1>1, <1>2 DEF DoingFits
<1>10. DoingFits(c)'
  BY <1>2, <1>3, <1>5, <1>7, <1>8, <1>9 DEF DoingFits, F!Quiet, Acts
<1>11. RowHolds(r)'
  BY <1>2, <1>3, <1>8, <1>9 DEF RowHolds, F!ListedForSeller
<1>12. RowAlone(r)'
  <2> SUFFICES ASSUME r \notin shared PROVE RowAlone(r)'
    BY <1>1 DEF RowAlone
  <2>1. \A d \in Staff : doing'[d].row = r => d = c
    BY <1>2, <1>7 DEF RowAlone
  <2>2. ~report[r].sent /\ (notices[r] = 0 \/ r \in broken)
    BY <1>1, <1>2 DEF RowAlone
  <2>3. n > 1 => r \in broken
    BY <1>2, <1>3, <2>2
  <2>4. report[r].approved => report[r].status \in {"approved", "sent"}
    BY <1>2 DEF RowAlone
  <2> QED
    BY <1>1, <1>5, <1>7, <1>8, <2>1, <2>2, <2>3, <2>4 DEF RowAlone
<1>13. s.op # "create" /\ s.row \in {r, "none"} /\ doing[c].row = r
  BY <1>2, <1>5
<1>14. broken \subseteq broken' /\ broken' \subseteq Rows /\ shared' = shared
  BY <1>1 DEF ReportsInv, ReportsType
<1> QED
  BY <1>2, <1>3, <1>6, <1>8, <1>10, <1>11, <1>12, <1>13, <1>14, RowMoves

\* What was announced and not marked is known as broken once its request dies.
LEMMA DiesKeeps ==
  ASSUME ReportsInv, NEW c \in Staff, F!Dies(c)
  PROVE  ReportsInv'
<1>1. ReportsType /\ DoingFits(c)
  BY DEF ReportsInv
<1>2. /\ broken' = IF doing[c].op = "mark" THEN broken \cup {doing[c].row} ELSE broken
      /\ doing' = [doing EXCEPT ![c] = F!Quiet] /\ UNCHANGED <<report, notices, shared>>
  BY DEF F!Dies, F!Done
<1>3. /\ doing' \in [Staff -> Doings] /\ doing'[c] = F!Quiet
      /\ \A d \in Staff \ {c} : doing'[d] = doing[d]
  BY <1>1, <1>2, QuietFits, DoingBecomes DEF ReportsType
<1>4. doing'[c].op = "idle" /\ doing'[c].row = "none"
  BY <1>3, QuietFits
<1>5. broken \subseteq broken' /\ broken' \subseteq Rows
  BY <1>1, <1>2 DEF DoingFits, Acts, ReportsType
<1>6. ReportsType'
  BY <1>1, <1>2, <1>3, <1>5 DEF ReportsType
<1>7. VersionsHold' /\ F!Stored' = F!Stored
  <2>1. doing'[c].row # "version" /\ doing'[c].op # "create"
    BY <1>4
  <2> QED
    BY <1>2, <1>3, <2>1, VersionsStay
<1>8. \A d \in Staff \ {c} : DoingFits(d)'
  BY <1>2, <1>3, <1>7, StoredFew, OthersFit
<1>9. DoingFits(c)'
  BY <1>3, QuietFits DEF DoingFits, F!Quiet, F!NoRow, Acts
<1>10. ASSUME NEW q \in Rows PROVE RowHolds(q)' /\ RowAlone(q)'
  <2>1. RowHolds(q) /\ RowAlone(q) /\ q # "none"
    BY ReportsAssumption DEF ReportsInv
  <2>2. RowHolds(q)'
    BY <1>2, <2>1 DEF RowHolds, F!ListedForSeller
  <2>3. \A d \in Staff : doing'[d].row = q => doing'[d] = doing[d] /\ d # c
    BY <1>3, <1>4, <2>1
  <2>4. RowAlone(q)'
    <3> SUFFICES ASSUME q \notin shared PROVE RowAlone(q)'
      BY <1>2 DEF RowAlone
    <3>1. \A d, e \in Staff : doing'[d].row = q /\ doing'[e].row = q => d = e
      BY <2>1, <2>3 DEF RowAlone
    <3>2. notices[q] > 0 /\ ~report[q].sent =>
            q \in broken' \/ \E d \in Staff : doing'[d].op = "mark" /\ doing'[d].row = q
      <4> SUFFICES ASSUME notices[q] > 0, ~report[q].sent, q \notin broken'
                   PROVE  \E d \in Staff : doing'[d].op = "mark" /\ doing'[d].row = q
        OBVIOUS
      <4>1. PICK d \in Staff : doing[d].op = "mark" /\ doing[d].row = q
        BY <1>5, <2>1 DEF RowAlone
      <4>2. d # c
        BY <1>2, <4>1
      <4> QED
        BY <1>3, <4>1, <4>2
    <3> QED
      BY <1>2, <1>5, <2>1, <2>3, <3>1, <3>2 DEF RowAlone
  <2> QED
    BY <2>2, <2>4
<1> QED
  BY <1>6, <1>7, <1>8, <1>9, <1>10 DEF ReportsInv

LEMMA ReportsInitHolds == F!ReportsInit => ReportsInv
<1> SUFFICES ASSUME F!ReportsInit PROVE ReportsInv
  OBVIOUS
<1>1. F!Stored = {}
  BY DEF F!ReportsInit, F!Stored
<1>2. \A c \in Staff : doing[c] = F!Quiet /\ doing[c].op = "idle" /\ doing[c].row = "none"
  BY QuietFits DEF F!ReportsInit
<1>a. 0 \in 0..Cardinality(Rows) /\ 0 \in 0..MaxNotices
  BY StoredFew, ReportsAssumption
<1>3. ReportsType
  BY <1>a, QuietFits DEF F!ReportsInit, ReportsType, ReportRows, Statuses
<1>4. \A c \in Staff : DoingFits(c)
  BY <1>2 DEF DoingFits, Acts
<1>5. \A r \in Rows : RowHolds(r) /\ RowAlone(r)
  <2> SUFFICES ASSUME NEW r \in Rows PROVE RowHolds(r) /\ RowAlone(r)
    OBVIOUS
  <2>1. /\ report[r].status = "none" /\ report[r].version = 0 /\ report[r].narrative = "none"
        /\ ~report[r].approved /\ ~report[r].sent /\ notices[r] = 0
    BY DEF F!ReportsInit
  <2>2. \A c \in Staff : doing[c].row # r
    BY <1>2, ReportsAssumption
  <2> QED
    BY <2>1, <2>2 DEF RowHolds, RowAlone, F!ListedForSeller
<1>6. VersionsHold
  BY <1>1, <1>2 DEF VersionsHold
<1> QED
  BY <1>3, <1>4, <1>5, <1>6 DEF ReportsInv

LEMMA ReportsNextHolds == ReportsInv /\ [F!ReportsNext]_F!reportsVars => ReportsInv'
<1> SUFFICES ASSUME ReportsInv, [F!ReportsNext]_F!reportsVars PROVE ReportsInv'
  OBVIOUS
<1>1. CASE UNCHANGED F!reportsVars
  BY <1>1 DEF F!reportsVars, ReportsInv, ReportsType, DoingFits, RowHolds, RowAlone, VersionsHold,
              F!Stored, F!ListedForSeller
<1>2. ASSUME NEW c \in Staff,
             \/ F!CalculateStart(c) \/ F!CreateReport(c) \/ F!GenerateNarrative(c)
             \/ F!Approve(c) \/ F!Reject(c) \/ F!Announce(c) \/ F!MarkSent(c) \/ F!Dies(c)
             \/ \E r \in Rows : F!ApproveReport(c, r) \/ F!ReviewReport(c, r) \/ F!SendReport(c, r)
      PROVE ReportsInv'
  BY <1>2, CalculateKeeps, CreateKeeps, NarrateKeeps, VerdictKeeps, AnnounceKeeps, DiesKeeps, DecidesKeeps
<1> QED
  BY <1>1, <1>2 DEF F!ReportsNext

\* Financial reports: a seller's page lists, and he is told of, no report that was never
\* approved, and one decided on by one request at a time is announced once and stays
\* sent (approveReport, approveItem, sendReport).
THEOREM ReportsAreSoundKept == F!ReportsSpec => []ReportsAreSound
<1>1. ReportsInv => ReportsAreSound
  <2> SUFFICES ASSUME ReportsInv PROVE ReportsAreSound
    OBVIOUS
  <2>1. F!ReportsTypeOK
    <3>1. ReportRows = [status : {"none", "draft", "pending_review", "approved", "rejected", "sent"},
                        version : 0..F!Cardinality(Rows), narrative : {"none", "empty", "text"},
                        approved : BOOLEAN, sent : BOOLEAN]
      BY SameCountF DEF ReportRows, Statuses
    <3> QED
      BY <3>1 DEF ReportsInv, ReportsType, F!ReportsTypeOK
  <2>2. ASSUME NEW r \in Rows
        PROVE /\ r \in F!ListedForSeller \/ notices[r] > 0 => report[r].approved
              /\ report[r].approved => report[r].narrative # "none"
              /\ report[r].sent => notices[r] > 0
              /\ r \notin shared =>
                   /\ report[r].sent => report[r].status = "sent"
                   /\ notices[r] > 0 => report[r].status # "rejected"
                   /\ notices[r] > 1 => r \in broken
    BY DEF ReportsInv, RowHolds, RowAlone
  <2>3. "version" \notin shared => \A r, s \in F!Stored : r # s => report[r].version # report[s].version
    BY DEF ReportsInv, VersionsHold
  <2> QED
    BY <2>1, <2>2, <2>3 DEF F!ReportsAreSound, ReportsAreSound
<1> QED
  BY <1>1, ReportsInitHolds, ReportsNextHolds, PTL DEF F!ReportsSpec

-----------------------------------------------------------------------------
(* The viewing slots.                                                      *)

SlotOps == {"idle", "active", "insert", "bulk", "materialise", "uncancel", "cascade", "over"}

SlotWork == [op : SlotOps, key : SUBSET Keys, todo : SUBSET Keys]

SlotsType ==
  /\ slot \in [Keys -> {"none", "live", "cancelled"}]
  /\ made \in [Keys -> {"none", "slot", "bulk", "loose"}]
  /\ work \in [Handlers -> SlotWork] /\ schedule \subseteq Timeslots /\ during \subseteq Keys
  /\ viewed \subseteq Keys /\ resaved \in BOOLEAN

\* What the limits count: the slots a seller made, and those he made one by one.
Counted == {k \in Live : made[k] \in {"slot", "bulk"}}

OneByOne == {k \in Live : made[k] = "slot"}

OnDay(d) == {k \in OneByOne : k[1] = d}

\* What request h is about to insert fits: what another inserts meanwhile is loose.
Fits(h) ==
  /\ work[h].op \in {"active", "insert"} =>
       \E k \in Keys : /\ work[h].key = {k} /\ Cardinality(OnDay(k[1])) + 1 <= PerDay
                       /\ \A l \in OneByOne : l[1] = k[1] => ~Overlap(l[2], k[2])
  /\ work[h].op = "insert" => Cardinality(Counted) + 1 <= MaxActive
  /\ work[h].op = "bulk" => Cardinality(Counted) + Cardinality(work[h].key) <= MaxActive

Limits ==
  /\ Cardinality(Counted) <= MaxActive
  /\ \A d \in Dates : Cardinality(OnDay(d)) <= PerDay
  /\ \A k, l \in OneByOne : k[1] = l[1] /\ k # l => ~Overlap(k[2], l[2])

\* The one cascade has listed every live slot that was not inserted or revived since.
CascadeHolds ==
  /\ \A h, o \in Handlers :
       work[h].op \in {"cascade", "over"} /\ work[o].op \in {"cascade", "over"} => h = o
  /\ \A h \in Handlers :
       /\ work[h].op = "cascade" => Live \subseteq work[h].todo \cup during
       /\ work[h].op = "over" => (resaved \/ schedule = NoSchedule) /\ Live \subseteq during

SlotsInv ==
  /\ SlotsType
  /\ \A h \in Handlers : Fits(h)
  /\ Limits
  /\ CascadeHolds

LEMMA KeysFinite == IsFiniteSet(Keys)
<1>1. IsFiniteSet(0..Quarters)
  BY SlotsAssumption, FS_Interval
<1>2. IsFiniteSet((0..Quarters) \X (0..Quarters))
  BY <1>1, FS_Product
<1>3. Spans \subseteq (0..Quarters) \X (0..Quarters)
  BY DEF Spans
<1>4. IsFiniteSet(Spans)
  BY <1>2, <1>3, FS_Subset
<1> QED
  BY <1>4, SlotsAssumption, FS_Product DEF Keys

LEMMA FewerKeys ==
  ASSUME NEW S, S \subseteq Keys, NEW T, T \subseteq S
  PROVE  /\ IsFiniteSet(S) /\ IsFiniteSet(T)
         /\ Cardinality(S) \in Nat /\ Cardinality(T) \in Nat /\ Cardinality(T) <= Cardinality(S)
<1>1. IsFiniteSet(S)
  BY KeysFinite, FS_Subset
<1> QED
  BY <1>1, FS_Subset, FS_CardinalityType

LEMMA CountedAreKeys ==
  Counted \subseteq Keys /\ OneByOne \subseteq Counted /\ \A d \in Dates : OnDay(d) \subseteq OneByOne
BY DEF Counted, OneByOne, OnDay, Live

\* Where the slots that count become fewer, what fitted still fits.
LEMMA FitsStill ==
  ASSUME NEW h \in Handlers, Fits(h), work'[h] = work[h], work[h] \in SlotWork,
         Counted' \subseteq Counted, OneByOne' \subseteq OneByOne
  PROVE  Fits(h)'
<1>1. PICK n, m \in Nat : n = Cardinality(Counted) /\ m = Cardinality(Counted') /\ m <= n
  <2>1. Cardinality(Counted) \in Nat /\ Cardinality(Counted') \in Nat
        /\ Cardinality(Counted') <= Cardinality(Counted)
    BY CountedAreKeys, FewerKeys
  <2> QED
    BY <2>1
<1>2. work[h].op \in {"active", "insert"} =>
        \E k \in Keys : /\ work[h].key = {k} /\ Cardinality(OnDay(k[1])') + 1 <= PerDay
                        /\ \A l \in OneByOne' : l[1] = k[1] => ~Overlap(l[2], k[2])
  <2> SUFFICES ASSUME work[h].op \in {"active", "insert"}
               PROVE  \E k \in Keys : /\ work[h].key = {k} /\ Cardinality(OnDay(k[1])') + 1 <= PerDay
                                      /\ \A l \in OneByOne' : l[1] = k[1] => ~Overlap(l[2], k[2])
    OBVIOUS
  <2>1. PICK k \in Keys : /\ work[h].key = {k} /\ Cardinality(OnDay(k[1])) + 1 <= PerDay
                          /\ \A l \in OneByOne : l[1] = k[1] => ~Overlap(l[2], k[2])
    BY DEF Fits
  <2>2. k[1] \in Dates
    BY DEF Keys
  <2>3. OnDay(k[1])' \subseteq OnDay(k[1]) /\ OnDay(k[1]) \subseteq Keys
    BY <2>2, CountedAreKeys DEF OnDay
  <2>4. PICK i, j \in Nat : i = Cardinality(OnDay(k[1])) /\ j = Cardinality(OnDay(k[1])') /\ j <= i
    <3>1. Cardinality(OnDay(k[1])) \in Nat /\ Cardinality(OnDay(k[1])') \in Nat
          /\ Cardinality(OnDay(k[1])') <= Cardinality(OnDay(k[1]))
      BY <2>3, FewerKeys
    <3> QED
      BY <3>1
  <2>5. j + 1 <= PerDay
    BY <2>1, <2>4, SlotsAssumption
  <2> QED
    BY <2>1, <2>4, <2>5
<1>3. work[h].op = "insert" => m + 1 <= MaxActive
  BY <1>1, SlotsAssumption DEF Fits
<1>4. work[h].op = "bulk" => m + Cardinality(work[h].key) <= MaxActive
  <2>1. PICK i \in Nat : i = Cardinality(work[h].key)
    BY FewerKeys DEF SlotWork
  <2> QED
    BY <1>1, <2>1, SlotsAssumption DEF Fits
<1> QED
  BY <1>1, <1>2, <1>3, <1>4 DEF Fits

LEMMA LimitsStill ==
  ASSUME Limits, Counted' \subseteq Counted, OneByOne' \subseteq OneByOne
  PROVE  Limits'
<1>1. PICK n, m \in Nat : n = Cardinality(Counted) /\ m = Cardinality(Counted') /\ m <= n
  <2>1. Cardinality(Counted) \in Nat /\ Cardinality(Counted') \in Nat
        /\ Cardinality(Counted') <= Cardinality(Counted)
    BY CountedAreKeys, FewerKeys
  <2> QED
    BY <2>1
<1>2. m <= MaxActive
  BY <1>1, SlotsAssumption DEF Limits
<1>3. ASSUME NEW d \in Dates PROVE Cardinality(OnDay(d)') <= PerDay
  <2>1. OnDay(d)' \subseteq OnDay(d) /\ OnDay(d) \subseteq Keys
    BY CountedAreKeys DEF OnDay
  <2>2. PICK i, j \in Nat : i = Cardinality(OnDay(d)) /\ j = Cardinality(OnDay(d)') /\ j <= i
    <3>1. Cardinality(OnDay(d)) \in Nat /\ Cardinality(OnDay(d)') \in Nat
          /\ Cardinality(OnDay(d)') <= Cardinality(OnDay(d))
      BY <2>1, FewerKeys
    <3> QED
      BY <3>1
  <2> QED
    BY <2>2, SlotsAssumption DEF Limits
<1>4. \A k, l \in OneByOne' : k[1] = l[1] /\ k # l => ~Overlap(k[2], l[2])
  BY DEF Limits
<1> QED
  BY <1>1, <1>2, <1>3, <1>4 DEF Limits

LEMMA WorkBecomes ==
  ASSUME SlotsType, NEW h \in Handlers, NEW s \in SlotWork, Does(h, s)
  PROVE  /\ work' \in [Handlers -> SlotWork] /\ work'[h] = s
         /\ \A o \in Handlers \ {h} : work'[o] = work[o]
BY DEF Does, SlotsType

LEMMA RestIs == Rest \in SlotWork /\ Rest.op = "idle"
BY DEF Rest, SlotWork, SlotOps

LEMMA OnIs ==
  ASSUME NEW op \in SlotOps, NEW keys \in SUBSET Keys, NEW todo \in SUBSET Keys
  PROVE  /\ On(op, keys, todo) \in SlotWork /\ On(op, keys, todo).op = op
         /\ On(op, keys, todo).key = keys /\ On(op, keys, todo).todo = todo
BY DEF On, SlotWork

\* No row changes and request h goes on: it must fit, and the cascade know its rows.
LEMMA OnlyWorkMoves ==
  ASSUME SlotsInv, NEW h \in Handlers, NEW s \in SlotWork, Does(h, s), UNCHANGED <<slot, viewed, made, resaved>>,
         schedule' \in {schedule, NoSchedule}, during' \in {during, {}}, Fits(h)', CascadeHolds'
  PROVE  SlotsInv'
<1>1. /\ work' \in [Handlers -> SlotWork] /\ work'[h] = s
      /\ \A o \in Handlers \ {h} : work'[o] = work[o]
  BY WorkBecomes DEF SlotsInv
<1>2. SlotsType'
  BY <1>1 DEF SlotsInv, SlotsType, NoSchedule
<1>3. Counted' = Counted /\ OneByOne' = OneByOne
  BY DEF Counted, OneByOne, Live
<1>4. \A o \in Handlers \ {h} : Fits(o)'
  BY <1>1, <1>3, FitsStill DEF SlotsInv, SlotsType
<1>5. Limits'
  BY <1>3, LimitsStill DEF SlotsInv
<1> QED
  BY <1>2, <1>4, <1>5 DEF SlotsInv

\* Request h starts or gives up what is no cascade.
LEMMA CascadeStays ==
  ASSUME SlotsInv, NEW h \in Handlers, NEW s \in SlotWork, Does(h, s),
         s.op \notin {"cascade", "over"}, UNCHANGED <<slot, schedule, made, during, resaved>>
  PROVE  CascadeHolds'
<1>1. /\ work'[h] = s /\ \A o \in Handlers \ {h} : work'[o] = work[o]
  BY WorkBecomes DEF SlotsInv
<1>2. Live' = Live
  BY DEF Live
<1>3. \A o \in Handlers : work'[o].op \in {"cascade", "over"} => work'[o] = work[o]
  BY <1>1
<1> QED
  BY <1>2, <1>3 DEF CascadeHolds, SlotsInv

LEMMA StartsKeep ==
  ASSUME SlotsInv, NEW h \in Handlers,
         CreateSlot(h) \/ CheckActive(h) \/ CreateBulkSlots(h) \/ BookWindow(h) \/ CancelViewing(h)
           \/ Abandon(h)
  PROVE  SlotsInv'
<1>1. SlotsType /\ UNCHANGED <<slot, viewed, schedule, made, during, resaved>>
  BY DEF CreateSlot, CheckActive, CreateBulkSlots, BookWindow, CancelViewing, Abandon, Stays, SlotsInv
<1>2. Counted' = Counted /\ OneByOne' = OneByOne /\ Live' = Live
  BY <1>1 DEF Counted, OneByOne, Live
<1>3. \A d \in Dates : OnDay(d)' = OnDay(d)
  BY <1>2 DEF OnDay
<1>4. PICK n \in Nat : n = Cardinality(Counted) /\ n <= Cardinality(Live) /\ Cardinality(Live) \in Nat
  <2>1. Counted \subseteq Live /\ Live \subseteq Keys
    BY DEF Counted, Live
  <2>2. Cardinality(Counted) \in Nat /\ Cardinality(Counted) <= Cardinality(Live)
        /\ Cardinality(Live) \in Nat
    BY <2>1, FewerKeys
  <2> QED
    BY <2>2
<1>5. ASSUME NEW s \in SlotWork, Does(h, s), s.op \notin {"cascade", "over"}, Fits(h)' PROVE SlotsInv'
  BY <1>1, <1>5, CascadeStays, OnlyWorkMoves
<1>6. CASE CreateSlot(h)
  <2>1. PICK k \in Keys : DayHasRoom(k) /\ Does(h, On("active", {k}, {}))
    BY <1>6 DEF CreateSlot
  <2>2. PICK s \in SlotWork : s = On("active", {k}, {}) /\ s.op = "active" /\ s.key = {k}
    BY OnIs DEF SlotOps
  <2>3. Does(h, s) /\ work'[h] = s
    BY <1>1, <2>1, <2>2, WorkBecomes
  <2>4. k[1] \in Dates /\ OnDay(k[1]) \subseteq LiveOn(k[1]) /\ LiveOn(k[1]) \subseteq Keys
    BY DEF Keys, OnDay, LiveOn, OneByOne, Live
  <2>5. PICK i, j \in Nat : i = Cardinality(OnDay(k[1])) /\ j = Cardinality(LiveOn(k[1])) /\ i <= j
    <3>1. Cardinality(OnDay(k[1])) \in Nat /\ Cardinality(LiveOn(k[1])) \in Nat
          /\ Cardinality(OnDay(k[1])) <= Cardinality(LiveOn(k[1]))
      BY <2>4, FewerKeys
    <3> QED
      BY <3>1
  <2>6. i + 1 <= PerDay
    BY <2>1, <2>5, SlotsAssumption DEF DayHasRoom
  <2>7. \A l \in OneByOne : l[1] = k[1] => ~Overlap(l[2], k[2])
    BY <2>1 DEF DayHasRoom, LiveOn, OneByOne
  <2>8. Fits(h)'
    BY <1>2, <1>3, <2>2, <2>3, <2>4, <2>5, <2>6, <2>7 DEF Fits
  <2> QED
    BY <1>5, <2>2, <2>3, <2>8
<1>7. CASE CheckActive(h)
  <2>1. work[h].op = "active" /\ CountActive(1) /\ Does(h, On("insert", work[h].key, {}))
    BY <1>7 DEF CheckActive
  <2>2. work[h].key \subseteq Keys /\ Fits(h)
    BY <1>1 DEF SlotsType, SlotWork, SlotsInv
  <2>3. PICK s \in SlotWork : s = On("insert", work[h].key, {}) /\ s.op = "insert" /\ s.key = work[h].key
    BY <2>2, OnIs DEF SlotOps
  <2>4. Does(h, s) /\ work'[h] = s
    BY <1>1, <2>1, <2>3, WorkBecomes
  <2>5. n + 1 <= MaxActive
    BY <1>4, <2>1, SlotsAssumption DEF CountActive
  <2>6. PICK k \in Keys : /\ work[h].key = {k} /\ Cardinality(OnDay(k[1])) + 1 <= PerDay
                          /\ \A l \in OneByOne : l[1] = k[1] => ~Overlap(l[2], k[2])
    BY <2>1, <2>2 DEF Fits
  <2>7. k[1] \in Dates
    BY DEF Keys
  <2>8. Fits(h)'
    BY <1>2, <1>3, <1>4, <2>3, <2>4, <2>5, <2>6, <2>7 DEF Fits
  <2> QED
    BY <1>5, <2>3, <2>4, <2>8
<1>8. CASE CreateBulkSlots(h)
  <2>1. PICK ks \in SUBSET Keys : CountActive(Cardinality(ks)) /\ Does(h, On("bulk", ks, {}))
    BY <1>8 DEF CreateBulkSlots, Keys
  <2>2. PICK s \in SlotWork : s = On("bulk", ks, {}) /\ s.op = "bulk" /\ s.key = ks
    BY OnIs DEF SlotOps
  <2>3. Does(h, s) /\ work'[h] = s
    BY <1>1, <2>1, <2>2, WorkBecomes
  <2>4. PICK i \in Nat : i = Cardinality(ks)
    BY FewerKeys
  <2>5. n + i <= MaxActive
    BY <1>4, <2>1, <2>4, SlotsAssumption DEF CountActive
  <2>6. Fits(h)'
    BY <1>2, <1>4, <2>2, <2>3, <2>4, <2>5 DEF Fits
  <2> QED
    BY <1>5, <2>2, <2>3, <2>6
<1>9. CASE BookWindow(h)
  <2>1. PICK d \in Dates, w \in Windows : Does(h, On("materialise", {<<d, w>>}, {}))
    BY <1>9 DEF BookWindow
  <2>2. <<d, w>> \in Keys
    BY <1>1 DEF Windows, WindowsOf, SlotsType, Timeslots, Keys
  <2>3. PICK s \in SlotWork : s = On("materialise", {<<d, w>>}, {}) /\ s.op = "materialise"
    BY <2>2, OnIs DEF SlotOps
  <2>4. Does(h, s) /\ work'[h] = s
    BY <1>1, <2>1, <2>3, WorkBecomes
  <2>5. Fits(h)'
    BY <2>3, <2>4 DEF Fits
  <2> QED
    BY <1>5, <2>3, <2>4, <2>5
<1>10. CASE Abandon(h)
  <2>1. Does(h, Rest) /\ work'[h] = Rest
    BY <1>1, <1>10, RestIs, WorkBecomes DEF Abandon
  <2>2. Fits(h)'
    BY <2>1, RestIs DEF Fits
  <2> QED
    BY <1>5, <2>1, <2>2, RestIs
<1>11. CASE CancelViewing(h)
  <2>1. PICK k \in viewed : Does(h, On("uncancel", {k}, {}))
    BY <1>11 DEF CancelViewing
  <2>2. k \in Keys
    BY <1>1 DEF SlotsType
  <2>3. PICK s \in SlotWork : s = On("uncancel", {k}, {}) /\ s.op = "uncancel"
    BY <2>2, OnIs DEF SlotOps
  <2>4. Does(h, s) /\ work'[h] = s
    BY <1>1, <2>1, <2>3, WorkBecomes
  <2>5. Fits(h)'
    BY <2>3, <2>4 DEF Fits
  <2> QED
    BY <1>5, <2>3, <2>4, <2>5
<1> QED
  BY <1>6, <1>7, <1>8, <1>9, <1>10, <1>11

\* Rows of request h come to be: they count as its own only if nobody else was
\* about to insert, and a cascade under way knows of them.
LEMMA InsertMoves ==
  ASSUME SlotsInv, NEW h \in Handlers, NEW how \in {"slot", "bulk", "loose"},
         Insert(h, work[h].key, how), Does(h, Rest),
         how = "slot" => work[h].op = "insert", how = "bulk" => work[h].op = "bulk",
         how = "loose" => work[h].op = "materialise"
  PROVE  SlotsInv'
<1>1. SlotsType /\ Fits(h) /\ Limits /\ CascadeHolds /\ work[h].key \subseteq Keys
  BY DEF SlotsInv, SlotsType, SlotWork
<1>2. PICK ks \in SUBSET Keys : ks = work[h].key
  BY <1>1
<1>3. PICK act \in {how, "loose"} :
        /\ \A k \in ks : slot[k] = "none"
        /\ slot' = [k \in Keys |-> IF k \in ks THEN "live" ELSE slot[k]]
        /\ made' = [k \in Keys |-> IF k \notin ks THEN made[k] ELSE act]
        /\ (\E o \in Handlers \ {h} : Creating(o)) => act = "loose"
  <2>1. PICK act : act = IF \E o \in Handlers \ {h} : Creating(o) THEN "loose" ELSE how
    OBVIOUS
  <2>2. \A k \in Keys : (IF \E o \in Handlers \ {h} : Creating(o) THEN "loose" ELSE how) = act
    BY <2>1
  <2> QED
    BY <1>2, <2>1, <2>2 DEF Insert
<1>4. /\ during' = IF \E o \in Handlers : work[o].op \in {"cascade", "over"}
                   THEN during \cup ks ELSE during
      /\ UNCHANGED <<viewed, schedule, resaved>>
  BY <1>2 DEF Insert, Falling
<1>5. /\ work' \in [Handlers -> SlotWork] /\ work'[h] = Rest
      /\ \A o \in Handlers \ {h} : work'[o] = work[o]
  BY <1>1, RestIs, WorkBecomes
<1>6. /\ slot' \in [Keys -> {"none", "live", "cancelled"}]
      /\ made' \in [Keys -> {"none", "slot", "bulk", "loose"}]
  <2>1. act \in {"none", "slot", "bulk", "loose"}
    BY <1>3
  <2> QED
    BY <1>1, <1>3, <2>1 DEF SlotsType
<1>7. SlotsType'
  BY <1>1, <1>4, <1>5, <1>6 DEF SlotsType
<1>8. Live' = Live \cup ks /\ Live \cap ks = {}
  BY <1>3 DEF Live
<1>9. \A k \in Keys : made'[k] = IF k \in ks THEN act ELSE made[k]
  BY <1>3
<1>10. /\ Counted' = Counted \cup (IF act \in {"slot", "bulk"} THEN ks ELSE {})
       /\ OneByOne' = OneByOne \cup (IF act = "slot" THEN ks ELSE {})
  <2>1. Live \subseteq Keys
    BY DEF Live
  <2> QED
    BY <1>8, <1>9, <2>1 DEF Counted, OneByOne
<1>11. \A o \in Handlers \ {h} : Fits(o)'
  <2> SUFFICES ASSUME NEW o \in Handlers \ {h} PROVE Fits(o)'
    OBVIOUS
  <2>1. Fits(o) /\ work'[o] = work[o] /\ work[o] \in SlotWork
    BY <1>1, <1>5 DEF SlotsInv, SlotsType
  <2>2. CASE Creating(o)
    <3>1. Counted' \subseteq Counted /\ OneByOne' \subseteq OneByOne
      BY <1>3, <1>10, <2>2
    <3> QED
      BY <2>1, <3>1, FitsStill
  <2>3. CASE ~Creating(o)
    BY <2>1, <2>3 DEF Creating, Fits
  <2> QED
    BY <2>2, <2>3
<1>12. Fits(h)'
  BY <1>5, RestIs DEF Fits
<1>13. Limits'
  <2>1. CASE act \notin {"slot", "bulk"}
    <3>1. Counted' \subseteq Counted /\ OneByOne' \subseteq OneByOne
      BY <1>10, <2>1
    <3> QED
      BY <1>1, <3>1, LimitsStill
  <2>2. CASE act = "bulk"
    <3>1. work[h].op = "bulk" /\ Counted' = Counted \cup ks /\ OneByOne' = OneByOne
      BY <1>3, <1>10, <2>2
    <3>2. \A d \in Dates : OnDay(d)' = OnDay(d)
      BY <3>1 DEF OnDay
    <3>3. Cardinality(Counted) + Cardinality(ks) <= MaxActive
      BY <1>1, <1>2, <3>1 DEF Fits
    <3>4. Cardinality(Counted \cup ks) <= MaxActive
      <4>1. IsFiniteSet(Counted) /\ IsFiniteSet(ks) /\ IsFiniteSet(Counted \cap ks)
        BY CountedAreKeys, FewerKeys
      <4>2. Cardinality(Counted \cup ks) = Cardinality(Counted) + Cardinality(ks) - Cardinality(Counted \cap ks)
        BY <4>1, FS_Union
      <4>3. PICK a, b, i \in Nat : a = Cardinality(Counted) /\ b = Cardinality(ks) /\ i = Cardinality(Counted \cap ks)
        BY <4>1, FS_CardinalityType
      <4> QED
        BY <3>3, <4>2, <4>3, SlotsAssumption
    <3> QED
      BY <1>1, <3>1, <3>2, <3>4 DEF Limits
  <2>3. CASE act = "slot"
    <3>1. work[h].op = "insert" /\ Counted' = Counted \cup ks /\ OneByOne' = OneByOne \cup ks
      BY <1>3, <1>10, <2>3
    <3>2. PICK k \in Keys : /\ ks = {k} /\ Cardinality(OnDay(k[1])) + 1 <= PerDay
                            /\ \A l \in OneByOne : l[1] = k[1] => ~Overlap(l[2], k[2])
      BY <1>1, <1>2, <3>1 DEF Fits
    <3>3. Cardinality(Counted) + 1 <= MaxActive
      BY <1>1, <3>1 DEF Fits
    <3>4. Cardinality(Counted \cup {k}) <= MaxActive
      <4>1. IsFiniteSet(Counted)
        BY CountedAreKeys, FewerKeys
      <4>2. Cardinality(Counted \cup {k}) = IF k \in Counted THEN Cardinality(Counted) ELSE Cardinality(Counted) + 1
        BY <4>1, FS_AddElement
      <4>3. PICK a \in Nat : a = Cardinality(Counted)
        BY <4>1, FS_CardinalityType
      <4> QED
        BY <3>3, <4>2, <4>3, SlotsAssumption
    <3>5. ASSUME NEW d \in Dates PROVE Cardinality(OnDay(d)') <= PerDay
      <4>1. CASE d # k[1]
        <5>1. OnDay(d)' = OnDay(d)
          BY <3>1, <3>2, <4>1 DEF OnDay
        <5> QED
          BY <1>1, <5>1 DEF Limits
      <4>2. CASE d = k[1]
        <5>1. OnDay(d)' = OnDay(d) \cup {k}
          BY <3>1, <3>2, <4>2 DEF OnDay
        <5>2. IsFiniteSet(OnDay(d))
          BY CountedAreKeys, FewerKeys
        <5>3. Cardinality(OnDay(d) \cup {k}) = IF k \in OnDay(d) THEN Cardinality(OnDay(d)) ELSE Cardinality(OnDay(d)) + 1
          BY <5>2, FS_AddElement
        <5>4. PICK a \in Nat : a = Cardinality(OnDay(d))
          BY <5>2, FS_CardinalityType
        <5>5. a + 1 <= PerDay
          BY <3>2, <4>2, <5>4
        <5>6. Cardinality(OnDay(d) \cup {k}) <= PerDay
          BY <5>3, <5>4, <5>5, SlotsAssumption
        <5> QED
          BY <5>1, <5>6
      <4> QED
        BY <4>1, <4>2
    <3>6. \A i, j \in OneByOne' : i[1] = j[1] /\ i # j => ~Overlap(i[2], j[2])
      <4>1. \A l \in OneByOne : l[1] = k[1] => ~Overlap(l[2], k[2]) /\ ~Overlap(k[2], l[2])
        <5> SUFFICES ASSUME NEW l \in OneByOne, l[1] = k[1]
                     PROVE  ~Overlap(l[2], k[2]) /\ ~Overlap(k[2], l[2])
          OBVIOUS
        <5>1. ~Overlap(l[2], k[2])
          BY <3>2
        <5>2. PICK a, b, e, f \in Int : a = l[2][1] /\ b = l[2][2] /\ e = k[2][1] /\ f = k[2][2]
          <6>1. l \in Keys
            BY CountedAreKeys
          <6> QED
            BY <6>1, SlotsAssumption DEF Keys, Spans
        <5> QED
          BY <5>1, <5>2 DEF Overlap
      <4> QED
        BY <1>1, <3>1, <3>2, <4>1 DEF Limits
    <3> QED
      BY <3>1, <3>2, <3>4, <3>5, <3>6 DEF Limits
  <2> QED
    BY <1>3, <2>1, <2>2, <2>3
<1>14. CascadeHolds'
  <2>1. \A o \in Handlers : work'[o].op \in {"cascade", "over"} => work'[o] = work[o]
    BY <1>5, RestIs
  <2>2. (\E o \in Handlers : work'[o].op \in {"cascade", "over"}) => during' = during \cup ks
    BY <1>4, <2>1
  <2> QED
    BY <1>1, <1>4, <1>8, <2>1, <2>2 DEF CascadeHolds
<1> QED
  BY <1>7, <1>11, <1>12, <1>13, <1>14 DEF SlotsInv

LEMMA InsertsKeep ==
  ASSUME SlotsInv, NEW h \in Handlers,
         InsertSlot(h) \/ CreateManySlots(h) \/ MaterialiseRecurringSlot(h)
  PROVE  SlotsInv'
<1>1. CASE InsertSlot(h)
  BY <1>1, InsertMoves DEF InsertSlot
<1>2. CASE CreateManySlots(h)
  BY <1>2, InsertMoves DEF CreateManySlots
<1>3. CASE MaterialiseRecurringSlot(h)
  <2>1. CASE Insert(h, work[h].key, "loose")
    BY <1>3, <2>1, InsertMoves DEF MaterialiseRecurringSlot
  <2>2. CASE Stays
    <3>1. Does(h, Rest) /\ UNCHANGED <<slot, viewed, schedule, made, during, resaved>>
      BY <1>3, <2>2 DEF MaterialiseRecurringSlot, Stays
    <3>2. Fits(h)'
      BY <3>1, RestIs, WorkBecomes DEF Fits, SlotsInv
    <3>3. CascadeHolds'
      BY <3>1, RestIs, CascadeStays
    <3> QED
      BY <3>1, <3>2, <3>3, RestIs, OnlyWorkMoves
  <2> QED
    BY <1>3, <2>1, <2>2 DEF MaterialiseRecurringSlot
<1> QED
  BY <1>1, <1>2, <1>3

\* A slot that a viewer's cancellation brings back counts for nothing, and a cascade
\* under way knows of it.
LEMMA RevivesKeep ==
  ASSUME SlotsInv, NEW h \in Handlers, CancelViewingAtomically(h)
  PROVE  SlotsInv'
<1>1. SlotsType /\ Limits /\ CascadeHolds /\ work[h].key \subseteq Keys /\ work[h].op = "uncancel"
  BY DEF SlotsInv, SlotsType, SlotWork, CancelViewingAtomically
<1>2. PICK ks \in SUBSET Keys : ks = work[h].key
  BY <1>1
<1>3. /\ slot' = [k \in Keys |-> IF k \in ks THEN "live" ELSE slot[k]]
      /\ made' = [k \in Keys |-> IF k \in ks \ Live THEN "loose" ELSE made[k]]
      /\ during' = IF Falling THEN during \cup (ks \ Live) ELSE during
      /\ viewed' \in {viewed, viewed \ ks}
      /\ Does(h, Rest) /\ UNCHANGED <<schedule, resaved>>
  BY <1>2 DEF CancelViewingAtomically
<1>4. /\ work' \in [Handlers -> SlotWork] /\ work'[h] = Rest
      /\ \A o \in Handlers \ {h} : work'[o] = work[o]
  BY <1>1, <1>3, RestIs, WorkBecomes
<1>5. /\ slot' \in [Keys -> {"none", "live", "cancelled"}]
      /\ made' \in [Keys -> {"none", "slot", "bulk", "loose"}]
  BY <1>1, <1>3 DEF SlotsType
<1>6. SlotsType'
  BY <1>1, <1>3, <1>4, <1>5 DEF SlotsType
<1>7. Live' = Live \cup ks
  BY <1>3 DEF Live
<1>8. \A k \in Keys : made'[k] = IF k \in ks \ Live THEN "loose" ELSE made[k]
  BY <1>3
<1>9. Counted' \subseteq Counted /\ OneByOne' \subseteq OneByOne
  <2>1. Live \subseteq Keys
    BY DEF Live
  <2> QED
    BY <1>7, <1>8, <2>1 DEF Counted, OneByOne
<1>10. \A o \in Handlers \ {h} : Fits(o)'
  BY <1>4, <1>9, FitsStill DEF SlotsInv, SlotsType
<1>11. Fits(h)'
  BY <1>4, RestIs DEF Fits
<1>12. Limits'
  BY <1>1, <1>9, LimitsStill
<1>13. CascadeHolds'
  <2>1. \A o \in Handlers : work'[o].op \in {"cascade", "over"} => work'[o] = work[o]
    BY <1>4, RestIs
  <2>2. (\E o \in Handlers : work'[o].op \in {"cascade", "over"}) => during' = during \cup (ks \ Live)
    BY <1>3, <2>1 DEF Falling
  <2> QED
    BY <1>1, <1>3, <1>7, <2>1, <2>2 DEF CascadeHolds
<1> QED
  BY <1>6, <1>10, <1>11, <1>12, <1>13 DEF SlotsInv

\* Viewings booked and over touch no slot's limits.
LEMMA ViewingsKeep ==
  ASSUME SlotsInv, CreateViewingWithLock \/ EndViewing
  PROVE  SlotsInv'
<1>1. viewed' \subseteq Keys
  BY DEF CreateViewingWithLock, EndViewing, SlotsInv, SlotsType, Live
<1>2. UNCHANGED <<slot, schedule, work, made, during, resaved>>
  BY DEF CreateViewingWithLock, EndViewing
<1> QED
  BY <1>1, <1>2 DEF SlotsInv, SlotsType, Fits, Limits, CascadeHolds, Counted, OneByOne, OnDay, Live

\* Rows cancelled are no longer live, and count for nothing.
LEMMA CancelMoves ==
  ASSUME SlotsInv, NEW ks \in SUBSET Keys, Cancel(ks)
  PROVE  /\ slot' \in [Keys -> {"none", "live", "cancelled"}]
         /\ made' \in [Keys -> {"none", "slot", "bulk", "loose"}]
         /\ during' = during \ ks /\ Live' = Live \ ks /\ viewed' \subseteq Keys
         /\ Counted' \subseteq Counted /\ OneByOne' \subseteq OneByOne /\ Limits'
<1>1. /\ slot' \in [Keys -> {"none", "live", "cancelled"}]
      /\ made' \in [Keys -> {"none", "slot", "bulk", "loose"}]
  BY DEF Cancel, SlotsInv, SlotsType
<1>2. Live' = Live \ ks /\ during' = during \ ks /\ viewed' \subseteq Keys
  BY DEF Cancel, Live, SlotsInv, SlotsType
<1>3. Live \subseteq Keys /\ \A k \in Keys \ ks : made'[k] = made[k]
  BY DEF Cancel, Live
<1>4. Counted' \subseteq Counted /\ OneByOne' \subseteq OneByOne
  BY <1>2, <1>3 DEF Counted, OneByOne
<1> QED
  BY <1>1, <1>2, <1>4, LimitsStill DEF SlotsInv

LEMMA CancelsKeep ==
  ASSUME SlotsInv, CancelSlots
  PROVE  SlotsInv'
<1>1. PICK ks \in SUBSET Keys : Cancel(ks)
  BY DEF CancelSlots, Live
<1>2. UNCHANGED <<schedule, work, resaved>>
  BY DEF CancelSlots
<1>3. SlotsType' /\ Limits'
  BY <1>1, <1>2, CancelMoves DEF SlotsInv, SlotsType
<1>4. \A h \in Handlers : Fits(h)'
  BY <1>1, <1>2, CancelMoves, FitsStill DEF SlotsInv, SlotsType
<1>5. Live' = Live \ ks /\ during' = during \ ks
  BY <1>1, CancelMoves
<1>6. CascadeHolds'
  BY <1>2, <1>5 DEF SlotsInv, CascadeHolds
<1> QED
  BY <1>3, <1>4, <1>6 DEF SlotsInv

\* The cascade: what it has still to cancel, and what came while it ran, is all there is.
LEMMA CascadeKeeps ==
  ASSUME SlotsInv, NEW h \in Handlers, Cascade(h) \/ CascadeSlot(h) \/ CascadeEnds(h)
  PROVE  SlotsInv'
<1>1. SlotsType /\ CascadeHolds
  BY DEF SlotsInv
<1>2. CASE Cascade(h)
  <2>1. Does(h, On("cascade", {}, Live)) /\ during' = {}
        /\ UNCHANGED <<slot, viewed, schedule, made, resaved>>
    BY <1>2 DEF Cascade
  <2>2. PICK s \in SlotWork : s = On("cascade", {}, Live) /\ s.op = "cascade" /\ s.todo = Live
    <3>1. Live \subseteq Keys
      BY DEF Live
    <3> QED
      BY <3>1, OnIs DEF SlotOps
  <2>3. Does(h, s) /\ work'[h] = s /\ \A o \in Handlers \ {h} : work'[o] = work[o]
    BY <1>1, <2>1, <2>2, WorkBecomes
  <2>4. \A o \in Handlers \ {h} : work'[o].op \notin {"cascade", "over"}
    BY <1>2, <2>3 DEF Cascade, Falling
  <2>5. Live' = Live
    BY <2>1 DEF Live
  <2>6. CascadeHolds'
    BY <2>2, <2>3, <2>4, <2>5 DEF CascadeHolds
  <2>7. Fits(h)'
    BY <2>2, <2>3 DEF Fits
  <2> QED
    BY <2>1, <2>3, <2>6, <2>7, OnlyWorkMoves
<1>3. CASE CascadeSlot(h)
  <2>1. PICK k \in work[h].todo : Cancel({k}) /\ Does(h, On("cascade", {}, work[h].todo \ {k}))
    BY <1>3 DEF CascadeSlot
  <2>2. work[h].op = "cascade" /\ UNCHANGED <<schedule, resaved>> /\ work[h].todo \subseteq Keys
    BY <1>1, <1>3 DEF CascadeSlot, SlotsType, SlotWork
  <2>3. PICK s \in SlotWork : /\ s = On("cascade", {}, work[h].todo \ {k})
                              /\ s.op = "cascade" /\ s.todo = work[h].todo \ {k}
    <3>1. work[h].todo \ {k} \in SUBSET Keys
      BY <2>2
    <3> QED
      BY <3>1, OnIs DEF SlotOps
  <2>4. /\ work' \in [Handlers -> SlotWork] /\ work'[h] = s
        /\ \A o \in Handlers \ {h} : work'[o] = work[o]
    BY <1>1, <2>1, <2>3, WorkBecomes
  <2>5. {k} \in SUBSET Keys
    BY <2>1, <2>2
  <2>6. SlotsType' /\ Limits'
    BY <1>1, <2>1, <2>2, <2>4, <2>5, CancelMoves DEF SlotsType
  <2>7. \A o \in Handlers \ {h} : Fits(o)'
    BY <2>1, <2>4, <2>5, CancelMoves, FitsStill DEF SlotsInv, SlotsType
  <2>8. Fits(h)'
    BY <2>3, <2>4 DEF Fits
  <2>9. Live' = Live \ {k} /\ during' = during \ {k}
    BY <2>1, <2>5, CancelMoves
  <2>10. CascadeHolds'
    <3>1. \A o \in Handlers \ {h} : work'[o].op \notin {"cascade", "over"}
      BY <1>1, <2>2, <2>4 DEF CascadeHolds
    <3>2. Live \subseteq work[h].todo \cup during
      BY <1>1, <2>2 DEF CascadeHolds
    <3> QED
      BY <2>3, <2>4, <2>9, <3>1, <3>2 DEF CascadeHolds
  <2> QED
    BY <2>6, <2>7, <2>8, <2>10 DEF SlotsInv
<1>4. CASE CascadeEnds(h)
  <2>1. /\ work[h].op = "cascade" /\ work[h].todo = {} /\ schedule' = NoSchedule
        /\ Does(h, On("over", {}, {})) /\ UNCHANGED <<slot, viewed, made, during, resaved>>
    BY <1>4 DEF CascadeEnds
  <2>2. PICK s \in SlotWork : s = On("over", {}, {}) /\ s.op = "over"
    BY OnIs DEF SlotOps
  <2>3. Does(h, s) /\ work'[h] = s /\ \A o \in Handlers \ {h} : work'[o] = work[o]
    BY <1>1, <2>1, <2>2, WorkBecomes
  <2>4. \A o \in Handlers \ {h} : work'[o].op \notin {"cascade", "over"}
    BY <1>1, <2>1, <2>3 DEF CascadeHolds
  <2>5. Live' = Live /\ Live \subseteq during
    BY <1>1, <2>1 DEF Live, CascadeHolds
  <2>6. CascadeHolds'
    BY <2>1, <2>2, <2>3, <2>4, <2>5 DEF CascadeHolds
  <2>7. Fits(h)'
    BY <2>2, <2>3 DEF Fits
  <2> QED
    BY <2>1, <2>3, <2>6, <2>7, OnlyWorkMoves
<1> QED
  BY <1>2, <1>3, <1>4

LEMMA ScheduleKeeps ==
  ASSUME SlotsInv, SaveSchedule \/ DeleteSchedule
  PROVE  SlotsInv'
<1>1. UNCHANGED <<slot, viewed, work, made, during>> /\ schedule' \subseteq Timeslots /\ resaved' \in BOOLEAN
  BY DEF SaveSchedule, DeleteSchedule, Schedules, NoSchedule, Through, SlotsInv, SlotsType
<1>2. (\E h \in Handlers : work[h].op = "over") => resaved' \/ schedule' = NoSchedule
  BY Zenon DEF Through, SaveSchedule, DeleteSchedule
<1>3. Live' = Live /\ Counted' = Counted /\ OneByOne' = OneByOne
  BY <1>1 DEF Live, Counted, OneByOne
<1>4. SlotsType'
  BY <1>1 DEF SlotsInv, SlotsType
<1>5. \A h \in Handlers : Fits(h)'
  BY <1>1, <1>3, FitsStill DEF SlotsInv, SlotsType
<1>6. Limits'
  BY <1>3, LimitsStill DEF SlotsInv
<1>7. CascadeHolds'
  BY <1>1, <1>2, <1>3 DEF SlotsInv, CascadeHolds
<1> QED
  BY <1>4, <1>5, <1>6, <1>7 DEF SlotsInv

LEMMA SlotsInitHolds == SlotsInit => SlotsInv
<1> SUFFICES ASSUME SlotsInit PROVE SlotsInv
  OBVIOUS
<1>1. Live = {} /\ Counted = {} /\ OneByOne = {} /\ \A d \in Dates : OnDay(d) = {}
  BY DEF SlotsInit, Live, Counted, OneByOne, OnDay
<1>2. SlotsType
  BY RestIs DEF SlotsInit, SlotsType, NoSchedule
<1>3. \A h \in Handlers : work[h].op = "idle"
  BY RestIs DEF SlotsInit
<1>4. Limits
  BY <1>1, SlotsAssumption, FS_EmptySet DEF Limits
<1> QED
  BY <1>1, <1>2, <1>3, <1>4 DEF SlotsInv, Fits, CascadeHolds

LEMMA SlotsNextHolds == SlotsInv /\ [SlotsNext]_slotsVars => SlotsInv'
<1> SUFFICES ASSUME SlotsInv, [SlotsNext]_slotsVars PROVE SlotsInv'
  OBVIOUS
<1>1. CASE UNCHANGED slotsVars
  BY <1>1 DEF slotsVars, SlotsInv, SlotsType, Fits, Limits, CascadeHolds, Counted, OneByOne, OnDay, Live
<1>2. CASE SlotsNext
  BY <1>2, ScheduleKeeps, ViewingsKeep, CancelsKeep, StartsKeep, InsertsKeep, RevivesKeep, CascadeKeeps
     DEF SlotsNext
<1> QED
  BY <1>1, <1>2

\* The viewing slots: however requests interleave, the limits hold for what was not
\* inserted together with another nor revived; the calendars agree; a sale fallen
\* through leaves none but what was inserted or revived since.
THEOREM CalendarIsSoundKept == SlotsSpec => []CalendarIsSound
<1>1. SlotsInv => CalendarIsSound
  <2> SUFFICES ASSUME SlotsInv PROVE CalendarIsSound
    OBVIOUS
  <2>1. SlotsAreSound
    <3>1. /\ {k \in Live : made[k] \in {"slot", "bulk"}} = Counted
          /\ {k \in Live : made[k] \in {"slot"}} = OneByOne
      BY DEF Counted, OneByOne
    <3>2. \A d \in Dates : OneByOne \cap LiveOn(d) = OnDay(d)
      BY DEF OneByOne, LiveOn, OnDay
    <3> QED
      BY <3>1, <3>2 DEF SlotsInv, Limits, SlotsAreSound
  <2>2. CalendarsAgree
    <3> SUFFICES ASSUME NEW d \in Dates
                 PROVE  /\ PublicPage(d) \subseteq SellerCalendar(d)
                        /\ \A k \in SellerCalendar(d) \ PublicPage(d) : slot[k] = "cancelled"
                        /\ \A k \in PublicPage(d) : slot[k] # "cancelled"
      BY DEF CalendarsAgree
    <3>1. \A w \in Windows : <<d, w>> \in Keys /\ <<d, w>>[1] = d
      BY DEF Windows, WindowsOf, SlotsInv, SlotsType, Timeslots, Keys
    <3>2. \A k \in Keys : slot[k] \in {"none", "live", "cancelled"}
      BY DEF SlotsInv, SlotsType
    <3> QED
      BY <3>1, <3>2 DEF PublicPage, SellerCalendar, RowsOfPublicPage, LiveOn, Live
  <2>3. CascadeClears
    BY DEF SlotsInv, CascadeHolds, CascadeClears, Through
  <2> QED
    BY <2>1, <2>2, <2>3 DEF CalendarIsSound
<1> QED
  BY <1>1, SlotsInitHolds, SlotsNextHolds, PTL DEF SlotsSpec

\* What a step does to the viewings and the rows of a cancelled slot without viewings.
LEMMA OffStays ==
  ASSUME [SlotsNext]_slotsVars, NEW k \in Keys, IsOff(k)
  PROVE  slot'[k] = "cancelled" /\ k \notin viewed'
<1>1. slot[k] = "cancelled" /\ k \notin viewed /\ k \notin Live
  BY DEF IsOff, Live
<1>2. CASE slot' = slot /\ viewed' = viewed
  BY <1>1, <1>2
<1>3. CASE CreateViewingWithLock \/ EndViewing
  BY <1>1, <1>3 DEF CreateViewingWithLock, EndViewing
<1>4. CASE \E ks : Cancel(ks)
  BY <1>1, <1>4 DEF Cancel
<1>5. CASE \E h \in Handlers : \E keys, how : Insert(h, keys, how)
  BY <1>1, <1>5 DEF Insert
<1>6. ASSUME NEW h \in Handlers, CancelViewingAtomically(h)
      PROVE  slot'[k] = "cancelled" /\ k \notin viewed'
  BY <1>1, <1>6 DEF CancelViewingAtomically, IsOff
<1> QED
  BY <1>2, <1>3, <1>4, <1>5, <1>6
     DEF SlotsNext, slotsVars, SaveSchedule, DeleteSchedule, CancelSlots, CreateSlot, CheckActive,
         InsertSlot, CreateBulkSlots, CreateManySlots, BookWindow, MaterialiseRecurringSlot,
         CancelViewing, Cascade, CascadeSlot, CascadeEnds, Abandon, Stays

\* Nobody comes to hold the cancellation of a viewing of a slot that has none.
LEMMA OffUnheld ==
  ASSUME SlotsType, [SlotsNext]_slotsVars, NEW k \in Keys, IsOff(k), NEW o \in Handlers
  PROVE  work'[o].op = "uncancel" => k \notin work'[o].key
<1>1. k \notin viewed /\ (work[o].op = "uncancel" => k \notin work[o].key)
  BY DEF IsOff
<1>2. CASE work' = work
  BY <1>1, <1>2
<1>3. ASSUME NEW h \in Handlers, NEW s \in SlotWork, Does(h, s), s.op # "uncancel" \/ k \notin s.key
      PROVE  work'[o].op = "uncancel" => k \notin work'[o].key
  BY <1>1, <1>3, WorkBecomes
<1>4. ASSUME NEW h \in Handlers, Does(h, Rest)
      PROVE  work'[o].op = "uncancel" => k \notin work'[o].key
  BY <1>3, <1>4, RestIs
<1>5. ASSUME NEW h \in Handlers, NEW op \in SlotOps, NEW keys \in SUBSET Keys, NEW todo \in SUBSET Keys,
             Does(h, On(op, keys, todo)), op # "uncancel" \/ k \notin keys
      PROVE  work'[o].op = "uncancel" => k \notin work'[o].key
  BY <1>3, <1>5, OnIs
<1>6. ASSUME NEW h \in Handlers, CancelViewing(h)
      PROVE  work'[o].op = "uncancel" => k \notin work'[o].key
  <2>1. PICK v \in viewed : Does(h, On("uncancel", {v}, {}))
    BY <1>6 DEF CancelViewing
  <2>2. {v} \in SUBSET Keys /\ k \notin {v} /\ "uncancel" \in SlotOps
    BY <1>1, <2>1 DEF SlotsType, SlotOps
  <2> QED
    BY <1>5, <2>1, <2>2
<1>7. ASSUME NEW h \in Handlers, CreateSlot(h)
      PROVE  work'[o].op = "uncancel" => k \notin work'[o].key
  <2>1. PICK v \in Keys : Does(h, On("active", {v}, {}))
    BY <1>7 DEF CreateSlot
  <2> QED
    BY <1>5, <2>1 DEF SlotOps
<1>8. ASSUME NEW h \in Handlers, CheckActive(h)
      PROVE  work'[o].op = "uncancel" => k \notin work'[o].key
  <2>1. Does(h, On("insert", work[h].key, {})) /\ work[h].key \in SUBSET Keys
    BY <1>8 DEF CheckActive, SlotsType, SlotWork
  <2> QED
    BY <1>5, <2>1 DEF SlotOps
<1>9. ASSUME NEW h \in Handlers, CreateBulkSlots(h)
      PROVE  work'[o].op = "uncancel" => k \notin work'[o].key
  <2>1. PICK ks \in SUBSET Keys : Does(h, On("bulk", ks, {}))
    BY <1>9 DEF CreateBulkSlots, Keys
  <2> QED
    BY <1>5, <2>1 DEF SlotOps
<1>10. ASSUME NEW h \in Handlers, BookWindow(h)
       PROVE  work'[o].op = "uncancel" => k \notin work'[o].key
  <2>1. PICK d \in Dates, w \in Windows : Does(h, On("materialise", {<<d, w>>}, {}))
    BY <1>10 DEF BookWindow
  <2>2. {<<d, w>>} \in SUBSET Keys
    BY DEF Windows, WindowsOf, SlotsType, Timeslots, Keys
  <2> QED
    BY <1>5, <2>1, <2>2 DEF SlotOps
<1>11. ASSUME NEW h \in Handlers, Cascade(h) \/ CascadeSlot(h) \/ CascadeEnds(h)
       PROVE  work'[o].op = "uncancel" => k \notin work'[o].key
  <2>1. PICK op \in {"cascade", "over"}, todo \in SUBSET Keys : Does(h, On(op, {}, todo))
    BY <1>11 DEF Cascade, CascadeSlot, CascadeEnds, Live, SlotsType, SlotWork
  <2> QED
    BY <1>5, <2>1 DEF SlotOps
<1>12. CASE UNCHANGED slotsVars \/ SaveSchedule \/ DeleteSchedule \/ CreateViewingWithLock \/ EndViewing
              \/ CancelSlots
  BY <1>2, <1>12 DEF slotsVars, SaveSchedule, DeleteSchedule, CreateViewingWithLock, EndViewing, CancelSlots
<1>13. CASE \E h \in Handlers : InsertSlot(h) \/ CreateManySlots(h) \/ MaterialiseRecurringSlot(h)
                                   \/ CancelViewingAtomically(h) \/ Abandon(h)
  BY <1>4, <1>13 DEF InsertSlot, CreateManySlots, MaterialiseRecurringSlot, CancelViewingAtomically, Abandon
<1> QED
  BY <1>6, <1>7, <1>8, <1>9, <1>10, <1>11, <1>12, <1>13 DEF SlotsNext

\* A cancelled slot without viewings stays cancelled, whoever books or inserts it.
THEOREM CancelledStaysOffKept == SlotsSpec => CancelledStaysOff
<1>1. SlotsInv /\ [SlotsNext]_slotsVars => [\A k \in Keys : IsOff(k) => IsOff(k)']_slotsVars
  <2> SUFFICES ASSUME SlotsInv, [SlotsNext]_slotsVars, NEW k \in Keys, IsOff(k)
               PROVE  IsOff(k)'
    OBVIOUS
  <2>1. slot'[k] = "cancelled" /\ k \notin viewed'
    BY OffStays
  <2>2. \A o \in Handlers : work'[o].op = "uncancel" => k \notin work'[o].key
    BY OffUnheld DEF SlotsInv
  <2> QED
    BY <2>1, <2>2 DEF IsOff
<1> QED
  BY <1>1, SlotsInitHolds, SlotsNextHolds, PTL DEF SlotsSpec, CancelledStaysOff

-----------------------------------------------------------------------------
(* What is published: the testimonial and the market content of a week.    *)

OfTestimonial == {"submit", "page", "reissue", "feature", "remove"}

OfWeekly == {"generate", "panel"}

TaskOps == {"idle", "click", "lead"} \cup OfTestimonial \cup OfWeekly

TestimonialRows ==
  [status : {"none", "pending_submission", "pending_review", "approved", "rejected", "removed"},
   text : Texts \cup {"none"}, link : BOOLEAN, display : BOOLEAN, manual : BOOLEAN]

ReferralStatuses == {"none", "link_generated", "clicked", "lead_created", "transaction_completed"}

ReferralType ==
  /\ referral \in [status : ReferralStatuses, clicks : 0..2, referred : Visitors \cup {"none"}]
  /\ sold \subseteq leads /\ leads \subseteq Visitors
  /\ daily \in Visitors \cup {"idle"}

ContentTasks ==
  [op : TaskOps, about : Texts \cup Weeklies \cup Visitors \cup ReferralStatuses \cup {"none"}]

TasksFit ==
  /\ task \in [Staff -> ContentTasks]
  /\ \A c \in Staff :
       /\ task[c].op = "idle" <=> task[c] = C!Free
       /\ task[c].op = "submit" => task[c].about \in Texts
       /\ task[c].op = "panel" => task[c].about \in Weeklies
       /\ task[c].op = "lead" => task[c].about \in Visitors

\* A row that was reviewed, or can be, has a text; an open page showed one.  Unless two
\* were at work on it, an open page shows what it stands for, and a link is unused
\* until it is used.
TestimonialHolds ==
  /\ testimonial \in TestimonialRows /\ submissions \in Nat
  /\ testimonial.status \in {"pending_review", "approved", "rejected"} => testimonial.text # "none"
  /\ \A c \in Staff : task[c].op = "page" => testimonial.text # "none" \/ testimonial.status = "removed"
  /\ "testimonial" \notin crossed =>
       /\ \A c, d \in Staff : task[c].op \in OfTestimonial /\ task[d].op \in OfTestimonial => c = d
       /\ testimonial.status = "approved" => testimonial.text = vetted
       /\ submissions <= 1
       /\ testimonial.status \in {"none", "pending_submission"} => submissions = 0
       /\ \A c \in Staff :
            /\ task[c].op = "page" => testimonial.status = "pending_review" /\ testimonial.text = task[c].about
            /\ task[c].op = "submit" => testimonial.status = "pending_submission"

\* Who generates found nothing, and who decides has the row open, alone.
WeeklyHolds ==
  /\ weekly \in [Weeklies -> {"none", "pending_review", "approved", "rejected"}]
  /\ "weekly" \notin crossed =>
       /\ \A c, d \in Staff : task[c].op \in OfWeekly /\ task[d].op \in OfWeekly => c = d
       /\ \A v, w \in C!FindMarketContentByPeriod : v = w
       /\ \A c \in Staff :
            /\ task[c].op = "generate" => C!FindMarketContentByPeriod = {}
            /\ task[c].op = "panel" => weekly[task[c].about] = "pending_review"

ContentInv == ReferralType /\ TasksFit /\ TestimonialHolds /\ WeeklyHolds

LEMMA SameCountC == ASSUME NEW S PROVE C!Cardinality(S) = Cardinality(S)
BY DEF C!Cardinality, Cardinality

LEMMA FreeIs == C!Free \in ContentTasks /\ C!Free.op = "idle"
BY DEF C!Free, C!NoText, ContentTasks, TaskOps

LEMMA TodoIs ==
  ASSUME NEW op \in TaskOps,
         NEW about \in Texts \cup Weeklies \cup Visitors \cup ReferralStatuses \cup {"none"}
  PROVE  /\ C!Todo(op, about) \in ContentTasks
         /\ C!Todo(op, about).op = op /\ C!Todo(op, about).about = about
<1>1. [op |-> op, about |-> about] \in ContentTasks
  BY DEF ContentTasks
<1> QED
  BY <1>1 DEF C!Todo

\* Request c goes on to another task, or ends.
LEMMA TaskBecomes ==
  ASSUME TasksFit, NEW c \in Staff, NEW s \in ContentTasks, task' = [task EXCEPT ![c] = s],
         s.op = "idle" <=> s = C!Free,
         s.op = "submit" => s.about \in Texts, s.op = "panel" => s.about \in Weeklies,
         s.op = "lead" => s.about \in Visitors
  PROVE  TasksFit' /\ task'[c] = s /\ \A d \in Staff \ {c} : task'[d] = task[d]
<1>1. /\ task' \in [Staff -> ContentTasks] /\ task'[c] = s
      /\ \A d \in Staff \ {c} : task'[d] = task[d]
  BY DEF TasksFit
<1>2. \A d \in Staff :
       /\ task'[d].op = "idle" <=> task'[d] = C!Free
       /\ task'[d].op = "submit" => task'[d].about \in Texts
       /\ task'[d].op = "panel" => task'[d].about \in Weeklies
       /\ task'[d].op = "lead" => task'[d].about \in Visitors
  BY <1>1 DEF TasksFit
<1> QED
  BY <1>1, <1>2 DEF TasksFit, C!Free, C!NoText

LEMMA TaskEnds ==
  ASSUME TasksFit, NEW c \in Staff, C!End(c)
  PROVE  TasksFit' /\ task'[c] = C!Free /\ \A d \in Staff \ {c} : task'[d] = task[d]
<1>1. task' = [task EXCEPT ![c] = C!Free]
  BY DEF C!End
<1> QED
  BY <1>1, FreeIs, TaskBecomes

\* Who begins on a row uncrossed is alone.
LEMMA TaskBegins ==
  ASSUME TasksFit, NEW c \in Staff, NEW op \in OfTestimonial \cup OfWeekly, NEW row,
         NEW about \in Texts \cup Weeklies \cup {"none"}, C!Begin(c, op, about, row),
         op = "submit" => about \in Texts, op = "panel" => about \in Weeklies
  PROVE  /\ TasksFit' /\ task'[c].op = op /\ task'[c].about = about
         /\ \A d \in Staff \ {c} : task'[d] = task[d]
         /\ crossed \subseteq crossed' /\ crossed' \subseteq crossed \cup {row}
         /\ row \notin crossed' => \A d \in Staff : task[d].op = "idle"
<1>1. PICK s \in ContentTasks : s = C!Todo(op, about) /\ s.op = op /\ s.about = about
  BY TodoIs DEF TaskOps
<1>2. task' = [task EXCEPT ![c] = s]
  BY <1>1 DEF C!Begin
<1>3. op \notin {"idle", "lead"}
  BY DEF OfTestimonial, OfWeekly
<1>4. s # C!Free
  BY <1>1, <1>3, FreeIs
<1>5. TasksFit' /\ task'[c] = s /\ \A d \in Staff \ {c} : task'[d] = task[d]
  BY <1>1, <1>2, <1>3, <1>4, TaskBecomes
<1>6. \/ crossed' = crossed /\ \A d \in Staff : task[d] = C!Free
      \/ crossed' = crossed \cup {row}
  BY DEF C!Begin
<1> QED
  BY <1>1, <1>5, <1>6, FreeIs

\* What concerns the testimonial stays, whatever others do.
LEMMA TestimonialStays ==
  ASSUME ContentInv, NEW c \in Staff, TasksFit', UNCHANGED <<testimonial, vetted, submissions>>,
         \A d \in Staff \ {c} : task'[d] = task[d], task'[c].op \notin OfTestimonial,
         crossed \subseteq crossed'
  PROVE  TestimonialHolds'
<1>1. \A d \in Staff : task'[d].op \in OfTestimonial => task'[d] = task[d]
  OBVIOUS
<1>2. TestimonialHolds
  BY DEF ContentInv
<1>3. /\ testimonial' \in TestimonialRows /\ submissions' \in Nat
      /\ testimonial'.status \in {"pending_review", "approved", "rejected"} => testimonial'.text # "none"
      /\ \A d \in Staff : task'[d].op = "page" => testimonial'.text # "none" \/ testimonial'.status = "removed"
  BY <1>1, <1>2 DEF TestimonialHolds, OfTestimonial
<1>4. "testimonial" \notin crossed' =>
       /\ \A d, e \in Staff : task'[d].op \in OfTestimonial /\ task'[e].op \in OfTestimonial => d = e
       /\ testimonial'.status = "approved" => testimonial'.text = vetted'
       /\ submissions' <= 1
       /\ testimonial'.status \in {"none", "pending_submission"} => submissions' = 0
  BY <1>1, <1>2 DEF TestimonialHolds
<1>5. "testimonial" \notin crossed' =>
        \A d \in Staff :
         /\ task'[d].op = "page" => testimonial'.status = "pending_review" /\ testimonial'.text = task'[d].about
         /\ task'[d].op = "submit" => testimonial'.status = "pending_submission"
  BY <1>1, <1>2 DEF TestimonialHolds, OfTestimonial
<1> QED
  BY <1>3, <1>4, <1>5 DEF TestimonialHolds

LEMMA WeeklyStays ==
  ASSUME ContentInv, NEW c \in Staff, TasksFit', UNCHANGED weekly,
         \A d \in Staff \ {c} : task'[d] = task[d], task'[c].op \notin OfWeekly,
         crossed \subseteq crossed'
  PROVE  WeeklyHolds'
<1>1. \A d \in Staff : task'[d].op \in OfWeekly => task'[d] = task[d]
  OBVIOUS
<1>2. WeeklyHolds /\ C!FindMarketContentByPeriod' = C!FindMarketContentByPeriod
  BY DEF ContentInv, C!FindMarketContentByPeriod
<1>3. "weekly" \notin crossed' =>
        \A d \in Staff :
          /\ task'[d].op = "generate" => C!FindMarketContentByPeriod = {}
          /\ task'[d].op = "panel" => weekly'[task'[d].about] = "pending_review"
  BY <1>1, <1>2 DEF WeeklyHolds, OfWeekly
<1> QED
  BY <1>1, <1>2, <1>3 DEF WeeklyHolds

LEMMA ReferralStays ==
  ASSUME ContentInv, UNCHANGED <<referral, leads, sold, daily>>
  PROVE  ReferralType'
BY DEF ContentInv, ReferralType

LEMMA AbandonKeeps ==
  ASSUME ContentInv, NEW c \in Staff, C!Abandon(c)
  PROVE  ContentInv'
<1>1. /\ UNCHANGED <<testimonial, vetted, submissions, weekly, referral, leads, sold, daily, crossed>>
      /\ TasksFit' /\ task'[c] = C!Free /\ \A d \in Staff \ {c} : task'[d] = task[d]
  BY TaskEnds DEF C!Abandon, C!testimonialRows, C!referralRows, ContentInv
<1>2. task'[c].op \notin OfTestimonial \cup OfWeekly
  BY <1>1, FreeIs DEF OfTestimonial, OfWeekly
<1> QED
  BY <1>1, <1>2, TestimonialStays, WeeklyStays, ReferralStays DEF ContentInv

\* The referral part changes nothing of what is published.
LEMMA ReferralKeeps ==
  ASSUME ContentInv, C!ReferralNext
  PROVE  ContentInv'
<1>1. ReferralType /\ TasksFit
  BY DEF ContentInv
<1>2. ASSUME NEW x \in ReferralStatuses, NEW n \in 0..2, NEW y \in Visitors \cup {"none"},
             referral' = [status |-> x, clicks |-> n, referred |-> y],
             UNCHANGED <<leads, sold, daily>>
      PROVE  ReferralType'
  BY <1>1, <1>2 DEF ReferralType
<1>3. ASSUME UNCHANGED <<testimonial, vetted, submissions, weekly, task, crossed>>, ReferralType'
      PROVE  ContentInv'
  BY <1>3 DEF ContentInv, TasksFit, TestimonialHolds, WeeklyHolds, C!FindMarketContentByPeriod
<1>4. ASSUME NEW c \in Staff, UNCHANGED <<testimonial, vetted, submissions, weekly>>, ReferralType',
             TasksFit', \A d \in Staff \ {c} : task'[d] = task[d],
             task'[c].op \in {"idle", "click", "lead"}, crossed \subseteq crossed'
      PROVE  ContentInv'
  <2>1. task'[c].op \notin OfTestimonial /\ task'[c].op \notin OfWeekly
    BY <1>4 DEF OfTestimonial, OfWeekly
  <2> QED
    BY <1>4, <2>1, TestimonialStays, WeeklyStays DEF ContentInv
<1>5. PICK x \in ReferralStatuses, n \in 0..2, y \in Visitors \cup {"none"} :
        referral = [status |-> x, clicks |-> n, referred |-> y]
  BY <1>1 DEF ReferralType
<1>6. CASE C!SendReferralLinks
  <2>1. referral' = [status |-> "link_generated", clicks |-> n, referred |-> y]
    BY <1>5, <1>6 DEF C!SendReferralLinks
  <2> QED
    BY <1>2, <1>3, <1>6, <2>1 DEF C!SendReferralLinks, C!testimonialRows, ReferralStatuses
<1>7. CASE C!NullifyReferredSeller
  <2>1. referral' = [status |-> x, clicks |-> n, referred |-> "none"]
    BY <1>5, <1>7 DEF C!NullifyReferredSeller, C!NoText
  <2> QED
    BY <1>2, <1>3, <1>7, <2>1 DEF C!NullifyReferredSeller, C!testimonialRows
<1>8. CASE C!ReferralJob
  <2>1. ReferralType'
    BY <1>1, <1>8 DEF C!ReferralJob, C!FindReferralsWithCompletedTransactions, ReferralType
  <2> QED
    BY <1>3, <1>8, <2>1 DEF C!ReferralJob, C!testimonialRows
<1>9. CASE C!MarkReferralTransactionComplete
  <2>1. PICK z \in ReferralStatuses : referral' = [status |-> z, clicks |-> n, referred |-> y]
    BY <1>5, <1>9 DEF C!MarkReferralTransactionComplete, ReferralStatuses
  <2>2. ReferralType'
    BY <1>1, <1>9, <2>1 DEF C!MarkReferralTransactionComplete, ReferralType
  <2> QED
    BY <1>3, <1>9, <2>2 DEF C!MarkReferralTransactionComplete, C!testimonialRows
<1>10. CASE C!ReferralJobFails
  <2>1. ReferralType'
    BY <1>1, <1>10 DEF C!ReferralJobFails, ReferralType
  <2> QED
    BY <1>3, <1>10, <2>1 DEF C!ReferralJobFails, C!testimonialRows
<1>11. ASSUME NEW v \in Visitors, C!ReferredSells(v) PROVE ContentInv'
  <2>1. ReferralType'
    BY <1>1, <1>11 DEF C!ReferredSells, ReferralType
  <2> QED
    BY <1>3, <1>11, <2>1 DEF C!ReferredSells, C!testimonialRows
<1>12. ASSUME NEW c \in Staff, C!TrackReferralClick(c) PROVE ContentInv'
  <2>1. /\ UNCHANGED <<testimonial, vetted, submissions, weekly, leads, sold, daily, crossed>>
        /\ task[c] = C!Free
        /\ \/ task' = [task EXCEPT ![c] = C!Todo("click", referral.status)]
           \/ task' = task
    BY <1>12 DEF C!TrackReferralClick, C!testimonialRows
  <2>2. referral' = [status |-> x, clicks |-> IF n = 0 THEN 1 ELSE 2, referred |-> y]
    BY <1>5, <1>12 DEF C!TrackReferralClick
  <2>3. ReferralType'
    BY <1>2, <2>1, <2>2
  <2>4. CASE task' = task
    BY <1>3, <2>1, <2>3, <2>4
  <2>5. CASE task' = [task EXCEPT ![c] = C!Todo("click", referral.status)]
    <3>1. PICK s \in ContentTasks : s = C!Todo("click", referral.status) /\ s.op = "click"
      BY <1>5, TodoIs DEF TaskOps
    <3>2. s # C!Free
      BY <3>1, FreeIs
    <3>3. TasksFit' /\ task'[c] = s /\ \A d \in Staff \ {c} : task'[d] = task[d]
      BY <1>1, <2>5, <3>1, <3>2, TaskBecomes
    <3> QED
      BY <1>4, <2>1, <2>3, <3>1, <3>3
  <2> QED
    BY <2>1, <2>4, <2>5
<1>13. ASSUME NEW c \in Staff, C!MarkClicked(c) PROVE ContentInv'
  <2>1. /\ UNCHANGED <<testimonial, vetted, submissions, weekly, leads, sold, daily>> /\ C!End(c)
        /\ crossed \subseteq crossed'
    BY <1>13 DEF C!MarkClicked, C!testimonialRows
  <2>2. referral' = [status |-> "clicked", clicks |-> n, referred |-> y]
    BY <1>5, <1>13 DEF C!MarkClicked
  <2>3. ReferralType'
    BY <1>2, <2>1, <2>2 DEF ReferralStatuses
  <2> QED
    BY <1>1, <1>4, <2>1, <2>3, TaskEnds, FreeIs
<1>14. ASSUME NEW c \in Staff, C!LinkReferredSeller(c) PROVE ContentInv'
  <2>1. /\ UNCHANGED <<testimonial, vetted, submissions, weekly, leads, sold, daily, crossed>> /\ C!End(c)
        /\ task[c].op = "lead"
    BY <1>14 DEF C!LinkReferredSeller, C!testimonialRows
  <2>2. task[c].about \in Visitors
    BY <1>1, <2>1 DEF TasksFit
  <2>3. referral' = [status |-> "lead_created", clicks |-> n, referred |-> task[c].about]
    BY <1>5, <1>14 DEF C!LinkReferredSeller
  <2>4. ReferralType'
    BY <1>2, <2>1, <2>2, <2>3 DEF ReferralStatuses
  <2> QED
    BY <1>1, <1>4, <2>1, <2>4, TaskEnds, FreeIs
<1>15. ASSUME NEW c \in Staff, NEW v \in Visitors, C!LinkReferralToLead(c, v) PROVE ContentInv'
  <2>1. /\ UNCHANGED <<testimonial, vetted, submissions, weekly, referral, sold, daily, crossed>>
        /\ leads' = leads \cup {v} /\ task' = [task EXCEPT ![c] = C!Todo("lead", v)]
    BY <1>15 DEF C!LinkReferralToLead, C!testimonialRows
  <2>2. ReferralType'
    BY <1>1, <2>1 DEF ReferralType
  <2>3. PICK s \in ContentTasks : s = C!Todo("lead", v) /\ s.op = "lead" /\ s.about = v
    BY TodoIs DEF TaskOps
  <2>4. s # C!Free
    BY <2>3, FreeIs
  <2>5. TasksFit' /\ task'[c] = s /\ \A d \in Staff \ {c} : task'[d] = task[d]
    BY <1>1, <2>1, <2>3, <2>4, TaskBecomes
  <2> QED
    BY <1>4, <2>1, <2>2, <2>3, <2>5
<1> QED
  BY <1>6, <1>7, <1>8, <1>9, <1>10, <1>11, <1>12, <1>13, <1>14, <1>15, AbandonKeeps DEF C!ReferralNext

\* Request c writes the testimonial or begins on it, and the rest stays.
LEMMA TestimonialMoves ==
  ASSUME ContentInv, NEW c \in Staff, TasksFit', UNCHANGED <<weekly, referral, leads, sold, daily>>,
         \A d \in Staff \ {c} : task'[d] = task[d], task'[c].op \notin OfWeekly,
         crossed \subseteq crossed', TestimonialHolds'
  PROVE  ContentInv'
BY WeeklyStays, ReferralStays DEF ContentInv

\* What has begun on the testimonial changes nothing of it.
LEMMA TestimonialBegins ==
  ASSUME ContentInv, NEW c \in Staff, NEW op \in OfTestimonial, NEW about \in Texts \cup {"none"},
         C!Begin(c, op, about, "testimonial"),
         UNCHANGED <<testimonial, vetted, submissions, weekly, referral, leads, sold, daily>>,
         op = "submit" => about \in Texts /\ testimonial.status = "pending_submission",
         op = "page" => testimonial.status = "pending_review" /\ testimonial.text = about
  PROVE  ContentInv'
<1>1. TasksFit /\ TestimonialHolds
  BY DEF ContentInv
<1>2. op \in OfTestimonial \cup OfWeekly /\ op \notin OfWeekly /\ op # "panel"
  BY DEF OfTestimonial, OfWeekly
<1>3. /\ TasksFit' /\ task'[c].op = op /\ task'[c].about = about
      /\ \A d \in Staff \ {c} : task'[d] = task[d]
      /\ crossed \subseteq crossed'
      /\ "testimonial" \notin crossed' => \A d \in Staff : task[d].op = "idle"
  BY <1>1, <1>2, TaskBegins
<1>4. \A d \in Staff : task'[d].op = "page" => testimonial.text # "none" \/ testimonial.status = "removed"
  <2>1. op = "page" => testimonial.text # "none"
    BY <1>1 DEF TestimonialHolds
  <2> QED
    BY <1>1, <1>3, <2>1 DEF TestimonialHolds
<1>5. ASSUME "testimonial" \notin crossed'
      PROVE  \A d \in Staff \ {c} : task'[d].op \notin OfTestimonial
  BY <1>3, <1>5 DEF OfTestimonial
<1>6. "testimonial" \notin crossed' => "testimonial" \notin crossed
  BY <1>3
<1>7. TestimonialHolds'
  <2>1. "testimonial" \notin crossed' =>
       /\ \A d, e \in Staff : task'[d].op \in OfTestimonial /\ task'[e].op \in OfTestimonial => d = e
       /\ \A d \in Staff :
            /\ task'[d].op = "page" => testimonial.status = "pending_review" /\ testimonial.text = task'[d].about
            /\ task'[d].op = "submit" => testimonial.status = "pending_submission"
    BY <1>3, <1>5 DEF OfTestimonial
  <2> QED
    BY <1>1, <1>4, <1>6, <2>1 DEF TestimonialHolds
<1> QED
  BY <1>2, <1>3, <1>7, TestimonialMoves

LEMMA TestimonialStartsKeep ==
  ASSUME ContentInv, NEW c \in Staff,
         \/ C!SubmitTestimonial(c) \/ C!OpenTestimonial(c) \/ C!ReissueStart(c)
         \/ C!FeatureTestimonial(c) \/ C!RemoveTestimonial(c)
  PROVE  ContentInv'
<1>1. UNCHANGED <<testimonial, vetted, submissions, weekly, referral, leads, sold, daily>>
  BY DEF C!SubmitTestimonial, C!OpenTestimonial, C!ReissueStart, C!FeatureTestimonial,
         C!RemoveTestimonial, C!testimonialRows, C!referralRows
<1>2. testimonial.text \in Texts \cup {"none"}
  BY DEF ContentInv, TestimonialHolds, TestimonialRows
<1>3. CASE C!SubmitTestimonial(c)
  BY <1>1, <1>3, TestimonialBegins DEF C!SubmitTestimonial, OfTestimonial
<1>4. CASE C!OpenTestimonial(c)
  BY <1>1, <1>2, <1>4, TestimonialBegins DEF C!OpenTestimonial, OfTestimonial
<1>5. CASE C!ReissueStart(c)
  BY <1>1, <1>5, TestimonialBegins DEF C!ReissueStart, OfTestimonial, C!NoText
<1>6. CASE C!FeatureTestimonial(c)
  BY <1>1, <1>6, TestimonialBegins DEF C!FeatureTestimonial, OfTestimonial, C!NoText
<1>7. CASE C!RemoveTestimonial(c)
  BY <1>1, <1>7, TestimonialBegins DEF C!RemoveTestimonial, OfTestimonial, C!NoText
<1> QED
  BY <1>3, <1>4, <1>5, <1>6, <1>7

\* Request c ends with the testimonial as it leaves it.
LEMMA TestimonialEnds ==
  ASSUME ContentInv, NEW c \in Staff, task[c].op \in OfTestimonial, C!End(c), C!Stands,
         UNCHANGED <<weekly, referral, leads, sold, daily, crossed>>,
         testimonial' \in TestimonialRows, submissions' \in Nat,
         testimonial'.status # "none",
         testimonial'.status \in {"pending_review", "approved", "rejected"} => testimonial'.text # "none",
         testimonial'.text # "none" \/ testimonial.text = "none" \/ testimonial'.status = "removed",
         "testimonial" \notin crossed =>
           /\ testimonial'.status = "approved" => testimonial'.text = vetted'
           /\ submissions' <= 1
           /\ testimonial'.status = "pending_submission" => submissions' = 0
  PROVE  ContentInv'
<1>1. TasksFit /\ TestimonialHolds /\ testimonial.status # "removed"
  BY DEF ContentInv, C!Stands
<1>2. /\ TasksFit' /\ task'[c] = C!Free
      /\ \A d \in Staff \ {c} : task'[d] = task[d]
  BY <1>1, TaskEnds
<1>3. task'[c].op = "idle" /\ "idle" \notin OfTestimonial /\ "idle" \notin OfWeekly
  BY <1>2, FreeIs DEF OfTestimonial, OfWeekly
<1>4. \A d \in Staff : task'[d].op = "page" => testimonial'.text # "none" \/ testimonial'.status = "removed"
  BY <1>1, <1>2, <1>3 DEF TestimonialHolds
<1>5. "testimonial" \notin crossed => \A d \in Staff : task'[d].op \notin OfTestimonial
  BY <1>1, <1>2, <1>3 DEF TestimonialHolds
<1>6. TestimonialHolds'
  BY <1>4, <1>5 DEF TestimonialHolds, OfTestimonial
<1> QED
  BY <1>2, <1>3, <1>6, TestimonialMoves

LEMMA TestimonialWritesKeep ==
  ASSUME ContentInv, NEW c \in Staff,
         \/ C!UpdateTestimonialSubmission(c) \/ C!ApproveTestimonial(c) \/ C!RejectTestimonial(c)
         \/ C!ReissueTestimonialToken(c) \/ C!SetTestimonialDisplay(c) \/ C!HardDeleteTestimonial(c)
  PROVE  ContentInv'
<1>1. TasksFit /\ TestimonialHolds /\ testimonial \in TestimonialRows /\ submissions \in Nat
  BY DEF ContentInv, TestimonialHolds
<1>2. C!End(c) /\ C!Stands /\ UNCHANGED <<weekly, referral, leads, sold, daily, crossed>>
  BY DEF C!UpdateTestimonialSubmission, C!ApproveTestimonial, C!RejectTestimonial,
         C!ReissueTestimonialToken, C!SetTestimonialDisplay, C!HardDeleteTestimonial, C!referralRows
<1>3. testimonial.status \in {"pending_submission", "pending_review", "approved", "rejected"}
  BY <1>1, <1>2 DEF C!Stands, TestimonialRows
<1>4. CASE C!UpdateTestimonialSubmission(c)
  <2>1. task[c].op = "submit" /\ task[c].about \in Texts /\ task[c].about # "none" /\ submissions' = submissions + 1
    BY <1>1, <1>4, ContentAssumption DEF C!UpdateTestimonialSubmission, TasksFit
  <2>2. testimonial' \in TestimonialRows /\ testimonial'.status = "pending_review" /\ testimonial'.text = task[c].about
    <3>1. PICK x \in Texts : x = task[c].about
      BY <2>1
    <3>2. testimonial' = [testimonial EXCEPT !.status = "pending_review", !.text = x]
      BY <1>4, <3>1 DEF C!UpdateTestimonialSubmission
    <3> QED
      BY <1>1, <3>1, <3>2 DEF TestimonialRows
  <2>3. "testimonial" \notin crossed => submissions = 0
    BY <1>1, <2>1 DEF TestimonialHolds
  <2> QED
    BY <1>1, <1>2, <2>1, <2>2, <2>3, TestimonialEnds DEF OfTestimonial
<1>5. CASE C!ApproveTestimonial(c)
  <2>1. /\ task[c].op = "page" /\ submissions' = submissions /\ vetted' = task[c].about
        /\ testimonial' = [testimonial EXCEPT !.status = "approved"]
    BY <1>5 DEF C!ApproveTestimonial, C!Becomes
  <2>2. testimonial' \in TestimonialRows /\ testimonial'.status = "approved" /\ testimonial'.text = testimonial.text
    BY <1>1, <2>1 DEF TestimonialRows
  <2>3. testimonial.text # "none"
    BY <1>1, <1>3, <2>1 DEF TestimonialHolds
  <2>4. "testimonial" \notin crossed => testimonial.text = task[c].about /\ submissions <= 1
    BY <1>1, <2>1 DEF TestimonialHolds
  <2> QED
    BY <1>1, <1>2, <2>1, <2>2, <2>3, <2>4, TestimonialEnds DEF OfTestimonial
<1>6. CASE C!RejectTestimonial(c)
  <2>1. /\ task[c].op = "page" /\ submissions' = submissions /\ vetted' = vetted
        /\ testimonial' = [testimonial EXCEPT !.status = "rejected"]
    BY <1>6 DEF C!RejectTestimonial, C!Becomes
  <2>2. testimonial' \in TestimonialRows /\ testimonial'.status = "rejected" /\ testimonial'.text = testimonial.text
    BY <1>1, <2>1 DEF TestimonialRows
  <2>3. testimonial.text # "none"
    BY <1>1, <1>3, <2>1 DEF TestimonialHolds
  <2>4. "testimonial" \notin crossed => submissions <= 1
    BY <1>1 DEF TestimonialHolds
  <2> QED
    BY <1>1, <1>2, <2>1, <2>2, <2>3, <2>4, TestimonialEnds DEF OfTestimonial
<1>7. CASE C!ReissueTestimonialToken(c)
  <2>1. /\ task[c].op = "reissue" /\ submissions' = 0 /\ vetted' = vetted
        /\ testimonial' = [testimonial EXCEPT !.status = "pending_submission", !.link = TRUE]
    BY <1>7 DEF C!ReissueTestimonialToken
  <2>2. testimonial' \in TestimonialRows /\ testimonial'.status = "pending_submission" /\ testimonial'.text = testimonial.text
    BY <1>1, <2>1 DEF TestimonialRows
  <2> QED
    BY <1>2, <2>1, <2>2, TestimonialEnds DEF OfTestimonial
<1>8. CASE C!SetTestimonialDisplay(c)
  <2>1. PICK shown \in BOOLEAN : testimonial' = [testimonial EXCEPT !.display = shown]
    BY <1>8 DEF C!SetTestimonialDisplay
  <2>2. task[c].op = "feature" /\ submissions' = submissions /\ vetted' = vetted
    BY <1>8 DEF C!SetTestimonialDisplay
  <2>3. testimonial' \in TestimonialRows /\ testimonial'.status = testimonial.status /\ testimonial'.text = testimonial.text
    BY <1>1, <2>1 DEF TestimonialRows
  <2> QED
    BY <1>1, <1>2, <1>3, <2>2, <2>3, TestimonialEnds DEF OfTestimonial, TestimonialHolds
<1>9. CASE C!HardDeleteTestimonial(c)
  <2>1. /\ task[c].op = "remove" /\ submissions' = submissions
        /\ testimonial' = [status |-> "removed", text |-> "none", link |-> FALSE,
                           display |-> FALSE, manual |-> FALSE]
    BY <1>9 DEF C!HardDeleteTestimonial, C!NoText
  <2>2. testimonial' \in TestimonialRows /\ testimonial'.status = "removed"
    BY <2>1 DEF TestimonialRows
  <2>3. "testimonial" \notin crossed => submissions <= 1
    BY <1>1 DEF TestimonialHolds
  <2> QED
    BY <1>1, <1>2, <2>1, <2>2, <2>3, TestimonialEnds DEF OfTestimonial
<1> QED
  BY <1>4, <1>5, <1>6, <1>7, <1>8, <1>9

\* The job, the agent's own testimonial and time: no request is at work.
LEMMA TestimonialAloneKeep ==
  ASSUME ContentInv, C!IssueTestimonialToken \/ C!CreateManualTestimonial \/ C!TokenExpires
  PROVE  ContentInv'
<1>1. TestimonialHolds /\ testimonial \in TestimonialRows
  BY DEF ContentInv, TestimonialHolds
<1>2. UNCHANGED <<vetted, submissions, weekly, referral, leads, sold, daily, task, crossed>>
  BY DEF C!IssueTestimonialToken, C!CreateManualTestimonial, C!TokenExpires, C!referralRows
<1>3. ASSUME TestimonialHolds' PROVE ContentInv'
  BY <1>2, <1>3 DEF ContentInv, ReferralType, TasksFit, WeeklyHolds, C!FindMarketContentByPeriod
<1>4. CASE C!IssueTestimonialToken
  <2>1. /\ testimonial.status = "none"
        /\ testimonial' = [testimonial EXCEPT !.status = "pending_submission", !.link = TRUE]
    BY <1>4 DEF C!IssueTestimonialToken
  <2>2. testimonial' \in TestimonialRows /\ testimonial'.status = "pending_submission" /\ testimonial'.text = testimonial.text
    BY <1>1, <2>1 DEF TestimonialRows
  <2> QED
    BY <1>1, <1>2, <1>3, <2>1, <2>2 DEF TestimonialHolds
<1>5. CASE C!CreateManualTestimonial
  <2>1. PICK x \in Texts : testimonial' = [testimonial EXCEPT !.status = "pending_review", !.text = x, !.manual = TRUE]
    BY <1>5 DEF C!CreateManualTestimonial
  <2>2. testimonial.status = "none"
    BY <1>5 DEF C!CreateManualTestimonial
  <2>3. testimonial' \in TestimonialRows /\ testimonial'.status = "pending_review" /\ testimonial'.text # "none"
    BY <1>1, <2>1, ContentAssumption DEF TestimonialRows
  <2> QED
    BY <1>1, <1>2, <1>3, <2>2, <2>3 DEF TestimonialHolds
<1>6. CASE C!TokenExpires
  <2>1. testimonial' = [testimonial EXCEPT !.link = FALSE]
    BY <1>6 DEF C!TokenExpires
  <2>2. testimonial' \in TestimonialRows /\ testimonial'.status = testimonial.status /\ testimonial'.text = testimonial.text
    BY <1>1, <2>1 DEF TestimonialRows
  <2> QED
    BY <1>1, <1>2, <1>3, <2>2 DEF TestimonialHolds
<1> QED
  BY <1>4, <1>5, <1>6

LEMMA TestimonialKeeps == ContentInv /\ C!TestimonialNext => ContentInv'
BY TestimonialAloneKeep, TestimonialStartsKeep, TestimonialWritesKeep, AbandonKeeps DEF C!TestimonialNext

\* Request c writes the market content of the week or begins on it.
LEMMA WeeklyMoves ==
  ASSUME ContentInv, NEW c \in Staff, TasksFit',
         UNCHANGED <<testimonial, vetted, submissions, referral, leads, sold, daily>>,
         \A d \in Staff \ {c} : task'[d] = task[d], task'[c].op \notin OfTestimonial,
         crossed \subseteq crossed', WeeklyHolds'
  PROVE  ContentInv'
BY TestimonialStays, ReferralStays DEF ContentInv

LEMMA WeeklyStartsKeep ==
  ASSUME ContentInv, NEW c \in Staff,
         C!GenerateMarketContent(c) \/ \E w \in Weeklies : C!OpenMarketContent(c, w)
  PROVE  ContentInv'
<1>1. TasksFit /\ WeeklyHolds
  BY DEF ContentInv
<1>2. UNCHANGED <<testimonial, vetted, submissions, weekly, referral, leads, sold, daily>>
  BY DEF C!GenerateMarketContent, C!OpenMarketContent, C!testimonialRows, C!referralRows
<1>3. PICK op \in OfWeekly, about \in Weeklies \cup {"none"} :
        /\ C!Begin(c, op, about, "weekly")
        /\ op = "generate" => C!FindMarketContentByPeriod = {}
        /\ op = "panel" => about \in Weeklies /\ weekly[about] = "pending_review"
  BY DEF C!GenerateMarketContent, C!OpenMarketContent, OfWeekly, C!NoText
<1>4. op \in OfTestimonial \cup OfWeekly /\ op \notin OfTestimonial /\ op # "submit"
  BY DEF OfTestimonial, OfWeekly
<1>5. /\ TasksFit' /\ task'[c].op = op /\ task'[c].about = about
      /\ \A d \in Staff \ {c} : task'[d] = task[d]
      /\ crossed \subseteq crossed'
      /\ "weekly" \notin crossed' => \A d \in Staff : task[d].op = "idle"
  BY <1>1, <1>3, <1>4, TaskBegins
<1>6. "weekly" \notin crossed' => \A d \in Staff \ {c} : task'[d].op \notin OfWeekly
  BY <1>5 DEF OfWeekly
<1>7. C!FindMarketContentByPeriod' = C!FindMarketContentByPeriod
  BY <1>2 DEF C!FindMarketContentByPeriod
<1>8. WeeklyHolds'
  BY <1>1, <1>2, <1>3, <1>5, <1>6, <1>7 DEF WeeklyHolds, OfWeekly
<1> QED
  BY <1>2, <1>4, <1>5, <1>8, WeeklyMoves

LEMMA WeeklyWritesKeep ==
  ASSUME ContentInv, NEW c \in Staff, C!CreateMarketContent(c) \/ C!UpdateMarketContentStatus(c)
  PROVE  ContentInv'
<1>1. TasksFit /\ WeeklyHolds
  BY DEF ContentInv
<1>2. UNCHANGED <<testimonial, vetted, submissions, referral, leads, sold, daily, crossed>> /\ C!End(c)
  BY DEF C!CreateMarketContent, C!UpdateMarketContentStatus, C!testimonialRows, C!referralRows
<1>3. /\ TasksFit' /\ task'[c] = C!Free
      /\ \A d \in Staff \ {c} : task'[d] = task[d]
  BY <1>1, <1>2, TaskEnds
<1>4. task'[c].op = "idle" /\ "idle" \notin OfTestimonial /\ "idle" \notin OfWeekly
  BY <1>3, FreeIs DEF OfTestimonial, OfWeekly
<1>5. task[c].op \in OfWeekly
  BY DEF C!CreateMarketContent, C!UpdateMarketContentStatus, OfWeekly
<1>6. "weekly" \notin crossed => \A d \in Staff : task'[d].op \notin OfWeekly
  BY <1>1, <1>3, <1>4, <1>5 DEF WeeklyHolds
<1>7. ASSUME NEW w \in Weeklies, NEW x \in {"pending_review", "approved", "rejected"},
             weekly' = [weekly EXCEPT ![w] = x],
             C!FindMarketContentByPeriod \subseteq {w} \/ "weekly" \in crossed
      PROVE  ContentInv'
  <2>1. weekly' \in [Weeklies -> {"none", "pending_review", "approved", "rejected"}]
    BY <1>1, <1>7 DEF WeeklyHolds
  <2>2. C!FindMarketContentByPeriod' \subseteq C!FindMarketContentByPeriod \cup {w}
    BY <1>1, <1>7 DEF C!FindMarketContentByPeriod, WeeklyHolds
  <2>3. WeeklyHolds'
    BY <1>2, <1>6, <1>7, <2>1, <2>2 DEF WeeklyHolds, OfWeekly
  <2> QED
    BY <1>2, <1>3, <1>4, <2>3, WeeklyMoves
<1>8. CASE C!CreateMarketContent(c)
  <2>1. PICK w \in Weeklies : weekly' = [weekly EXCEPT ![w] = "pending_review"]
    BY <1>8 DEF C!CreateMarketContent
  <2>2. C!FindMarketContentByPeriod = {} \/ "weekly" \in crossed
    BY <1>1, <1>8 DEF C!CreateMarketContent, WeeklyHolds
  <2> QED
    BY <1>7, <2>1, <2>2
<1>9. CASE C!UpdateMarketContentStatus(c)
  <2>1. PICK x \in {"approved", "rejected"} : weekly' = [weekly EXCEPT ![task[c].about] = x]
    BY <1>9 DEF C!UpdateMarketContentStatus
  <2>2. task[c].op = "panel" /\ task[c].about \in Weeklies
    BY <1>1, <1>9 DEF C!UpdateMarketContentStatus, TasksFit
  <2>3. PICK w \in Weeklies : w = task[c].about
    BY <2>2
  <2>4. "weekly" \notin crossed => w \in C!FindMarketContentByPeriod
    BY <1>1, <2>2, <2>3 DEF WeeklyHolds, C!FindMarketContentByPeriod
  <2>5. C!FindMarketContentByPeriod \subseteq {w} \/ "weekly" \in crossed
    BY <1>1, <2>4 DEF WeeklyHolds
  <2> QED
    BY <1>7, <2>1, <2>3, <2>5
<1> QED
  BY <1>8, <1>9

LEMMA ContentInitHolds == C!ContentInit => ContentInv
<1> SUFFICES ASSUME C!ContentInit PROVE ContentInv
  OBVIOUS
<1>1. \A c \in Staff : task[c] = C!Free /\ task[c].op = "idle"
  BY FreeIs DEF C!ContentInit
<1>2. task \in [Staff -> ContentTasks]
  BY FreeIs DEF C!ContentInit
<1>3. TasksFit
  BY <1>1, <1>2 DEF TasksFit
<1>4. TestimonialHolds
  BY <1>1 DEF C!ContentInit, TestimonialHolds, TestimonialRows, OfTestimonial, C!NoText
<1>5. WeeklyHolds
  BY <1>1 DEF C!ContentInit, WeeklyHolds, OfWeekly, C!FindMarketContentByPeriod
<1>6. ReferralType
  BY DEF C!ContentInit, ReferralType, ReferralStatuses, C!NoText
<1> QED
  BY <1>3, <1>4, <1>5, <1>6 DEF ContentInv

LEMMA ContentNextHolds == ContentInv /\ [C!ContentNext]_C!contentVars => ContentInv'
<1> SUFFICES ASSUME ContentInv, [C!ContentNext]_C!contentVars PROVE ContentInv'
  OBVIOUS
<1>1. CASE UNCHANGED C!contentVars
  BY <1>1 DEF C!contentVars, ContentInv, ReferralType, TasksFit, TestimonialHolds, WeeklyHolds,
              C!FindMarketContentByPeriod
<1>2. CASE C!MarketNext
  BY <1>2, WeeklyStartsKeep, WeeklyWritesKeep, AbandonKeeps DEF C!MarketNext
<1> QED
  BY <1>1, <1>2, TestimonialKeeps, ReferralKeeps DEF C!ContentNext

\* What is public was reviewed: an approved testimonial has a text, the one the agent
\* had before him where no two requests crossed; and a week has one market content.
THEOREM PublishedIsReviewedKept == C!ContentSpec => []PublishedIsReviewed
<1>1. ContentInv => PublishedIsReviewed
  <2> SUFFICES ASSUME ContentInv PROVE PublishedIsReviewed
    OBVIOUS
  <2>1. C!ContentTypeOK
    BY DEF ContentInv, TestimonialHolds, TestimonialRows, WeeklyHolds, ReferralType, ReferralStatuses,
           C!ContentTypeOK, C!NoText
  <2>2. C!TestimonialIsVetted
    BY DEF ContentInv, TestimonialHolds, C!TestimonialIsVetted, C!NoText
  <2>3. C!OneContentAWeek
    <3> SUFFICES ASSUME "weekly" \notin crossed
                 PROVE  C!Cardinality({w \in Weeklies : weekly[w] \in {"pending_review", "approved"}}) <= 1
      BY DEF C!OneContentAWeek
    <3>1. PICK S : S = {w \in Weeklies : weekly[w] \in {"pending_review", "approved"}}
      OBVIOUS
    <3>2. \A v, w \in S : v = w
      BY <3>1 DEF ContentInv, WeeklyHolds, C!FindMarketContentByPeriod
    <3>3. CASE S = {}
      BY <3>1, <3>3, SameCountC, FS_EmptySet
    <3>4. CASE S # {}
      <4>1. PICK w : S = {w}
        BY <3>2, <3>4
      <4>2. Cardinality(S) = 1
        BY <4>1, FS_Singleton
      <4>3. C!Cardinality(S) = 1
        BY <4>2, SameCountC
      <4> QED
        BY <3>1, <4>3
    <3> QED
      BY <3>3, <3>4
  <2> QED
    BY <2>1, <2>2, <2>3 DEF PublishedIsReviewed
<1> QED
  BY <1>1, ContentInitHolds, ContentNextHolds, PTL DEF C!ContentSpec

-----------------------------------------------------------------------------
(* The copy of the resale transactions.                                    *)

SyncStates ==
  [at : {"idle", "fetch", "success", "failed"},
   latest : {r[1] : r \in Records} \cup {0},
   offset : 0..(Cardinality(Records) + PageSize),
   tries : 0..(MaxRetries - 1)]

Months == {r[1] : r \in Records}

\* The records of the months after m.
Later(m) == {r \in published : r[1] > m}

\* What a run x was promised, while the rows are K and it cut the months M: under way, a
\* record is held, or its month was cut, or as many records as the pages had are of later
\* months; once it succeeded, one of the first two.
Promised(x, P, K, M) ==
  /\ x.at = "fetch" => \A p \in P :
       /\ p \in published /\ p[1] > x.latest
       /\ p \in K \/ p[1] \in M \/ Cardinality(Later(p[1])) >= x.offset
  /\ x.at = "success" => \A p \in P : p \in K \/ p[1] \in M

PromiseHolds(s) == Promised(sync[s], promised[s], held, cut[s])

SyncType ==
  /\ held \subseteq published /\ published \subseteq Records
  /\ sync \in [Staff -> SyncStates] /\ promised \in [Staff -> SUBSET Records]
  /\ cut \in [Staff -> SUBSET Months]

SyncInv == SyncType /\ \A s \in Staff : PromiseHolds(s)

LEMMA SameCountH == ASSUME NEW S PROVE H!Cardinality(S) = Cardinality(S)
BY DEF H!Cardinality, Cardinality

\* A set of numbers has a least one.
LEMMA LeastNumber ==
  ASSUME NEW S \in SUBSET Nat, S # {}
  PROVE  \E m \in S : \A n \in S : m <= n
<1>1. PICK R : R = OpToRel(<, Nat) /\ IsWellFoundedOn(R, Nat)
  BY NatLessThanWellFounded
<1>2. \A m, n \in Nat : m < n => <<m, n>> \in R
  BY <1>1 DEF OpToRel
<1>3. \E m \in S : \A n \in S : ~(<<n, m>> \in R)
  BY <1>1, WFMin
<1>4. PICK m \in S : \A n \in S : ~(<<n, m>> \in R)
  BY <1>3
<1>5. ASSUME NEW n \in S PROVE m <= n
  <2>1. m \in Nat /\ n \in Nat /\ ~(n < m)
    BY <1>2, <1>4
  <2> QED
    BY <2>1
<1> QED
  BY <1>5

LEMMA RecordsFew ==
  ASSUME published \subseteq Records
  PROVE  /\ IsFiniteSet(published) /\ Cardinality(published) \in Nat
         /\ Cardinality(Records) \in Nat /\ Cardinality(published) <= Cardinality(Records)
         /\ \A S \in SUBSET published :
              IsFiniteSet(S) /\ Cardinality(S) \in Nat /\ Cardinality(S) <= Cardinality(published)
<1>1. IsFiniteSet(published) /\ Cardinality(published) <= Cardinality(Records)
  BY SyncAssumption, FS_Subset
<1> QED
  BY <1>1, SyncAssumption, FS_Subset, FS_CardinalityType

\* A page has the records from one place of the order to another: where it has none of a
\* month and the pages before had none, as many records as all of them are of later months.
LEMMA PageTurned ==
  ASSUME published \subseteq Records, NEW o \in Nat, NEW page \in H!Pages(o),
         NEW p \in published, Cardinality(Later(p[1])) >= o,
         \A r \in page : r[1] # p[1]
  PROVE  /\ Cardinality(Later(p[1])) >= o + PageSize /\ o + PageSize < Cardinality(published)
         /\ \E r \in page : r[1] > p[1]
<1>1. \A r \in published : r[1] \in Nat
  BY SyncAssumption
<1>2. PICK next \in Nat : next = o + PageSize /\ next > o
  BY SyncAssumption
<1>3. PICK A \in H!Firsts(o), B \in H!Firsts(next) : A \subseteq B /\ page = B \ A
  BY <1>2 DEF H!Pages
<1>4. \A n : \A S \in H!Firsts(n) :
        /\ S \subseteq published
        /\ Cardinality(S) = IF n < Cardinality(published) THEN n ELSE Cardinality(published)
        /\ \A r \in S, q \in published \ S : r[1] >= q[1]
  BY SameCountH DEF H!Firsts, H!Month
<1>5. PICK L \in SUBSET published : L = Later(p[1])
  BY DEF Later
<1>6. PICK a, b, l, n \in Nat : /\ a = Cardinality(A) /\ b = Cardinality(B)
                               /\ l = Cardinality(L) /\ n = Cardinality(published)
  BY <1>4, RecordsFew
<1>7. \A r \in A : r[1] # p[1]
  <2> SUFFICES ASSUME NEW r \in A, r[1] = p[1] PROVE FALSE
    OBVIOUS
  <2>1. L \subseteq A /\ r \notin L
    BY <1>1, <1>4, <1>5 DEF Later
  <2>2. l <= a /\ l # a
    BY <1>4, <1>6, <2>1, RecordsFew, FS_Subset
  <2> QED
    BY <1>4, <1>5, <1>6, <2>2
<1>8. p \notin B
  BY <1>3, <1>7
<1>9. B \subseteq L
  BY <1>1, <1>3, <1>4, <1>5, <1>7, <1>8 DEF Later
<1>10. b < n
  <2>1. b <= n /\ b # n
    BY <1>4, <1>6, <1>8, RecordsFew, FS_Subset
  <2> QED
    BY <2>1
<1>11. b = next /\ next < n
  BY <1>4, <1>6, <1>10
<1>12. l >= next
  <2>1. b <= l
    BY <1>5, <1>6, <1>9, RecordsFew, FS_Subset
  <2> QED
    BY <1>11, <2>1
<1>13. \E r \in page : r \in L
  <2>1. A # B
    BY <1>2, <1>4, <1>6, <1>11
  <2> QED
    BY <1>3, <1>9, <2>1
<1> QED
  BY <1>2, <1>5, <1>6, <1>11, <1>12, <1>13 DEF Later

\* The latest month held is one.
LEMMA LatestIsHeld ==
  ASSUME held \subseteq published, published \subseteq Records, held # {}
  PROVE  \E r \in held : H!LatestMonth = r[1]
<1>1. \A r \in held : r[1] \in Nat
  BY SyncAssumption
<1>2. \E h \in held : \A r \in held : r[1] <= h[1]
  <2>1. \A h \in held : {r \in held : r[1] > h[1]} \in SUBSET published
    OBVIOUS
  <2>2. \A h \in held : Cardinality({r \in held : r[1] > h[1]}) \in Nat
    BY <2>1, RecordsFew
  <2>3. PICK n \in {Cardinality({r \in held : r[1] > h[1]}) : h \in held} :
          \A m \in {Cardinality({r \in held : r[1] > h[1]}) : h \in held} : n <= m
    <3>1. {Cardinality({r \in held : r[1] > h[1]}) : h \in held} \in SUBSET Nat
      BY <2>2
    <3>2. {Cardinality({r \in held : r[1] > h[1]}) : h \in held} # {}
      OBVIOUS
    <3> QED
      BY <3>1, <3>2, LeastNumber
  <2>4. PICK h \in held : n = Cardinality({r \in held : r[1] > h[1]})
    BY <2>3
  <2>5. {r \in held : r[1] > h[1]} = {}
    <3> SUFFICES ASSUME NEW g \in held, g[1] > h[1] PROVE FALSE
      OBVIOUS
    <3>1. PICK S, T : S = {r \in held : r[1] > g[1]} /\ T = {r \in held : r[1] > h[1]}
      OBVIOUS
    <3>2. S \subseteq T /\ g \in T /\ g \notin S
      BY <1>1, <3>1
    <3>3. IsFiniteSet(T) /\ Cardinality(S) \in Nat /\ Cardinality(T) \in Nat
      BY <3>1, RecordsFew
    <3>4. Cardinality(S) <= Cardinality(T) /\ Cardinality(S) # Cardinality(T)
      BY <3>2, <3>3, FS_Subset
    <3>5. Cardinality(T) <= Cardinality(S)
      BY <2>3, <2>4, <3>1
    <3> QED
      BY <3>3, <3>4, <3>5
  <2> QED
    BY <1>1, <2>5
<1>3. PICK h \in held : \A r \in held : r[1] <= h[1]
  BY <1>2
<1>4. \E m \in {H!Month(r) : r \in held} : \A r \in held : H!Month(r) <= m
  BY <1>3 DEF H!Month
<1>5. H!LatestMonth \in {H!Month(r) : r \in held}
  BY <1>4 DEF H!LatestMonth
<1> QED
  BY <1>5 DEF H!Month

\* The run goes on, or ends, and what was promised to others stays promised.
LEMMA SyncBecomes ==
  ASSUME SyncInv, NEW s \in Staff, NEW x \in SyncStates, sync' = [sync EXCEPT ![s] = x],
         published' = published, held \subseteq held', held' \subseteq published,
         NEW P \in SUBSET Records, promised' = [promised EXCEPT ![s] = P],
         NEW M \in SUBSET Months, cut' = [cut EXCEPT ![s] = M],
         Promised(x, P, held', M)
  PROVE  SyncInv'
<1>1. /\ sync' \in [Staff -> SyncStates] /\ sync'[s] = x
      /\ \A t \in Staff \ {s} : sync'[t] = sync[t]
  BY DEF SyncInv, SyncType
<1>2. /\ promised' \in [Staff -> SUBSET Records] /\ promised'[s] = P
      /\ \A t \in Staff \ {s} : promised'[t] = promised[t]
  BY DEF SyncInv, SyncType
<1>3. /\ cut' \in [Staff -> SUBSET Months] /\ cut'[s] = M
      /\ \A t \in Staff \ {s} : cut'[t] = cut[t]
  BY DEF SyncInv, SyncType
<1>4. SyncType'
  BY <1>1, <1>2, <1>3 DEF SyncInv, SyncType
<1>5. \A m : Later(m)' = Later(m)
  BY DEF Later
<1>6. PromiseHolds(s)'
  BY <1>1, <1>2, <1>3, <1>5 DEF PromiseHolds, Promised
<1>7. \A t \in Staff \ {s} : PromiseHolds(t)'
  BY <1>1, <1>2, <1>3, <1>5 DEF SyncInv, PromiseHolds, Promised
<1> QED
  BY <1>4, <1>6, <1>7 DEF SyncInv

LEMMA EndedIs ==
  ASSUME NEW out \in {"idle", "success", "failed"}
  PROVE  H!Ended(out) \in SyncStates /\ H!Ended(out).at = out
<1>1. 0 \in 0..(Cardinality(Records) + PageSize) /\ 0 \in 0..(MaxRetries - 1)
  <2>1. Cardinality(Records) \in Nat
    BY SyncAssumption, FS_CardinalityType
  <2> QED
    BY <2>1, SyncAssumption
<1> QED
  BY <1>1 DEF H!Ended, SyncStates

\* What is published comes between: no month gets fewer records after it.
LEMMA PublishKeeps ==
  ASSUME SyncInv, NEW r \in Records, H!Publish(r)
  PROVE  SyncInv'
<1>1. published' = published \cup {r} /\ UNCHANGED <<held, sync, promised, cut>>
  BY DEF H!Publish
<1>2. SyncType /\ SyncType'
  BY <1>1 DEF SyncInv, SyncType
<1>3. ASSUME NEW m
      PROVE  /\ Cardinality(Later(m)) \in Nat /\ Cardinality(Later(m)') \in Nat
             /\ Cardinality(Later(m)) <= Cardinality(Later(m)')
  <2>1. Later(m) \subseteq Later(m)' /\ Later(m)' \subseteq Records
    BY <1>1, <1>2 DEF Later, SyncType
  <2>2. IsFiniteSet(Later(m)')
    BY <2>1, SyncAssumption, FS_Subset
  <2> QED
    BY <2>1, <2>2, FS_Subset, FS_CardinalityType
<1>4. ASSUME NEW s \in Staff PROVE PromiseHolds(s)'
  <2>1. PromiseHolds(s) /\ sync[s] \in SyncStates
    BY <1>2 DEF SyncInv, SyncType
  <2>2. PICK o \in Nat : o = sync[s].offset
    <3>1. Cardinality(Records) + PageSize \in Nat
      BY SyncAssumption, FS_CardinalityType
    <3> QED
      BY <2>1, <3>1 DEF SyncStates
  <2>3. ASSUME sync[s].at = "fetch", NEW p \in promised[s], p \notin held, p[1] \notin cut[s]
        PROVE  Cardinality(Later(p[1])') >= o
    <3>1. Cardinality(Later(p[1])) >= o
      BY <2>1, <2>2, <2>3 DEF PromiseHolds, Promised
    <3>2. PICK a, b \in Nat : /\ a = Cardinality(Later(p[1]))
                              /\ b = Cardinality(Later(p[1])') /\ a <= b
      BY <1>3
    <3> QED
      BY <3>1, <3>2
  <2> QED
    BY <1>1, <2>1, <2>2, <2>3 DEF PromiseHolds, Promised
<1> QED
  BY <1>2, <1>4 DEF SyncInv

LEMMA SyncStartKeeps ==
  ASSUME SyncInv, NEW s \in Staff, H!SyncStart(s)
  PROVE  SyncInv'
<1>1. SyncType /\ UNCHANGED <<published, held>>
  BY DEF SyncInv, H!SyncStart
<1>2. PICK M \in SUBSET Months : M = {} /\ cut' = [cut EXCEPT ![s] = M]
  BY DEF H!SyncStart
<1>3. CASE held = {}
  <2>1. sync' = [sync EXCEPT ![s] = H!Ended("success")] /\ promised' = [promised EXCEPT ![s] = {}]
    BY <1>3 DEF H!SyncStart
  <2>2. PICK x \in SyncStates : x = H!Ended("success") /\ x.at = "success"
    BY EndedIs
  <2>3. sync' = [sync EXCEPT ![s] = x]
    BY <2>1, <2>2
  <2>4. held' = held /\ held \subseteq published /\ published' = published
    BY <1>1 DEF SyncType
  <2>5. PICK P \in SUBSET Records : P = {} /\ promised' = [promised EXCEPT ![s] = P]
    BY <2>1
  <2> QED
    BY <1>2, <2>2, <2>3, <2>4, <2>5, SyncBecomes DEF Promised
<1>4. CASE held # {}
  <2>1. PICK h \in held : H!LatestMonth = h[1]
    BY <1>1, <1>4, LatestIsHeld DEF SyncType
  <2>2. PICK m \in {r[1] : r \in Records} : m = H!LatestMonth
    BY <1>1, <2>1 DEF SyncType
  <2>3. PICK P \in SUBSET Records : P = {r \in published : r[1] > m}
    BY <1>1 DEF SyncType
  <2>4. PICK x : x = [at |-> "fetch", latest |-> m, offset |-> 0, tries |-> 0]
    OBVIOUS
  <2>5. x \in SyncStates /\ x.at = "fetch" /\ x.latest = m /\ x.offset = 0
    <3>1. 0 \in 0..(Cardinality(Records) + PageSize) /\ 0 \in 0..(MaxRetries - 1)
      <4>1. Cardinality(Records) \in Nat
        BY SyncAssumption, FS_CardinalityType
      <4> QED
        BY <4>1, SyncAssumption
    <3> QED
      BY <2>4, <3>1 DEF SyncStates
  <2>6. sync' = [sync EXCEPT ![s] = x] /\ promised' = [promised EXCEPT ![s] = P]
    BY <1>4, <2>2, <2>3, <2>4 DEF H!SyncStart, H!Month
  <2>7. \A p \in P : /\ p \in published /\ p[1] > x.latest
                     /\ Cardinality(Later(p[1])) >= x.offset
    <3> SUFFICES ASSUME NEW p \in P
                 PROVE  /\ p \in published /\ p[1] > x.latest
                        /\ Cardinality(Later(p[1])) >= x.offset
      OBVIOUS
    <3>1. p \in published /\ p[1] > m
      BY <2>3
    <3>2. Cardinality(Later(p[1])) \in Nat
      BY <1>1, RecordsFew DEF SyncType, Later
    <3> QED
      BY <2>5, <3>1, <3>2
  <2>8. held' = held /\ held \subseteq published /\ published' = published
    BY <1>1 DEF SyncType
  <2>9. Promised(x, P, held', M)
    BY <2>5, <2>7 DEF Promised
  <2> QED
    BY <1>2, <2>5, <2>6, <2>8, <2>9, SyncBecomes
<1> QED
  BY <1>3, <1>4

\* What a page did not bring is of a month it cut, or comes after it; where the run ends,
\* nothing does.
LEMMA FetchKeeps ==
  ASSUME SyncInv, NEW s \in Staff, H!FetchPage(s)
  PROVE  SyncInv'
<1>1. SyncType /\ PromiseHolds(s) /\ sync[s] \in SyncStates /\ sync[s].at = "fetch"
  BY DEF SyncInv, SyncType, H!FetchPage
<1>2. PICK o \in Nat : o = sync[s].offset
  <2>1. Cardinality(Records) + PageSize \in Nat
    BY SyncAssumption, FS_CardinalityType
  <2> QED
    BY <1>1, <2>1 DEF SyncStates
<1>3. PICK next \in Nat : next = o + PageSize
  BY SyncAssumption
<1>4. PICK page \in H!Pages(o), newer \in SUBSET published :
        /\ newer = {r \in page : r[1] > sync[s].latest}
        /\ held' = held \cup newer /\ UNCHANGED <<published, promised>>
        /\ cut' = [cut EXCEPT ![s] = cut[s] \cup H!CutBy(page)]
        /\ sync' = [sync EXCEPT ![s] = IF newer # {} /\ H!HasMore(next)
                                       THEN [sync[s] EXCEPT !.offset = next, !.tries = 0]
                                       ELSE H!Ended("success")]
  <2>1. PICK page \in H!Pages(o) :
          /\ held' = held \cup {r \in page : r[1] > sync[s].latest} /\ UNCHANGED <<published, promised>>
          /\ cut' = [cut EXCEPT ![s] = cut[s] \cup H!CutBy(page)]
          /\ sync' = [sync EXCEPT ![s] =
                        IF {r \in page : r[1] > sync[s].latest} # {} /\ H!HasMore(next)
                        THEN [sync[s] EXCEPT !.offset = next, !.tries = 0]
                        ELSE H!Ended("success")]
    BY <1>2, <1>3 DEF H!FetchPage, H!Month
  <2>2. {r \in page : r[1] > sync[s].latest} \in SUBSET published
    BY DEF H!Pages, H!Firsts
  <2> QED
    BY <2>1, <2>2
<1>5. page \subseteq published
  BY <1>4 DEF H!Pages, H!Firsts
<1>6. promised[s] \in SUBSET Records /\ promised' = [promised EXCEPT ![s] = promised[s]]
  BY <1>1, <1>4 DEF SyncType
<1>7. held \subseteq held' /\ held' \subseteq published
  BY <1>1, <1>4, <1>5 DEF SyncType
<1>8. PICK M \in SUBSET Months :
        M = cut[s] \cup H!CutBy(page) /\ cut' = [cut EXCEPT ![s] = M]
  <2>1. H!CutBy(page) \subseteq Months
    BY <1>1, <1>5 DEF H!CutBy, H!Month, SyncType, Months
  <2>2. cut[s] \subseteq Months
    BY <1>1 DEF SyncType
  <2> QED
    BY <1>4, <2>1, <2>2
<1>9. \A p \in promised[s] : p \in published /\ p[1] > sync[s].latest
  BY <1>1 DEF PromiseHolds, Promised
<1>10. ASSUME NEW p \in promised[s], p \notin held', p[1] \notin M
       PROVE  /\ Cardinality(Later(p[1])) >= next /\ next < Cardinality(published)
              /\ \E r \in page : r[1] > p[1]
  <2>1. Cardinality(Later(p[1])) >= o
    BY <1>1, <1>2, <1>4, <1>8, <1>10 DEF PromiseHolds, Promised
  <2>2. p \notin page
    BY <1>4, <1>9, <1>10
  <2>3. \A r \in page : r[1] # p[1]
    BY <1>5, <1>8, <1>9, <1>10, <2>2 DEF H!CutBy, H!Month
  <2> QED
    BY <1>1, <1>3, <1>9, <2>1, <2>3, PageTurned DEF SyncType
<1>11. H!HasMore(next) <=> next < Cardinality(published)
  BY SameCountH DEF H!HasMore
<1>12. CASE newer # {} /\ H!HasMore(next)
  <2>1. PICK x : x = [sync[s] EXCEPT !.offset = next, !.tries = 0]
    OBVIOUS
  <2>2. x \in SyncStates /\ x.at = "fetch" /\ x.latest = sync[s].latest /\ x.offset = next
    <3>1. next \in 0..(Cardinality(Records) + PageSize) /\ 0 \in 0..(MaxRetries - 1)
      <4>1. PICK a, b \in Nat : a = Cardinality(published) /\ b = Cardinality(Records) /\ a <= b
        BY <1>1, RecordsFew DEF SyncType
      <4> QED
        BY <1>11, <1>12, <4>1, SyncAssumption
    <3> QED
      BY <1>1, <2>1, <3>1 DEF SyncStates
  <2>3. sync' = [sync EXCEPT ![s] = x]
    BY <1>4, <1>12, <2>1
  <2>4. Promised(x, promised[s], held', M)
    BY <1>9, <1>10, <2>2 DEF Promised
  <2> QED
    BY <1>4, <1>6, <1>7, <1>8, <2>2, <2>3, <2>4, SyncBecomes
<1>13. CASE ~(newer # {} /\ H!HasMore(next))
  <2>1. PICK x \in SyncStates : x = H!Ended("success") /\ x.at = "success"
    BY EndedIs
  <2>2. sync' = [sync EXCEPT ![s] = x]
    BY <1>4, <1>13, <2>1
  <2>3. ASSUME NEW p \in promised[s], p \notin held', p[1] \notin M PROVE FALSE
    <3>1. next < Cardinality(published)
      BY <1>10, <2>3
    <3>2. PICK r \in page : r[1] > p[1]
      BY <1>10, <2>3
    <3>3. p[1] \in Nat /\ r[1] \in Nat /\ sync[s].latest \in Nat
      BY <1>1, <1>5, <1>9, SyncAssumption DEF SyncType, SyncStates
    <3>4. r \in newer
      BY <1>4, <1>9, <3>2, <3>3
    <3> QED
      BY <1>11, <1>13, <3>1, <3>4
  <2>4. Promised(x, promised[s], held', M)
    BY <2>1, <2>3 DEF Promised
  <2> QED
    BY <1>4, <1>6, <1>7, <1>8, <2>1, <2>2, <2>4, SyncBecomes
<1> QED
  BY <1>12, <1>13

LEMMA SyncEndsKeep ==
  ASSUME SyncInv, NEW s \in Staff, H!RetryFetch(s) \/ H!SyncFails(s) \/ H!SyncStops(s)
  PROVE  SyncInv'
<1>1. SyncType /\ PromiseHolds(s) /\ sync[s] \in SyncStates /\ UNCHANGED <<published, held>>
  BY DEF SyncInv, SyncType, H!RetryFetch, H!SyncFails, H!SyncStops
<1>2. held' = held /\ held \subseteq published /\ published' = published
  BY <1>1 DEF SyncType
<1>3. CASE H!RetryFetch(s)
  <2>1. sync[s].at = "fetch" /\ sync[s].tries + 1 < MaxRetries /\ promised' = promised /\ cut' = cut
        /\ sync' = [sync EXCEPT ![s].tries = sync[s].tries + 1]
    BY <1>3 DEF H!RetryFetch
  <2>2. PICK n : n = sync[s].tries + 1
    OBVIOUS
  <2>3. n \in 0..(MaxRetries - 1)
    BY <1>1, <2>1, <2>2, SyncAssumption DEF SyncStates
  <2>4. PICK x : x = [sync[s] EXCEPT !.tries = n]
    OBVIOUS
  <2>5. x \in SyncStates /\ x.at = "fetch" /\ x.latest = sync[s].latest /\ x.offset = sync[s].offset
    BY <1>1, <2>1, <2>3, <2>4 DEF SyncStates
  <2>6. sync' = [sync EXCEPT ![s] = x]
    BY <2>1, <2>2, <2>4
  <2>7. promised[s] \in SUBSET Records /\ promised' = [promised EXCEPT ![s] = promised[s]]
    BY <1>1, <2>1 DEF SyncType
  <2>8. cut[s] \in SUBSET Months /\ cut' = [cut EXCEPT ![s] = cut[s]]
    BY <1>1, <2>1 DEF SyncType
  <2>9. Promised(x, promised[s], held', cut[s])
    BY <1>1, <1>2, <2>1, <2>5 DEF PromiseHolds, Promised
  <2> QED
    BY <1>2, <2>5, <2>6, <2>7, <2>8, <2>9, SyncBecomes
<1>4. CASE H!SyncFails(s) \/ H!SyncStops(s)
  <2>1. PICK out \in {"idle", "failed"} : sync' = [sync EXCEPT ![s] = H!Ended(out)]
    BY <1>4 DEF H!SyncFails, H!SyncStops, H!Asleep
  <2>2. promised' = [promised EXCEPT ![s] = {}] /\ cut' = [cut EXCEPT ![s] = {}]
    BY <1>4 DEF H!SyncFails, H!SyncStops
  <2>3. PICK x \in SyncStates : x = H!Ended(out) /\ x.at = out
    BY EndedIs
  <2>4. sync' = [sync EXCEPT ![s] = x]
    BY <2>1, <2>3
  <2>5. Promised(x, {}, held', {})
    BY DEF Promised
  <2> QED
    BY <1>2, <2>2, <2>3, <2>4, <2>5, SyncBecomes
<1> QED
  BY <1>3, <1>4

LEMMA SyncInitHolds == H!HdbSyncInit => SyncInv
<1> SUFFICES ASSUME H!HdbSyncInit PROVE SyncInv
  OBVIOUS
<1>1. H!Asleep \in SyncStates /\ H!Asleep.at = "idle"
  BY EndedIs DEF H!Asleep
<1>2. SyncType
  BY <1>1, SyncAssumption DEF H!HdbSyncInit, SyncType, Months
<1>3. \A s \in Staff : sync[s].at = "idle"
  BY <1>1 DEF H!HdbSyncInit
<1> QED
  BY <1>2, <1>3 DEF SyncInv, PromiseHolds, Promised

LEMMA SyncNextHolds == SyncInv /\ [H!HdbSyncNext]_H!syncVars => SyncInv'
<1> SUFFICES ASSUME SyncInv, [H!HdbSyncNext]_H!syncVars PROVE SyncInv'
  OBVIOUS
<1>1. CASE UNCHANGED H!syncVars
  BY <1>1 DEF H!syncVars, SyncInv, SyncType, PromiseHolds, Promised, Later
<1>2. CASE H!HdbSyncNext
  BY <1>2, PublishKeeps, SyncStartKeeps, FetchKeeps, SyncEndsKeep DEF H!HdbSyncNext
<1> QED
  BY <1>1, <1>2

\* The copy of the resale transactions: a run that succeeded left out nothing that was
\* there for it when it started, whatever was published while it turned the pages, but for
\* records of a month that one of its pages was cut in.
THEOREM SyncFetchesAllKept == H!HdbSyncSpec => []SyncFetchesAll
<1>1. SyncInv => SyncFetchesAll
  <2> SUFFICES ASSUME SyncInv PROVE SyncFetchesAll
    OBVIOUS
  <2>1. SyncStates = [at : {"idle", "fetch", "success", "failed"},
                      latest : {H!Month(r) : r \in Records} \cup {0},
                      offset : 0..(H!Cardinality(Records) + PageSize),
                      tries : 0..(MaxRetries - 1)]
    BY SameCountH DEF SyncStates, H!Month
  <2>2. H!HdbSyncTypeOK
    BY <2>1 DEF SyncInv, SyncType, H!HdbSyncTypeOK
  <2> QED
    BY <2>2 DEF SyncInv, PromiseHolds, Promised, SyncFetchesAll, H!SyncFetchesAll, H!Month
<1> QED
  BY <1>1, SyncInitHolds, SyncNextHolds, PTL DEF H!HdbSyncSpec

-----------------------------------------------------------------------------
(* Lists.                                                                  *)

LEMMA ListElements ==
  ASSUME NEW S, NEW s \in Seq(S)
  PROVE  ToSet(s) \subseteq S /\ ToSet(s) = {s[i] : i \in 1..Len(s)} /\ Len(s) \in Nat
<1>1. DOMAIN s = 1..Len(s) /\ Len(s) \in Nat /\ \A i \in 1..Len(s) : s[i] \in S
  OBVIOUS
<1> QED
  BY <1>1 DEF ToSet

LEMMA ListWithin ==
  ASSUME NEW S, NEW T, NEW s \in Seq(S), ToSet(s) \subseteq T
  PROVE  s \in Seq(T)
<1>1. \A i \in 1..Len(s) : s[i] \in T
  BY ListElements
<1>2. s \in [1..Len(s) -> T] /\ Len(s) \in Nat
  BY <1>1
<1> QED
  BY <1>2, IsASeq

LEMMA EmptyList == ToSet(<<>>) = {}
BY DEF ToSet

LEMMA ListAppended ==
  ASSUME NEW S, NEW s \in Seq(S), NEW p \in S
  PROVE  Append(s, p) \in Seq(S) /\ ToSet(Append(s, p)) = ToSet(s) \cup {p}
<1>1. /\ Append(s, p) \in Seq(S) /\ Len(Append(s, p)) = Len(s) + 1 /\ Len(s) \in Nat
      /\ \A i \in 1..Len(s) : Append(s, p)[i] = s[i]
      /\ Append(s, p)[Len(s) + 1] = p
  OBVIOUS
<1>2. ToSet(s) = {s[i] : i \in 1..Len(s)}
      /\ ToSet(Append(s, p)) = {Append(s, p)[i] : i \in 1..(Len(s) + 1)}
  BY <1>1, ListElements
<1>3. ASSUME NEW x \in ToSet(Append(s, p)) PROVE x \in ToSet(s) \cup {p}
  <2>1. PICK i \in 1..(Len(s) + 1) : x = Append(s, p)[i]
    BY <1>2, <1>3
  <2>2. i \in 1..Len(s) \/ i = Len(s) + 1
    BY <1>1
  <2> QED
    BY <1>1, <1>2, <2>1, <2>2
<1>4. ASSUME NEW i \in 1..Len(s) PROVE s[i] \in ToSet(Append(s, p))
  <2>1. i \in 1..(Len(s) + 1) /\ Append(s, p)[i] = s[i]
    BY <1>1
  <2> QED
    BY <1>2, <2>1
<1>5. p \in ToSet(Append(s, p))
  <2>1. Len(s) + 1 \in 1..(Len(s) + 1)
    BY <1>1
  <2> QED
    BY <1>1, <1>2, <2>1
<1> QED
  BY <1>1, <1>2, <1>3, <1>4, <1>5

LEMMA ListShortened ==
  ASSUME NEW S, NEW s \in Seq(S), s # <<>>
  PROVE  /\ Head(s) \in ToSet(s) /\ Tail(s) \in Seq(S)
         /\ ToSet(s) = ToSet(Tail(s)) \cup {Head(s)}
<1>1. /\ Tail(s) \in Seq(S) /\ Len(Tail(s)) = Len(s) - 1 /\ Len(s) \in Nat /\ Len(s) > 0
      /\ \A i \in 1..(Len(s) - 1) : Tail(s)[i] = s[i + 1]
      /\ Head(s) = s[1]
  OBVIOUS
<1>2. ToSet(s) = {s[i] : i \in 1..Len(s)} /\ ToSet(Tail(s)) = {Tail(s)[i] : i \in 1..(Len(s) - 1)}
  BY <1>1, ListElements
<1>3. Head(s) \in ToSet(s)
  <2>1. 1 \in 1..Len(s)
    BY <1>1
  <2> QED
    BY <1>1, <1>2, <2>1
<1>4. ASSUME NEW x \in ToSet(s) PROVE x \in ToSet(Tail(s)) \cup {Head(s)}
  <2>1. PICK i \in 1..Len(s) : x = s[i]
    BY <1>2, <1>4
  <2>2. i = 1 \/ (i - 1 \in 1..(Len(s) - 1) /\ Tail(s)[i - 1] = s[i])
    BY <1>1
  <2> QED
    BY <1>1, <1>2, <2>1, <2>2
<1>5. ASSUME NEW x \in ToSet(Tail(s)) PROVE x \in ToSet(s)
  <2>1. PICK i \in 1..(Len(s) - 1) : x = Tail(s)[i]
    BY <1>2, <1>5
  <2>2. i + 1 \in 1..Len(s) /\ x = s[i + 1]
    BY <1>1, <2>1
  <2> QED
    BY <1>2, <2>2
<1> QED
  BY <1>1, <1>3, <1>4, <1>5

\* A list has no more elements than places.
LEMMA ListCounted ==
  ASSUME NEW S, NEW s \in Seq(S)
  PROVE  /\ IsFiniteSet(ToSet(s)) /\ Cardinality(ToSet(s)) \in Nat
         /\ Cardinality(ToSet(s)) <= Len(s)
<1>1. Len(s) \in Nat /\ ToSet(s) = {s[i] : i \in 1..Len(s)}
  BY ListElements
<1>2. IsFiniteSet(1..Len(s)) /\ Cardinality(1..Len(s)) = Len(s)
  <2>1. IsFiniteSet(1..Len(s)) /\ Cardinality(1..Len(s)) = IF 1 > Len(s) THEN 0 ELSE Len(s) - 1 + 1
    BY SMTT(30), <1>1, FS_Interval
  <2> QED
    BY <1>1, <2>1
<1>3. PICK f : f = [i \in 1..Len(s) |-> s[i]]
  OBVIOUS
<1>4. f \in Surjection(1..Len(s), ToSet(s))
  <2>1. f \in [1..Len(s) -> ToSet(s)]
    BY <1>1, <1>3
  <2>2. \A x \in ToSet(s) : \E i \in 1..Len(s) : f[i] = x
    BY <1>1, <1>3
  <2> QED
    BY <2>1, <2>2 DEF Surjection
<1>5. IsFiniteSet(ToSet(s)) /\ Cardinality(ToSet(s)) <= Cardinality(1..Len(s))
  BY <1>2, <1>4, FS_Surjection
<1> QED
  BY <1>2, <1>5, FS_CardinalityType

\* A recursive definition has a value: by the least length it had none for.
KeptUpTo(f, s, p, m) ==
  f = [n \in 0..m |-> IF n = 0 THEN <<>>
                      ELSE IF s[n] = p THEN f[n - 1] ELSE Append(f[n - 1], s[n])]

LEMMA KeptExists == ASSUME NEW s, NEW p, NEW m \in Nat PROVE \E f : KeptUpTo(f, s, p, m)
<1>1. PICK B : B = {k \in Nat : ~\E f : KeptUpTo(f, s, p, k)}
  OBVIOUS
<1> SUFFICES ASSUME B # {} PROVE FALSE
  BY <1>1
<1>a. B \in SUBSET Nat
  BY <1>1
<1>2. PICK k \in B : \A n \in B : k <= n
  BY <1>a, LeastNumber
<1>3. k # 0
  <2>1. KeptUpTo([n \in 0..0 |-> <<>>], s, p, 0)
    BY DEF KeptUpTo
  <2> QED
    BY <1>1, <1>2, <2>1
<1>4. k \in Nat /\ k - 1 \in Nat /\ k - 1 \notin B
  BY <1>a, <1>2, <1>3
<1>5. PICK f : KeptUpTo(f, s, p, k - 1)
  BY <1>1, <1>4
<1>6. PICK g : g = [n \in 0..k |-> IF n < k THEN f[n]
                                   ELSE IF s[k] = p THEN f[k - 1] ELSE Append(f[k - 1], s[k])]
  OBVIOUS
<1>7. \A n \in 0..(k - 1) : g[n] = f[n]
  BY <1>4, <1>6
<1>8. ASSUME NEW n \in 0..k
      PROVE  g[n] = IF n = 0 THEN <<>> ELSE IF s[n] = p THEN g[n - 1] ELSE Append(g[n - 1], s[n])
  <2>1. CASE n = k
    BY <1>3, <1>4, <1>6, <1>7, <2>1
  <2>2. CASE n # k
    <3>1. n \in 0..(k - 1) /\ (n # 0 => n - 1 \in 0..(k - 1))
      BY <1>4, <2>2
    <3>2. f[n] = IF n = 0 THEN <<>> ELSE IF s[n] = p THEN f[n - 1] ELSE Append(f[n - 1], s[n])
      BY <1>5, <3>1 DEF KeptUpTo
    <3> QED
      BY <1>7, <3>1, <3>2
  <2> QED
    BY <2>1, <2>2
<1>9. KeptUpTo(g, s, p, k)
  <2>1. g = [n \in 0..k |-> g[n]]
    BY <1>6
  <2> QED
    BY <1>8, <2>1 DEF KeptUpTo
<1> QED
  BY <1>1, <1>2, <1>9

LEMMA WithoutIs ==
  ASSUME NEW S, NEW s \in Seq(S), NEW p
  PROVE  Without(s, p) \in Seq(S) /\ ToSet(Without(s, p)) = ToSet(s) \ {p}
<1>1. Len(s) \in Nat /\ ToSet(s) = {s[i] : i \in 1..Len(s)} /\ \A i \in 1..Len(s) : s[i] \in S
  BY ListElements
<1>2. PICK f : /\ f = [n \in 0..Len(s) |-> IF n = 0 THEN <<>>
                                ELSE IF s[n] = p THEN f[n - 1] ELSE Append(f[n - 1], s[n])]
               /\ Without(s, p) = f[Len(s)]
  <2>1. \E f : f = [n \in 0..Len(s) |-> IF n = 0 THEN <<>>
                                ELSE IF s[n] = p THEN f[n - 1] ELSE Append(f[n - 1], s[n])]
    <3>1. \E f : KeptUpTo(f, s, p, Len(s))
      BY <1>1, KeptExists
    <3> QED
      BY <3>1 DEF KeptUpTo
  <2>2. PICK k : k = CHOOSE f : f = [n \in 0..Len(s) |-> IF n = 0 THEN <<>>
                                ELSE IF s[n] = p THEN f[n - 1] ELSE Append(f[n - 1], s[n])]
    OBVIOUS
  <2>3. k = [n \in 0..Len(s) |-> IF n = 0 THEN <<>>
                                ELSE IF s[n] = p THEN k[n - 1] ELSE Append(k[n - 1], s[n])]
    BY <2>1, <2>2
  <2>4. Without(s, p) = k[Len(s)]
    BY <2>2 DEF Without
  <2> QED
    BY <2>3, <2>4
<1>3. PICK B : B = {n \in 0..Len(s) : ~(/\ f[n] \in Seq(S)
                                       /\ ToSet(f[n]) = {s[i] : i \in 1..n} \ {p})}
  OBVIOUS
<1>4. B = {}
  <2> SUFFICES ASSUME B # {} PROVE FALSE
    OBVIOUS
  <2>1. B \in SUBSET Nat
    BY <1>3
  <2>2. PICK k \in B : \A n \in B : k <= n
    BY <2>1, LeastNumber
  <2>3. k \in 0..Len(s)
    BY <1>3
  <2>4. k # 0
    <3>1. f[0] = <<>> /\ {s[i] : i \in 1..0} = {}
      BY <1>1, <1>2
    <3>2. f[0] \in Seq(S) /\ ToSet(f[0]) = {s[i] : i \in 1..0} \ {p}
      BY <3>1, EmptyList
    <3> QED
      BY <1>1, <1>3, <3>2
  <2>5. k - 1 \in 0..Len(s) /\ k \in 1..Len(s) /\ k - 1 \notin B
    BY <1>1, <2>1, <2>2, <2>3, <2>4
  <2>6. f[k - 1] \in Seq(S) /\ ToSet(f[k - 1]) = {s[i] : i \in 1..(k - 1)} \ {p}
    BY <1>3, <2>5
  <2>7. f[k] = IF s[k] = p THEN f[k - 1] ELSE Append(f[k - 1], s[k])
    BY <1>2, <2>3, <2>4
  <2>8. s[k] \in S
    BY <1>1, <2>5
  <2>9. f[k] \in Seq(S) /\ ToSet(f[k]) = IF s[k] = p THEN ToSet(f[k - 1]) ELSE ToSet(f[k - 1]) \cup {s[k]}
    <3>1. Append(f[k - 1], s[k]) \in Seq(S) /\ ToSet(Append(f[k - 1], s[k])) = ToSet(f[k - 1]) \cup {s[k]}
      <4>1. PICK t \in Seq(S), x \in S : t = f[k - 1] /\ x = s[k]
        BY <2>6, <2>8
      <4> QED
        BY <4>1, ListAppended
    <3>2. CASE s[k] = p
      BY <2>6, <2>7, <3>2
    <3>3. CASE s[k] # p
      BY <2>7, <3>1, <3>3
    <3> QED
      BY <3>2, <3>3
  <2>10. {s[i] : i \in 1..k} = {s[i] : i \in 1..(k - 1)} \cup {s[k]}
    <3>1. \A i : i \in 1..k <=> i \in 1..(k - 1) \/ i = k
      BY <1>1, <2>5
    <3> QED
      BY <3>1
  <2>11. f[k] \in Seq(S) /\ ToSet(f[k]) = {s[i] : i \in 1..k} \ {p}
    BY <2>6, <2>9, <2>10
  <2> QED
    BY <1>3, <2>2, <2>11
<1>5. Len(s) \in 0..Len(s)
  BY <1>1
<1>6. f[Len(s)] \in Seq(S) /\ ToSet(f[Len(s)]) = {s[i] : i \in 1..Len(s)} \ {p}
  BY <1>3, <1>4, <1>5
<1> QED
  BY <1>1, <1>2, <1>6

-----------------------------------------------------------------------------
(* The photos of a listing.                                                *)

PhotoOps == {"idle", "scan", "optimise", "add", "append", "unlink", "unlinkOptimized",
             "shorten", "order", "clear", "clearOriginal"}

Uploading == {"scan", "optimise", "add", "append"}

Removing == {"unlink", "unlinkOptimized", "shorten"}

PhotoCalls == [op : PhotoOps, listing : Listings \cup {NoListing},
               photo : Photos \cup {NoPhoto}, list : Seq(Photos)]

PhotoType ==
  /\ photos \in [Listings -> Seq(Photos)] /\ active \subseteq Listings /\ deleted \subseteq Listings
  /\ uploaded \subseteq Photos /\ originals \subseteq uploaded /\ optimized \subseteq uploaded
  /\ req \in [PhotoRequests -> PhotoCalls]
  /\ contended \subseteq Listings /\ abandoned \subseteq Listings

\* The photos a request in state x has in its hands.
InHands(x) == ToSet(x.list) \cup ({x.photo} \ {NoPhoto})

\* The photos of listing l, in its list or in a request's hands.
Of(l) == Listed(l) \cup UNION {InHands(req[r]) : r \in {q \in PhotoRequests : req[q].listing = l}}

\* A request at rest has nothing; one that will write a list has few enough on it.
PhotoCallFits(r) ==
  /\ req[r].op = "idle" <=> req[r] = Idle
  /\ req[r].op # "idle" => req[r].listing \in Listings
  /\ req[r].op \in Uploading \cup Removing => req[r].photo \in Photos
  /\ req[r].op \in Removing \cup {"append", "order"} => Cardinality(ToSet(req[r].list)) <= MAX_PHOTOS
  /\ req[r].op = "clearOriginal" => req[r].list # <<>>

\* What a request alone on listing l holds of its list.
Follows(r, l) ==
  /\ req[r].op \in Uploading =>
       /\ req[r].photo \notin Listed(l)
       /\ l \in active \/ req[r].op = "append" =>
            \A q \in Listed(l) : HashOf[q] # HashOf[req[r].photo]
  /\ req[r].op = "append" => ToSet(req[r].list) = Listed(l) \cup {req[r].photo}
  /\ req[r].op \in Removing => ToSet(req[r].list) = Listed(l) \ {req[r].photo}
  /\ req[r].op = "unlinkOptimized" => req[r].photo \notin originals
  /\ req[r].op = "shorten" => req[r].photo \notin originals \cup optimized
  /\ req[r].op = "order" => ToSet(req[r].list) = Listed(l)
  /\ req[r].op \in {"clear", "clearOriginal"} =>
       \A p \in Listed(l) : p \in ToSet(req[r].list) \/ p \notin originals \cup optimized
  /\ req[r].op = "clearOriginal" => Head(req[r].list) \notin optimized

\* The files of a photo uploaded come with it, and those of one removed go alone.
FilesFollow(r, l) ==
  /\ req[r].op \in {"optimise", "add", "append"} => req[r].photo \in originals
  /\ req[r].op \in {"add", "append"} => req[r].photo \in optimized
  /\ req[r].op \in {"unlinkOptimized", "shorten"} =>
       Listed(l) \ {req[r].photo} \subseteq originals \cap optimized

\* Unless a request died at its files, what is listed has both of its own.
FilesHold(l) ==
  /\ Undisturbed(l) => Listed(l) \subseteq originals \cap optimized
  /\ \A r \in PhotoRequests : req[r].listing = l => FilesFollow(r, l)

ListHolds(l) ==
  /\ Cardinality(Listed(l)) <= MAX_PHOTOS
  /\ l \notin contended =>
       /\ \A r, q \in PhotoRequests : req[r].listing = l /\ req[q].listing = l => r = q
       /\ \A p, q \in Listed(l) : HashOf[p] = HashOf[q] => p = q
       /\ \A r \in PhotoRequests : req[r].listing = l => Follows(r, l)
       /\ l \notin abandoned => FilesHold(l)

PhotoInv ==
  /\ PhotoType
  /\ \A l \in Listings : Of(l) \subseteq uploaded
  /\ \A l, m \in Listings : l # m => Of(l) \cap Of(m) = {}
  /\ \A r \in PhotoRequests : PhotoCallFits(r)
  /\ \A l \in Listings : ListHolds(l)

LEMMA IdleIs == Idle \in PhotoCalls /\ Idle.op = "idle" /\ Idle.listing = NoListing /\ InHands(Idle) = {}
BY EmptyList DEF Idle, PhotoCalls, PhotoOps, InHands

LEMMA StateIs ==
  ASSUME NEW op \in PhotoOps, NEW l \in Listings, NEW p \in Photos \cup {NoPhoto}, NEW s \in Seq(Photos)
  PROVE  \E x \in PhotoCalls : /\ x = [op |-> op, listing |-> l, photo |-> p, list |-> s]
                               /\ x.op = op /\ x.listing = l /\ x.photo = p /\ x.list = s
<1>1. [op |-> op, listing |-> l, photo |-> p, list |-> s] \in PhotoCalls
  BY DEF PhotoCalls
<1> QED
  BY <1>1

LEMMA InHandsIsOf ==
  ASSUME NEW r \in PhotoRequests, NEW l \in Listings, req[r].listing = l
  PROVE  InHands(req[r]) \subseteq Of(l)
BY DEF Of

\* What request r does to a list or to files of listing l does not concern another's.
LEMMA OtherListing ==
  ASSUME PhotoInv, NEW r \in PhotoRequests, NEW l \in Listings, NEW m \in Listings \ {l},
         \A q \in PhotoRequests \ {r} : req'[q] = req[q],
         req[r].listing # m, req'[r].listing # m,
         photos'[m] = photos[m], m \in active' <=> m \in active,
         \A p \in uploaded \ Of(l) : /\ p \in originals' <=> p \in originals
                                     /\ p \in optimized' <=> p \in optimized,
         contended \subseteq contended', abandoned \subseteq abandoned'
  PROVE  Of(m)' = Of(m) /\ ListHolds(m)'
<1>1. Listed(m)' = Listed(m)
  BY DEF Listed
<1>2. \A q \in PhotoRequests : req'[q].listing = m <=> req[q].listing = m
  OBVIOUS
<1>3. \A q \in PhotoRequests : req[q].listing = m => req'[q] = req[q]
  OBVIOUS
<1>4. Of(m)' = Of(m)
  <2>1. ASSUME NEW z PROVE z \in Of(m)' <=> z \in Of(m)
    <3>1. z \in Of(m)' <=> z \in Listed(m)' \/ \E q \in PhotoRequests : req'[q].listing = m /\ z \in InHands(req'[q])
      BY DEF Of, InHands
    <3>2. z \in Of(m) <=> z \in Listed(m) \/ \E q \in PhotoRequests : req[q].listing = m /\ z \in InHands(req[q])
      BY DEF Of
    <3> QED
      BY <1>1, <1>2, <1>3, <3>1, <3>2
  <2>2. PICK A, B : A = Of(m)' /\ B = Of(m)
    OBVIOUS
  <2>3. \A z : z \in A <=> z \in B
    BY <2>1, <2>2
  <2> QED
    BY <2>2, <2>3
<1>5. \A p \in Of(m) : /\ p \in originals' <=> p \in originals
                       /\ p \in optimized' <=> p \in optimized
  <2>1. \A p \in Of(m) : p \in uploaded \ Of(l)
    BY DEF PhotoInv
  <2> QED
    BY <2>1
<1>6. Listed(m) \subseteq Of(m)
  BY DEF Of
<1>7. ASSUME NEW q \in PhotoRequests, req[q].listing = m
      PROVE  /\ Follows(q, m) => Follows(q, m)'
             /\ FilesFollow(q, m) => FilesFollow(q, m)'
  <2>1. req'[q] = req[q] /\ InHands(req[q]) \subseteq Of(m) /\ req[q] \in PhotoCalls /\ PhotoCallFits(q)
    BY <1>3, <1>7, InHandsIsOf DEF PhotoInv, PhotoType
  <2>2. req[q].photo \in Photos => req[q].photo \in Of(m)
    BY <2>1, PhotoAssumption DEF InHands
  <2>3. req[q].op = "clearOriginal" => Head(req[q].list) \in Of(m)
    <3>1. req[q].op = "clearOriginal" => req[q].list # <<>> /\ req[q].list \in Seq(Photos)
      BY <2>1 DEF PhotoCallFits, PhotoCalls
    <3>2. req[q].op = "clearOriginal" => Head(req[q].list) \in ToSet(req[q].list)
      BY <3>1, ListShortened
    <3> QED
      BY <2>1, <3>2 DEF InHands
  <2>4. Follows(q, m) => Follows(q, m)'
    <3> SUFFICES ASSUME Follows(q, m) PROVE Follows(q, m)'
      OBVIOUS
    <3>1. req[q].op \in Uploading =>
            /\ req[q].photo \notin Listed(m)
            /\ m \in active' \/ req[q].op = "append" =>
                 \A p \in Listed(m) : HashOf[p] # HashOf[req[q].photo]
      BY DEF Follows
    <3>2. /\ req[q].op = "append" => ToSet(req[q].list) = Listed(m) \cup {req[q].photo}
          /\ req[q].op \in Removing => ToSet(req[q].list) = Listed(m) \ {req[q].photo}
          /\ req[q].op = "order" => ToSet(req[q].list) = Listed(m)
      BY DEF Follows
    <3>3. /\ req[q].op = "unlinkOptimized" => req[q].photo \notin originals'
          /\ req[q].op = "shorten" => req[q].photo \notin originals' \cup optimized'
      <4>1. req[q].op \in {"unlinkOptimized", "shorten"} => req[q].photo \in Of(m)
        BY <2>1, <2>2 DEF PhotoCallFits, Removing
      <4>2. /\ req[q].op = "unlinkOptimized" => req[q].photo \notin originals
            /\ req[q].op = "shorten" => req[q].photo \notin originals \cup optimized
        BY DEF Follows
      <4> QED
        BY <1>5, <4>1, <4>2
    <3>4. req[q].op \in {"clear", "clearOriginal"} =>
            \A p \in Listed(m) : p \in ToSet(req[q].list) \/ p \notin originals' \cup optimized'
      <4>1. req[q].op \in {"clear", "clearOriginal"} =>
              \A p \in Listed(m) : p \in ToSet(req[q].list) \/ p \notin originals \cup optimized
        BY DEF Follows
      <4> QED
        BY <1>5, <1>6, <4>1
    <3>5. req[q].op = "clearOriginal" => Head(req[q].list) \notin optimized'
      <4>1. req[q].op = "clearOriginal" => Head(req[q].list) \notin optimized
        BY DEF Follows
      <4> QED
        BY <1>5, <2>3, <4>1
    <3> QED
      BY <1>1, <2>1, <3>1, <3>2, <3>3, <3>4, <3>5 DEF Follows
  <2>5. FilesFollow(q, m) => FilesFollow(q, m)'
    <3> SUFFICES ASSUME FilesFollow(q, m) PROVE FilesFollow(q, m)'
      OBVIOUS
    <3>1. /\ req[q].op \in {"optimise", "add", "append"} => req[q].photo \in originals'
          /\ req[q].op \in {"add", "append"} => req[q].photo \in optimized'
      <4>1. req[q].op \in {"optimise", "add", "append"} => req[q].photo \in Of(m)
        BY <2>1, <2>2 DEF PhotoCallFits, Uploading
      <4>2. /\ req[q].op \in {"optimise", "add", "append"} => req[q].photo \in originals
            /\ req[q].op \in {"add", "append"} => req[q].photo \in optimized
        BY DEF FilesFollow
      <4> QED
        BY <1>5, <4>1, <4>2
    <3>2. req[q].op \in {"unlinkOptimized", "shorten"} =>
            Listed(m) \ {req[q].photo} \subseteq originals' \cap optimized'
      BY <1>5, <1>6 DEF FilesFollow
    <3> QED
      BY <1>1, <2>1, <3>1, <3>2 DEF FilesFollow
  <2> QED
    BY <2>4, <2>5
<1>8. ListHolds(m)
  BY DEF PhotoInv
<1>9. Undisturbed(m)' <=> Undisturbed(m)
  BY <1>2, <1>3 DEF Undisturbed
<1>10. FilesHold(m) => FilesHold(m)'
  <2> SUFFICES ASSUME FilesHold(m) PROVE FilesHold(m)'
    OBVIOUS
  <2>1. Undisturbed(m)' => Listed(m)' \subseteq originals' \cap optimized'
    BY <1>1, <1>5, <1>6, <1>9 DEF FilesHold
  <2>2. \A q \in PhotoRequests : req'[q].listing = m => FilesFollow(q, m)'
    BY <1>2, <1>7 DEF FilesHold
  <2> QED
    BY <2>1, <2>2 DEF FilesHold
<1>11. ListHolds(m)'
  <2>1. Cardinality(Listed(m)') <= MAX_PHOTOS
    BY <1>1, <1>8 DEF ListHolds
  <2>2. ASSUME m \notin contended'
        PROVE  /\ \A q, o \in PhotoRequests : req'[q].listing = m /\ req'[o].listing = m => q = o
               /\ \A p, q \in Listed(m)' : HashOf[p] = HashOf[q] => p = q
               /\ \A q \in PhotoRequests : req'[q].listing = m => Follows(q, m)'
               /\ m \notin abandoned' => FilesHold(m)'
    <3>1. m \notin contended
      BY <2>2
    <3> QED
      BY <1>1, <1>2, <1>7, <1>8, <1>10, <3>1 DEF ListHolds
  <2> QED
    BY <2>1, <2>2 DEF ListHolds
<1> QED
  BY <1>4, <1>11

\* Request r goes on, or ends, and leaves listing l with the list L.
LEMMA PhotoMoves ==
  ASSUME PhotoInv, NEW r \in PhotoRequests, NEW l \in Listings, req[r].listing \in {l, NoListing},
         NEW x \in PhotoCalls, req' = [req EXCEPT ![r] = x], x.listing \in {l, NoListing},
         NEW L \in Seq(Photos), photos' = [photos EXCEPT ![l] = L],
         active' \subseteq Listings, active' \ {l} = active \ {l},
         deleted' \subseteq Listings, uploaded \subseteq uploaded', uploaded' \subseteq Photos,
         originals' \subseteq uploaded', optimized' \subseteq uploaded',
         \A p \in uploaded \ Of(l) : /\ p \in originals' <=> p \in originals
                                     /\ p \in optimized' <=> p \in optimized,
         contended \subseteq contended', contended' \subseteq Listings,
         abandoned \subseteq abandoned', abandoned' \subseteq Listings,
         ToSet(L) \cup InHands(x) \subseteq Of(l) \cup (uploaded' \ uploaded),
         PhotoCallFits(r)', Cardinality(ToSet(L)) <= MAX_PHOTOS,
         l \notin contended' =>
           /\ \A q \in PhotoRequests \ {r} : req[q].listing # l
           /\ \A p, q \in ToSet(L) : HashOf[p] = HashOf[q] => p = q
           /\ x.listing = l => Follows(r, l)'
           /\ l \notin abandoned' =>
                /\ (x.listing = l => x.op \notin Deleting) => ToSet(L) \subseteq originals' \cap optimized'
                /\ x.listing = l => FilesFollow(r, l)'
  PROVE  PhotoInv'
<1>1. PhotoType /\ l # NoListing /\ \A m \in Listings : m # NoListing
  BY PhotoAssumption DEF PhotoInv
<1>2. /\ req' \in [PhotoRequests -> PhotoCalls] /\ req'[r] = x
      /\ \A q \in PhotoRequests \ {r} : req'[q] = req[q]
  BY <1>1 DEF PhotoType
<1>3. /\ photos' \in [Listings -> Seq(Photos)] /\ photos'[l] = L
      /\ \A m \in Listings \ {l} : photos'[m] = photos[m]
  BY <1>1 DEF PhotoType
<1>4. PhotoType'
  BY <1>1, <1>2, <1>3 DEF PhotoType
<1>5. \A m \in Listings \ {l} : Of(m)' = Of(m) /\ ListHolds(m)'
  <2> SUFFICES ASSUME NEW m \in Listings \ {l} PROVE Of(m)' = Of(m) /\ ListHolds(m)'
    OBVIOUS
  <2>1. req[r].listing # m /\ req'[r].listing # m /\ photos'[m] = photos[m]
        /\ (m \in active' <=> m \in active)
    BY <1>1, <1>2, <1>3
  <2> QED
    BY <1>2, <2>1, OtherListing
<1>6. Listed(l)' = ToSet(L)
  BY <1>3 DEF Listed
<1>7. Of(l)' \subseteq Of(l) \cup (uploaded' \ uploaded)
  <2> SUFFICES ASSUME NEW z \in Of(l)' PROVE z \in Of(l) \cup (uploaded' \ uploaded)
    OBVIOUS
  <2>1. z \in Listed(l)' \/ \E q \in PhotoRequests : req'[q].listing = l /\ z \in InHands(req'[q])
    BY DEF Of, InHands
  <2>2. \A q \in PhotoRequests \ {r} : req[q].listing = l => InHands(req'[q]) \subseteq Of(l)
    BY <1>2, InHandsIsOf
  <2> QED
    BY <1>2, <1>6, <2>1, <2>2
<1>8. \A m \in Listings : Of(m)' \subseteq uploaded'
  BY <1>5, <1>7 DEF PhotoInv
<1>9. \A m, n \in Listings : m # n => Of(m)' \cap Of(n)' = {}
  <2>1. \A m \in Listings \ {l} : Of(m) \cap (Of(l) \cup (uploaded' \ uploaded)) = {}
    BY DEF PhotoInv
  <2>2. \A m, n \in Listings \ {l} : m # n => Of(m)' \cap Of(n)' = {}
    BY <1>5 DEF PhotoInv
  <2>3. \A m \in Listings \ {l} : Of(m)' \cap Of(l)' = {}
    BY <1>5, <1>7, <2>1
  <2> QED
    BY <2>2, <2>3
<1>10. \A q \in PhotoRequests : PhotoCallFits(q)'
  <2>1. \A q \in PhotoRequests \ {r} : PhotoCallFits(q)'
    BY <1>2 DEF PhotoInv, PhotoCallFits
  <2> QED
    BY <2>1
<1>11. ListHolds(l)'
  <2>1. ASSUME l \notin contended'
        PROVE  /\ \A q, o \in PhotoRequests : req'[q].listing = l /\ req'[o].listing = l => q = o
               /\ \A p, q \in Listed(l)' : HashOf[p] = HashOf[q] => p = q
               /\ \A q \in PhotoRequests : req'[q].listing = l => Follows(q, l)'
               /\ l \notin abandoned' => FilesHold(l)'
    <3>1. \A q \in PhotoRequests : req'[q].listing = l => q = r
      BY <1>2, <2>1
    <3>2. \A q \in PhotoRequests : req'[q].listing = l => Follows(q, l)'
      BY <1>2, <2>1, <3>1
    <3>3. ASSUME l \notin abandoned' PROVE FilesHold(l)'
      <4>1. Undisturbed(l)' => Listed(l)' \subseteq originals' \cap optimized'
        BY <1>2, <1>6, <2>1, <3>3 DEF Undisturbed
      <4>2. \A q \in PhotoRequests : req'[q].listing = l => FilesFollow(q, l)'
        BY <1>2, <2>1, <3>1, <3>3
      <4> QED
        BY <4>1, <4>2 DEF FilesHold
    <3> QED
      BY <1>6, <2>1, <3>1, <3>2, <3>3
  <2> QED
    BY <1>6, <2>1 DEF ListHolds
<1> QED
  BY <1>4, <1>5, <1>8, <1>9, <1>10, <1>11 DEF PhotoInv

\* What holds of a listing that one request alone handles.
LEMMA AloneIs ==
  ASSUME PhotoInv, NEW r \in PhotoRequests, NEW l \in Listings \ contended, req[r].listing = l
  PROVE  /\ \A q \in PhotoRequests \ {r} : req[q].listing # l
         /\ \A p, q \in Listed(l) : HashOf[p] = HashOf[q] => p = q
         /\ Follows(r, l)
         /\ l \notin abandoned => FilesFollow(r, l)
         /\ l \notin abandoned /\ req[r].op \notin Deleting =>
              Listed(l) \subseteq originals \cap optimized
<1>1. ListHolds(l)
  BY DEF PhotoInv
<1>2. \A q \in PhotoRequests \ {r} : req[q].listing # l
  BY <1>1 DEF ListHolds
<1>3. ASSUME l \notin abandoned PROVE FilesHold(l)
  BY <1>1, <1>3 DEF ListHolds
<1>4. req[r].op \notin Deleting => Undisturbed(l)
  BY <1>2 DEF Undisturbed
<1> QED
  BY <1>1, <1>2, <1>3, <1>4 DEF ListHolds, FilesHold

\* What holds of a listing that a request at rest takes up and no other handles.
LEMMA TakenUpIs ==
  ASSUME PhotoInv, NEW r \in PhotoRequests, NEW l \in Listings, req[r] = Idle, Contend(r, l)
  PROVE  /\ contended \subseteq contended' /\ contended' \subseteq Listings
         /\ l \notin contended' =>
              /\ \A q \in PhotoRequests \ {r} : req[q].listing # l
              /\ \A p, q \in Listed(l) : HashOf[p] = HashOf[q] => p = q
              /\ l \notin abandoned => Listed(l) \subseteq originals \cap optimized
<1>1. contended \subseteq Listings /\ l # NoListing /\ Idle.listing = NoListing
  BY PhotoAssumption, IdleIs DEF PhotoInv, PhotoType
<1>2. contended \subseteq contended' /\ contended' \subseteq Listings
  BY <1>1 DEF Contend
<1>3. ASSUME l \notin contended'
      PROVE  /\ \A q \in PhotoRequests \ {r} : req[q].listing # l
             /\ \A p, q \in Listed(l) : HashOf[p] = HashOf[q] => p = q
             /\ l \notin abandoned => Listed(l) \subseteq originals \cap optimized
  <2>1. \A q \in PhotoRequests \ {r} : req[q].listing # l
    BY <1>3 DEF Contend
  <2>2. ListHolds(l) /\ l \notin contended
    BY <1>2, <1>3 DEF PhotoInv
  <2>3. \A q \in PhotoRequests : req[q].listing # l
    BY <1>1, <2>1
  <2>4. Undisturbed(l)
    BY <2>3 DEF Undisturbed
  <2> QED
    BY <2>1, <2>2, <2>4 DEF ListHolds, FilesHold
<1> QED
  BY <1>2, <1>3

\* A request in hand: what it is.
LEMMA CallIs ==
  ASSUME PhotoInv, NEW r \in PhotoRequests, req[r].op # "idle"
  PROVE  \E l \in Listings, p \in Photos \cup {NoPhoto}, s \in Seq(Photos), o \in PhotoOps \ {"idle"} :
           /\ req[r] = [op |-> o, listing |-> l, photo |-> p, list |-> s]
           /\ req[r].op = o /\ req[r].listing = l /\ req[r].photo = p /\ req[r].list = s
           /\ o \in Uploading \cup Removing => p \in Photos
           /\ o \in Removing \cup {"append", "order"} => Cardinality(ToSet(s)) <= MAX_PHOTOS
           /\ o = "clearOriginal" => s # <<>>
           /\ ToSet(s) \subseteq Of(l)
           /\ p \in Photos => p \in Of(l)
<1>1. req[r] \in PhotoCalls /\ PhotoCallFits(r)
  BY DEF PhotoInv, PhotoType
<1>2. PICK l \in Listings, p \in Photos \cup {NoPhoto}, s \in Seq(Photos), o \in PhotoOps \ {"idle"} :
           /\ req[r] = [op |-> o, listing |-> l, photo |-> p, list |-> s]
           /\ req[r].op = o /\ req[r].listing = l /\ req[r].photo = p /\ req[r].list = s
  <2>1. PICK l, p, s, o : req[r] = [op |-> o, listing |-> l, photo |-> p, list |-> s]
    BY <1>1 DEF PhotoCalls
  <2>2. l \in Listings /\ p \in Photos \cup {NoPhoto} /\ s \in Seq(Photos) /\ o \in PhotoOps \ {"idle"}
    BY <1>1, <2>1 DEF PhotoCalls, PhotoCallFits
  <2> QED
    BY <2>1, <2>2
<1>3. InHands(req[r]) \subseteq Of(l)
  BY <1>2, InHandsIsOf
<1>4. ToSet(s) \subseteq Of(l) /\ (p \in Photos => p \in Of(l))
  BY <1>2, <1>3, PhotoAssumption DEF InHands
<1>5. /\ o \in Uploading \cup Removing => p \in Photos
      /\ o \in Removing \cup {"append", "order"} => Cardinality(ToSet(s)) <= MAX_PHOTOS
      /\ o = "clearOriginal" => s # <<>>
  BY <1>1, <1>2 DEF PhotoCallFits
<1> QED
  BY <1>2, <1>4, <1>5

\* Request r goes on, or begins, and no list is written.
LEMMA PhotoGoes ==
  ASSUME PhotoInv, NEW r \in PhotoRequests, NEW l \in Listings, req[r].listing \in {l, NoListing},
         NEW x \in PhotoCalls, req' = [req EXCEPT ![r] = x], x.listing = l,
         UNCHANGED rowVars, uploaded \subseteq uploaded', uploaded' \subseteq Photos,
         originals' \subseteq uploaded', optimized' \subseteq uploaded',
         \A p \in uploaded \ Of(l) : /\ p \in originals' <=> p \in originals
                                     /\ p \in optimized' <=> p \in optimized,
         contended \subseteq contended', contended' \subseteq Listings, abandoned' = abandoned,
         InHands(x) \subseteq Of(l) \cup (uploaded' \ uploaded), PhotoCallFits(r)',
         l \notin contended' =>
           /\ \A q \in PhotoRequests \ {r} : req[q].listing # l
           /\ Follows(r, l)'
           /\ l \notin abandoned =>
                /\ x.op \notin Deleting => Listed(l) \subseteq originals' \cap optimized'
                /\ FilesFollow(r, l)'
  PROVE  PhotoInv'
<1>1. PhotoType /\ ListHolds(l)
  BY DEF PhotoInv
<1>2. /\ photos[l] \in Seq(Photos) /\ photos' = [photos EXCEPT ![l] = photos[l]]
      /\ Listed(l) = ToSet(photos[l]) /\ Listed(l) \subseteq Of(l)
      /\ active' = active /\ deleted' = deleted
      /\ active \subseteq Listings /\ deleted \subseteq Listings /\ abandoned \subseteq Listings
  BY <1>1 DEF PhotoType, Listed, Of, rowVars
<1>3. PICK L \in Seq(Photos) : L = photos[l]
  BY <1>2
<1>4. l \notin contended' => \A p, q \in ToSet(L) : HashOf[p] = HashOf[q] => p = q
  BY <1>1, <1>2, <1>3 DEF ListHolds
<1>5. Cardinality(ToSet(L)) <= MAX_PHOTOS
  BY <1>1, <1>2, <1>3 DEF ListHolds
<1>6. ToSet(L) \cup InHands(x) \subseteq Of(l) \cup (uploaded' \ uploaded)
  BY <1>2, <1>3
<1>7. l \notin contended' =>
           /\ \A q \in PhotoRequests \ {r} : req[q].listing # l
           /\ \A p, q \in ToSet(L) : HashOf[p] = HashOf[q] => p = q
           /\ x.listing = l => Follows(r, l)'
           /\ l \notin abandoned' =>
                /\ (x.listing = l => x.op \notin Deleting) => ToSet(L) \subseteq originals' \cap optimized'
                /\ x.listing = l => FilesFollow(r, l)'
  BY <1>2, <1>3, <1>4
<1> QED
  BY <1>2, <1>3, <1>5, <1>6, <1>7, PhotoMoves

\* Request r ends with the write of list L.
LEMMA PhotoWrites ==
  ASSUME PhotoInv, NEW r \in PhotoRequests, NEW l \in Listings, req[r].listing \in {l, NoListing},
         req' = [req EXCEPT ![r] = Idle],
         NEW L \in Seq(Photos), photos' = [photos EXCEPT ![l] = L],
         active' \subseteq Listings, active' \ {l} = active \ {l}, deleted' \subseteq Listings,
         UNCHANGED <<uploaded, fileVars, abandoned>>,
         contended \subseteq contended', contended' \subseteq Listings,
         ToSet(L) \subseteq Of(l), Cardinality(ToSet(L)) <= MAX_PHOTOS,
         l \notin contended' =>
           /\ \A q \in PhotoRequests \ {r} : req[q].listing # l
           /\ \A p, q \in ToSet(L) : HashOf[p] = HashOf[q] => p = q
           /\ l \notin abandoned => ToSet(L) \subseteq originals \cap optimized
  PROVE  PhotoInv'
<1>1. PhotoType /\ l # NoListing
  BY PhotoAssumption DEF PhotoInv
<1>2. PICK x \in PhotoCalls : x = Idle /\ x.op = "idle" /\ x.listing = NoListing /\ InHands(x) = {}
  BY IdleIs
<1>3. req' = [req EXCEPT ![r] = x] /\ req'[r] = x
  BY <1>1, <1>2 DEF PhotoType
<1>4. PhotoCallFits(r)'
  BY <1>2, <1>3 DEF PhotoCallFits, Uploading, Removing
<1>5. /\ originals' = originals /\ optimized' = optimized /\ uploaded' = uploaded /\ abandoned' = abandoned
      /\ originals \subseteq uploaded /\ optimized \subseteq uploaded /\ uploaded \subseteq Photos
      /\ abandoned \subseteq Listings
  BY <1>1 DEF PhotoType, fileVars
<1>6. ToSet(L) \cup InHands(x) \subseteq Of(l) \cup (uploaded' \ uploaded)
  BY <1>2
<1>7. l \notin contended' =>
           /\ \A q \in PhotoRequests \ {r} : req[q].listing # l
           /\ \A p, q \in ToSet(L) : HashOf[p] = HashOf[q] => p = q
           /\ x.listing = l => Follows(r, l)'
           /\ l \notin abandoned' =>
                /\ (x.listing = l => x.op \notin Deleting) => ToSet(L) \subseteq originals' \cap optimized'
                /\ x.listing = l => FilesFollow(r, l)'
  BY <1>1, <1>2, <1>5
<1> QED
  BY <1>2, <1>3, <1>4, <1>5, <1>6, <1>7, PhotoMoves

LEMMA TogglePhotos ==
  ASSUME PhotoInv, NEW r \in PhotoRequests, NEW l \in Listings, ToggleActive(r, l) PROVE PhotoInv'
<1>1. /\ req[r] = Idle /\ Contend(r, l) /\ req' = req /\ photos' = photos /\ deleted' = deleted
      /\ active' = IF l \in active THEN active \ {l} ELSE active \cup {l}
      /\ UNCHANGED <<uploaded, fileVars, abandoned>>
  BY DEF ToggleActive, Once
<1>2. PhotoType /\ ListHolds(l)
  BY DEF PhotoInv
<1>3. /\ req' = [req EXCEPT ![r] = Idle] /\ req[r].listing = NoListing
      /\ photos' = [photos EXCEPT ![l] = photos[l]] /\ photos[l] \in Seq(Photos)
  BY <1>1, <1>2, IdleIs DEF PhotoType
<1>4. active' \subseteq Listings /\ active' \ {l} = active \ {l} /\ deleted' \subseteq Listings
  BY <1>1, <1>2 DEF PhotoType
<1>5. PICK L \in Seq(Photos) : L = photos[l]
  BY <1>3
<1>6. /\ ToSet(L) \subseteq Of(l) /\ Cardinality(ToSet(L)) <= MAX_PHOTOS
      /\ Listed(l) = ToSet(L)
  BY <1>2, <1>5 DEF ListHolds, Listed, Of
<1>7. /\ contended \subseteq contended' /\ contended' \subseteq Listings
      /\ l \notin contended' =>
           /\ \A q \in PhotoRequests \ {r} : req[q].listing # l
           /\ \A p, q \in Listed(l) : HashOf[p] = HashOf[q] => p = q
           /\ l \notin abandoned => Listed(l) \subseteq originals \cap optimized
  BY <1>1, TakenUpIs
<1>8. /\ photos' = [photos EXCEPT ![l] = L] /\ req[r].listing \in {l, NoListing}
      /\ l \notin contended' =>
           /\ \A q \in PhotoRequests \ {r} : req[q].listing # l
           /\ \A p, q \in ToSet(L) : HashOf[p] = HashOf[q] => p = q
           /\ l \notin abandoned => ToSet(L) \subseteq originals \cap optimized
  BY <1>3, <1>5, <1>6, <1>7
<1> QED
  BY <1>1, <1>3, <1>4, <1>6, <1>7, <1>8, PhotoWrites

\* A write that leaves the list empty.
LEMMA ListEmptied ==
  ASSUME PhotoInv, NEW r \in PhotoRequests, NEW l \in Listings, req[r].listing \in {l, NoListing},
         req' = [req EXCEPT ![r] = Idle], photos' = [photos EXCEPT ![l] = <<>>],
         active' \subseteq Listings, active' \ {l} = active \ {l}, deleted' \subseteq Listings,
         UNCHANGED <<uploaded, fileVars, abandoned>>,
         contended \subseteq contended', contended' \subseteq Listings,
         l \notin contended' => \A q \in PhotoRequests \ {r} : req[q].listing # l
  PROVE  PhotoInv'
<1>a. <<>> \in Seq(Photos)
  OBVIOUS
<1>1. PICK L \in Seq(Photos) : L = <<>>
  BY <1>a
<1>b. Cardinality({}) = 0 /\ MAX_PHOTOS \in Nat
  BY FS_EmptySet, PhotoAssumption
<1>c. ToSet(L) = {}
  BY <1>1, EmptyList
<1>2. ToSet(L) = {} /\ Cardinality(ToSet(L)) <= MAX_PHOTOS
  BY <1>b, <1>c
<1> QED
  BY <1>1, <1>2, PhotoWrites

LEMMA RejectedPhotos ==
  ASSUME PhotoInv, NEW r \in PhotoRequests, NEW l \in Listings, RejectPhotos(r, l) PROVE PhotoInv'
<1>1. /\ req[r] = Idle /\ Contend(r, l) /\ req' = req /\ photos' = [photos EXCEPT ![l] = <<>>]
      /\ active' = active /\ deleted' = deleted /\ UNCHANGED <<uploaded, fileVars, abandoned>>
  BY DEF RejectPhotos, Once
<1>2. PhotoType
  BY DEF PhotoInv
<1>3. req' = [req EXCEPT ![r] = Idle] /\ req[r].listing = NoListing
  BY <1>1, <1>2, IdleIs DEF PhotoType
<1>4. active' \subseteq Listings /\ active' \ {l} = active \ {l} /\ deleted' \subseteq Listings
  BY <1>1, <1>2 DEF PhotoType
<1>5. /\ contended \subseteq contended' /\ contended' \subseteq Listings
      /\ l \notin contended' => \A q \in PhotoRequests \ {r} : req[q].listing # l
  BY <1>1, TakenUpIs
<1> QED
  BY <1>1, <1>3, <1>4, <1>5, ListEmptied

LEMMA HardDeletedPhotos ==
  ASSUME PhotoInv, NEW r \in PhotoRequests, NEW l \in Listings, HardDelete(r, l) PROVE PhotoInv'
<1>1. /\ req[r] = Idle /\ Contend(r, l) /\ req' = req /\ photos' = [photos EXCEPT ![l] = <<>>]
      /\ active' = active \ {l} /\ deleted' = deleted \cup {l}
      /\ UNCHANGED <<uploaded, fileVars, abandoned>>
  BY DEF HardDelete, Once
<1>2. PhotoType
  BY DEF PhotoInv
<1>3. req' = [req EXCEPT ![r] = Idle] /\ req[r].listing = NoListing
  BY <1>1, <1>2, IdleIs DEF PhotoType
<1>4. active' \subseteq Listings /\ active' \ {l} = active \ {l} /\ deleted' \subseteq Listings
  BY <1>1, <1>2 DEF PhotoType
<1>5. /\ contended \subseteq contended' /\ contended' \subseteq Listings
      /\ l \notin contended' => \A q \in PhotoRequests \ {r} : req[q].listing # l
  BY <1>1, TakenUpIs
<1> QED
  BY <1>1, <1>3, <1>4, <1>5, ListEmptied

LEMMA ClearedPhotos ==
  ASSUME PhotoInv, NEW r \in PhotoRequests, ClearListingPhotos(r) PROVE PhotoInv'
<1>1. /\ req[r].op = "clear" /\ photos' = [photos EXCEPT ![req[r].listing] = <<>>]
      /\ req' = [req EXCEPT ![r] = Idle] /\ contended' = contended
      /\ active' = active /\ deleted' = deleted /\ UNCHANGED <<uploaded, fileVars, abandoned>>
  BY DEF ClearListingPhotos, Finish
<1>2. PICK l \in Listings : req[r].listing = l
  BY <1>1, CallIs
<1>3. active \subseteq Listings /\ deleted \subseteq Listings /\ contended \subseteq Listings
  BY DEF PhotoInv, PhotoType
<1>4. l \notin contended => \A q \in PhotoRequests \ {r} : req[q].listing # l
  BY <1>2, AloneIs
<1> QED
  BY <1>1, <1>2, <1>3, <1>4, ListEmptied

LEMMA UpdatedPhotos ==
  ASSUME PhotoInv, NEW r \in PhotoRequests, UpdateListingPhotos(r) PROVE PhotoInv'
<1>1. /\ req[r].op \in {"append", "shorten", "order"}
      /\ photos' = [photos EXCEPT ![req[r].listing] = req[r].list]
      /\ req' = [req EXCEPT ![r] = Idle] /\ contended' = contended
      /\ active' = active /\ deleted' = deleted /\ UNCHANGED <<uploaded, fileVars, abandoned>>
  BY DEF UpdateListingPhotos, Finish
<1>2. PICK l \in Listings, p \in Photos \cup {NoPhoto}, s \in Seq(Photos) :
        /\ req[r].listing = l /\ req[r].photo = p /\ req[r].list = s
        /\ Cardinality(ToSet(s)) <= MAX_PHOTOS /\ ToSet(s) \subseteq Of(l)
  BY ZenonT(40), <1>1, CallIs DEF Removing
<1>3. active \subseteq Listings /\ deleted \subseteq Listings /\ contended \subseteq Listings
  BY DEF PhotoInv, PhotoType
<1>4. ASSUME l \notin contended
      PROVE  /\ \A q \in PhotoRequests \ {r} : req[q].listing # l
             /\ \A x, q \in ToSet(s) : HashOf[x] = HashOf[q] => x = q
             /\ l \notin abandoned => ToSet(s) \subseteq originals \cap optimized
  <2>1. /\ \A q \in PhotoRequests \ {r} : req[q].listing # l
        /\ \A x, q \in Listed(l) : HashOf[x] = HashOf[q] => x = q
        /\ Follows(r, l)
        /\ l \notin abandoned => FilesFollow(r, l)
        /\ l \notin abandoned /\ req[r].op \notin Deleting =>
              Listed(l) \subseteq originals \cap optimized
    BY <1>2, <1>4, AloneIs
  <2>2. CASE req[r].op = "append"
    <3>1. ToSet(s) = Listed(l) \cup {p} /\ \A q \in Listed(l) : HashOf[q] # HashOf[p]
      BY <1>2, <2>1, <2>2 DEF Follows, Uploading
    <3>2. \A x, q \in ToSet(s) : HashOf[x] = HashOf[q] => x = q
      BY <2>1, <3>1
    <3>3. l \notin abandoned => ToSet(s) \subseteq originals \cap optimized
      BY <1>2, <2>1, <2>2, <3>1 DEF FilesFollow, Deleting
    <3> QED
      BY <2>1, <3>2, <3>3
  <2>3. CASE req[r].op = "shorten"
    <3>1. ToSet(s) = Listed(l) \ {p}
      BY <1>2, <2>1, <2>3 DEF Follows, Removing
    <3>2. l \notin abandoned => ToSet(s) \subseteq originals \cap optimized
      BY <1>2, <2>1, <2>3, <3>1 DEF FilesFollow
    <3> QED
      BY <2>1, <3>1, <3>2
  <2>4. CASE req[r].op = "order"
    <3>1. ToSet(s) = Listed(l)
      BY <1>2, <2>1, <2>4 DEF Follows
    <3>2. l \notin abandoned => ToSet(s) \subseteq originals \cap optimized
      BY <2>1, <2>4, <3>1 DEF Deleting
    <3> QED
      BY <2>1, <3>1, <3>2
  <2> QED
    BY <1>1, <2>2, <2>3, <2>4
<1>5. /\ photos' = [photos EXCEPT ![l] = s] /\ req[r].listing \in {l, NoListing}
      /\ active' \subseteq Listings /\ active' \ {l} = active \ {l} /\ deleted' \subseteq Listings
      /\ contended \subseteq contended' /\ contended' \subseteq Listings
  BY <1>1, <1>2, <1>3
<1>6. l \notin contended' =>
        /\ \A q \in PhotoRequests \ {r} : req[q].listing # l
        /\ \A x, q \in ToSet(s) : HashOf[x] = HashOf[q] => x = q
        /\ l \notin abandoned => ToSet(s) \subseteq originals \cap optimized
  BY <1>1, <1>4
<1>7. /\ req' = [req EXCEPT ![r] = Idle] /\ UNCHANGED <<uploaded, fileVars, abandoned>>
      /\ Cardinality(ToSet(s)) <= MAX_PHOTOS /\ ToSet(s) \subseteq Of(l)
  BY <1>1, <1>2
<1> QED
  BY <1>5, <1>6, <1>7, PhotoWrites

LEMMA FailedPhotos == ASSUME PhotoInv, NEW r \in PhotoRequests, Fail(r) PROVE PhotoInv'
<1>1. /\ req[r] # Idle /\ req' = [req EXCEPT ![r] = Idle]
      /\ abandoned' = abandoned \cup {l \in {req[r].listing} : req[r].op \in Deleting}
      /\ photos' = photos /\ active' = active /\ deleted' = deleted /\ contended' = contended
      /\ uploaded' = uploaded /\ originals' = originals /\ optimized' = optimized
  BY DEF Fail, rowVars, fileVars
<1>2. PhotoType /\ req[r].op # "idle"
  BY <1>1 DEF PhotoInv, PhotoCallFits
<1>3. PICK l \in Listings : req[r].listing = l
  BY <1>2, CallIs
<1>4. PICK L \in Seq(Photos) : L = photos[l]
  BY <1>2 DEF PhotoType
<1>5. /\ photos' = [photos EXCEPT ![l] = L] /\ Listed(l) = ToSet(L)
      /\ active \subseteq Listings /\ deleted \subseteq Listings /\ contended \subseteq Listings
      /\ uploaded \subseteq Photos /\ originals \subseteq uploaded /\ optimized \subseteq uploaded
      /\ abandoned \subseteq abandoned' /\ abandoned' \subseteq Listings
  BY <1>1, <1>2, <1>3, <1>4 DEF PhotoType, Listed
<1>6. PICK x \in PhotoCalls : x = Idle /\ x.op = "idle" /\ x.listing = NoListing /\ InHands(x) = {}
  BY IdleIs
<1>7. req' = [req EXCEPT ![r] = x] /\ req'[r] = x
  BY <1>1, <1>2, <1>6 DEF PhotoType
<1>8. PhotoCallFits(r)'
  BY <1>6, <1>7 DEF PhotoCallFits, Uploading, Removing
<1>9. Listed(l) \subseteq Of(l) /\ Cardinality(Listed(l)) <= MAX_PHOTOS /\ l # NoListing
  BY PhotoAssumption DEF PhotoInv, ListHolds, Of
<1>10. ASSUME l \notin contended
       PROVE  /\ \A q \in PhotoRequests \ {r} : req[q].listing # l
              /\ \A p, q \in Listed(l) : HashOf[p] = HashOf[q] => p = q
              /\ l \notin abandoned' => Listed(l) \subseteq originals \cap optimized
  <2>1. l \notin abandoned' => l \notin abandoned /\ req[r].op \notin Deleting
    BY <1>1, <1>3
  <2> QED
    BY <1>3, <1>10, <2>1, AloneIs
<1>11. l \notin contended' =>
           /\ \A q \in PhotoRequests \ {r} : req[q].listing # l
           /\ \A p, q \in ToSet(L) : HashOf[p] = HashOf[q] => p = q
           /\ x.listing = l => Follows(r, l)'
           /\ l \notin abandoned' =>
                /\ (x.listing = l => x.op \notin Deleting) => ToSet(L) \subseteq originals' \cap optimized'
                /\ x.listing = l => FilesFollow(r, l)'
  BY <1>1, <1>5, <1>6, <1>9, <1>10
<1>12. ToSet(L) \cup InHands(x) \subseteq Of(l) \cup (uploaded' \ uploaded)
  BY <1>5, <1>6, <1>9
<1> QED
  BY <1>1, <1>3, <1>5, <1>6, <1>7, <1>8, <1>9, <1>11, <1>12, PhotoMoves

LEMMA UploadStarted ==
  ASSUME PhotoInv, NEW r \in PhotoRequests, NEW l \in Listings, NEW p \in Photos, UploadStart(r, l, p)
  PROVE  PhotoInv'
<1>1. PICK x : x = [op |-> "scan", listing |-> l, photo |-> p, list |-> <<>>] /\ x.listing = l
  <2>1. [op |-> "scan", listing |-> l, photo |-> p, list |-> <<>>].listing = l
    OBVIOUS
  <2> QED
    BY <2>1
<1>2. /\ p \notin uploaded /\ uploaded' = uploaded \cup {p}
      /\ l \in active => \A q \in Listed(l) : HashOf[q] # HashOf[p]
      /\ req[r] = Idle /\ req' = [req EXCEPT ![r] = x] /\ Contend(r, l)
      /\ UNCHANGED rowVars /\ photos' = photos /\ active' = active
      /\ originals' = originals /\ optimized' = optimized /\ abandoned' = abandoned
  BY <1>1 DEF UploadStart, Begin, rowVars, fileVars
<1>3. /\ x \in PhotoCalls /\ x.op = "scan" /\ x.listing = l /\ x.photo = p /\ x.list = <<>>
      /\ PhotoType /\ p # NoPhoto
  BY <1>1, PhotoAssumption DEF PhotoInv, PhotoCalls, PhotoOps
<1>4. /\ req'[r] = x /\ req[r].listing = NoListing /\ Listed(l)' = Listed(l)
      /\ Listed(l) \subseteq uploaded /\ InHands(x) = {p}
  BY <1>2, <1>3, IdleIs, EmptyList DEF PhotoInv, PhotoType, Listed, Of, InHands
<1>5. PhotoCallFits(r)'
  <2>1. x # Idle
    BY <1>3, IdleIs
  <2> QED
    BY <1>3, <1>4, <2>1 DEF PhotoCallFits, Uploading, Removing
<1>6. /\ contended \subseteq contended' /\ contended' \subseteq Listings
      /\ l \notin contended' =>
           /\ \A q \in PhotoRequests \ {r} : req[q].listing # l
           /\ l \notin abandoned => Listed(l) \subseteq originals \cap optimized
  BY <1>2, TakenUpIs
<1>7. Follows(r, l)' /\ FilesFollow(r, l)'
  BY <1>2, <1>3, <1>4 DEF Follows, FilesFollow, Uploading, Removing
<1>8. /\ uploaded \subseteq uploaded' /\ uploaded' \subseteq Photos
      /\ originals' \subseteq uploaded' /\ optimized' \subseteq uploaded'
      /\ InHands(x) \subseteq Of(l) \cup (uploaded' \ uploaded)
  BY <1>2, <1>3, <1>4 DEF PhotoType
<1> QED
  BY <1>2, <1>3, <1>4, <1>5, <1>6, <1>7, <1>8, PhotoGoes

\* A request takes up a listing and changes no row and no file yet.
LEMMA PhotoBegins ==
  ASSUME PhotoInv, NEW r \in PhotoRequests, NEW l \in Listings, req[r] = Idle, Contend(r, l),
         NEW op \in PhotoOps \ (Uploading \cup {"idle", "clearOriginal", "unlinkOptimized", "shorten"}),
         NEW p \in Photos \cup {NoPhoto}, NEW s \in Seq(Photos),
         req' = [req EXCEPT ![r] = [op |-> op, listing |-> l, photo |-> p, list |-> s]],
         UNCHANGED <<rowVars, uploaded, fileVars, abandoned>>,
         ToSet(s) \subseteq Listed(l), p \in Photos => p \in Listed(l),
         op = "unlink" => p \in Photos /\ ToSet(s) = Listed(l) \ {p},
         op \in {"order", "clear"} => ToSet(s) = Listed(l)
  PROVE  PhotoInv'
<1>1. PICK x \in PhotoCalls : /\ x = [op |-> op, listing |-> l, photo |-> p, list |-> s]
                              /\ x.op = op /\ x.listing = l /\ x.photo = p /\ x.list = s
  BY StateIs
<1>2. /\ PhotoType /\ UNCHANGED rowVars /\ photos' = photos /\ active' = active
      /\ uploaded' = uploaded /\ originals' = originals /\ optimized' = optimized
      /\ abandoned' = abandoned /\ req' = [req EXCEPT ![r] = x]
  BY <1>1 DEF PhotoInv, rowVars, fileVars
<1>3. /\ req'[r] = x /\ req[r].listing = NoListing /\ Listed(l)' = Listed(l)
      /\ Listed(l) \subseteq Of(l)
  BY <1>2, IdleIs DEF PhotoType, Listed, Of
<1>4. Cardinality(ToSet(s)) <= MAX_PHOTOS
  <2>1. IsFiniteSet(Listed(l)) /\ Cardinality(Listed(l)) \in Nat /\ Cardinality(Listed(l)) <= MAX_PHOTOS
    <3>1. PICK L \in Seq(Photos) : L = photos[l]
      BY <1>2 DEF PhotoType
    <3> QED
      BY <3>1, ListCounted DEF Listed, PhotoInv, ListHolds
  <2>2. Cardinality(ToSet(s)) <= Cardinality(Listed(l)) /\ Cardinality(ToSet(s)) \in Nat
    BY <2>1, FS_Subset, ListCounted
  <2> QED
    BY <2>1, <2>2, PhotoAssumption
<1>5. PhotoCallFits(r)'
  <2>1. x # Idle
    BY <1>1, IdleIs
  <2> QED
    BY <1>1, <1>3, <1>4, <2>1 DEF PhotoCallFits, Uploading, Removing, PhotoOps
<1>6. /\ contended \subseteq contended' /\ contended' \subseteq Listings
      /\ l \notin contended' =>
           /\ \A q \in PhotoRequests \ {r} : req[q].listing # l
           /\ l \notin abandoned => Listed(l) \subseteq originals \cap optimized
  BY TakenUpIs
<1>7. Follows(r, l)' /\ FilesFollow(r, l)'
  <2>1. /\ x.op \notin Uploading /\ x.op \notin {"clearOriginal", "unlinkOptimized", "shorten"}
        /\ x.op \in Removing => x.op = "unlink"
        /\ x.op \notin {"optimise", "add", "append"}
    BY <1>1 DEF Uploading, Removing
  <2>2. Follows(r, l)'
    BY <1>1, <1>2, <1>3, <2>1 DEF Follows
  <2>3. FilesFollow(r, l)'
    BY <1>1, <1>2, <1>3, <2>1 DEF FilesFollow
  <2> QED
    BY <2>2, <2>3
<1>8. /\ uploaded \subseteq uploaded' /\ uploaded' \subseteq Photos
      /\ originals' \subseteq uploaded' /\ optimized' \subseteq uploaded'
  BY <1>2 DEF PhotoType
<1>9. InHands(x) \subseteq Of(l) \cup (uploaded' \ uploaded)
  BY <1>1, <1>3 DEF InHands
<1> QED
  BY <1>1, <1>2, <1>3, <1>5, <1>6, <1>7, <1>8, <1>9, PhotoGoes

LEMMA RemoveStarted ==
  ASSUME PhotoInv, NEW r \in PhotoRequests, NEW l \in Listings, NEW p \in Photos, RemoveStart(r, l, p)
  PROVE  PhotoInv'
<1>1. /\ p \in Listed(l) /\ req[r] = Idle /\ Contend(r, l)
      /\ req' = [req EXCEPT ![r] = [op |-> "unlink", listing |-> l, photo |-> p,
                                    list |-> Without(photos[l], p)]]
      /\ UNCHANGED <<rowVars, uploaded, fileVars, abandoned>>
  BY DEF RemoveStart, Begin
<1>2. PICK L \in Seq(Photos) : L = photos[l] /\ Listed(l) = ToSet(L)
  BY DEF PhotoInv, PhotoType, Listed
<1>3. PICK s \in Seq(Photos) : s = Without(L, p) /\ ToSet(s) = Listed(l) \ {p}
  BY <1>2, WithoutIs
<1>4. PICK op : op = "unlink" /\ op \in PhotoOps \ (Uploading \cup {"idle", "clearOriginal", "unlinkOptimized", "shorten"})
  BY DEF PhotoOps, Uploading
<1>5. req' = [req EXCEPT ![r] = [op |-> op, listing |-> l, photo |-> p, list |-> s]]
  BY <1>1, <1>2, <1>3, <1>4
<1>6. /\ ToSet(s) \subseteq Listed(l) /\ (p \in Photos => p \in Listed(l))
      /\ op = "unlink" => p \in Photos /\ ToSet(s) = Listed(l) \ {p}
      /\ op \in {"order", "clear"} => ToSet(s) = Listed(l)
      /\ p \in Photos \cup {NoPhoto}
  BY <1>1, <1>3, <1>4
<1> QED
  BY <1>1, <1>4, <1>5, <1>6, PhotoBegins

LEMMA ReorderStarted ==
  ASSUME PhotoInv, NEW r \in PhotoRequests, NEW l \in Listings, NEW s \in Orders, ReorderStart(r, l, s)
  PROVE  PhotoInv'
<1>1. /\ ToSet(s) = Listed(l) /\ req[r] = Idle /\ Contend(r, l)
      /\ req' = [req EXCEPT ![r] = [op |-> "order", listing |-> l, photo |-> NoPhoto, list |-> s]]
      /\ UNCHANGED <<rowVars, uploaded, fileVars, abandoned>>
  BY DEF ReorderStart, Begin
<1>2. s \in Seq(Photos)
  <2>1. PICK n \in 1..MaxOrder : s \in [1..n -> Photos]
    BY DEF Orders
  <2>2. n \in Nat
    BY <2>1, PhotoAssumption
  <2> QED
    BY <2>1, <2>2, IsASeq
<1>3. PICK op : op = "order" /\ op \in PhotoOps \ (Uploading \cup {"idle", "clearOriginal", "unlinkOptimized", "shorten"})
  BY DEF PhotoOps, Uploading
<1>4. PICK p \in Photos \cup {NoPhoto} : p = NoPhoto /\ p \notin Photos
  BY PhotoAssumption
<1>5. req' = [req EXCEPT ![r] = [op |-> op, listing |-> l, photo |-> p, list |-> s]]
  BY <1>1, <1>3, <1>4
<1>6. /\ ToSet(s) \subseteq Listed(l) /\ (p \in Photos => p \in Listed(l))
      /\ op = "unlink" => p \in Photos /\ ToSet(s) = Listed(l) \ {p}
      /\ op \in {"order", "clear"} => ToSet(s) = Listed(l)
  BY <1>1, <1>2, <1>3, <1>4
<1> QED
  BY <1>1, <1>2, <1>3, <1>4, <1>5, <1>6, PhotoBegins

LEMMA DownloadStarted ==
  ASSUME PhotoInv, NEW r \in PhotoRequests, NEW l \in Listings, DownloadStart(r, l) PROVE PhotoInv'
<1>1. /\ req[r] = Idle /\ Contend(r, l)
      /\ req' = [req EXCEPT ![r] = [op |-> "clear", listing |-> l, photo |-> NoPhoto, list |-> photos[l]]]
      /\ UNCHANGED <<rowVars, uploaded, fileVars, abandoned>>
  BY DEF DownloadStart, Begin
<1>2. PICK s \in Seq(Photos) : s = photos[l] /\ Listed(l) = ToSet(s)
  BY DEF PhotoInv, PhotoType, Listed
<1>3. PICK op : op = "clear" /\ op \in PhotoOps \ (Uploading \cup {"idle", "clearOriginal", "unlinkOptimized", "shorten"})
  BY DEF PhotoOps, Uploading
<1>4. PICK p \in Photos \cup {NoPhoto} : p = NoPhoto /\ p \notin Photos
  BY PhotoAssumption
<1>5. req' = [req EXCEPT ![r] = [op |-> op, listing |-> l, photo |-> p, list |-> s]]
  BY <1>1, <1>2, <1>3, <1>4
<1>6. /\ ToSet(s) \subseteq Listed(l) /\ (p \in Photos => p \in Listed(l))
      /\ op = "unlink" => p \in Photos /\ ToSet(s) = Listed(l) \ {p}
      /\ op \in {"order", "clear"} => ToSet(s) = Listed(l)
  BY <1>1, <1>2, <1>3, <1>4
<1>7. UNCHANGED <<rowVars, uploaded, fileVars, abandoned>>
  BY <1>1
<1>8. req[r] = Idle /\ Contend(r, l)
  BY <1>1
<1> QED
  BY <1>2, <1>3, <1>4, <1>5, <1>6, <1>7, <1>8, PhotoBegins

\* A request goes on to its next step with the same listing and photo.
LEMMA CallGoesOn ==
  ASSUME PhotoInv, NEW r \in PhotoRequests, req[r].op # "idle", NEW op \in PhotoOps, Continue(r, op)
  PROVE  \E x \in PhotoCalls :
           /\ req' = [req EXCEPT ![r] = x] /\ req'[r] = x /\ contended' = contended /\ abandoned' = abandoned
           /\ x.op = op /\ x.listing = req[r].listing /\ x.photo = req[r].photo /\ x.list = req[r].list
           /\ x # Idle /\ InHands(x) = InHands(req[r])
<1>1. PICK l \in Listings, p \in Photos \cup {NoPhoto}, s \in Seq(Photos), o \in PhotoOps \ {"idle"} :
           /\ req[r] = [op |-> o, listing |-> l, photo |-> p, list |-> s]
           /\ req[r].op = o /\ req[r].listing = l /\ req[r].photo = p /\ req[r].list = s
           /\ o \in Uploading \cup Removing => p \in Photos
           /\ o \in Removing \cup {"append", "order"} => Cardinality(ToSet(s)) <= MAX_PHOTOS
           /\ o = "clearOriginal" => s # <<>>
           /\ ToSet(s) \subseteq Of(l)
           /\ p \in Photos => p \in Of(l)
  BY CallIs
<1>2. PICK x \in PhotoCalls : /\ x = [op |-> op, listing |-> l, photo |-> p, list |-> s]
                              /\ x.op = op /\ x.listing = l /\ x.photo = p /\ x.list = s
  BY <1>1, StateIs
<1>3. req' = [req EXCEPT ![r].op = op] /\ contended' = contended /\ abandoned' = abandoned
  BY DEF Continue
<1>4. [req[r] EXCEPT !.op = op] = x
  BY <1>1, <1>2
<1>5. req \in [PhotoRequests -> PhotoCalls]
  BY DEF PhotoInv, PhotoType
<1>6. req' = [req EXCEPT ![r] = x] /\ req'[r] = x
  BY <1>3, <1>4, <1>5
<1>7. x # Idle
  BY <1>2, IdleIs, PhotoAssumption
<1> QED
  BY <1>1, <1>2, <1>3, <1>6, <1>7 DEF InHands

\* A request alone on its listing goes on: no row changes, files of the listing may.
LEMMA PhotoGoesOn ==
  ASSUME PhotoInv, NEW r \in PhotoRequests, NEW l \in Listings, req[r].op # "idle", req[r].listing = l,
         NEW x \in PhotoCalls, req' = [req EXCEPT ![r] = x], x.listing = l,
         UNCHANGED <<rowVars, uploaded, contended, abandoned>>,
         originals' \subseteq uploaded, optimized' \subseteq uploaded,
         \A p \in uploaded \ Of(l) : /\ p \in originals' <=> p \in originals
                                     /\ p \in optimized' <=> p \in optimized,
         InHands(x) \subseteq Of(l), PhotoCallFits(r)',
         l \notin contended => Follows(r, l)',
         l \notin contended \cup abandoned =>
           /\ x.op \notin Deleting => Listed(l) \subseteq originals' \cap optimized'
           /\ FilesFollow(r, l)'
  PROVE  PhotoInv'
<1>1. /\ UNCHANGED rowVars /\ uploaded' = uploaded /\ contended' = contended /\ abandoned' = abandoned
      /\ uploaded \subseteq Photos /\ contended \subseteq Listings
  BY DEF PhotoInv, PhotoType
<1>2. /\ uploaded \subseteq uploaded' /\ uploaded' \subseteq Photos
      /\ originals' \subseteq uploaded' /\ optimized' \subseteq uploaded'
      /\ contended \subseteq contended' /\ contended' \subseteq Listings
      /\ InHands(x) \subseteq Of(l) \cup (uploaded' \ uploaded) /\ req[r].listing \in {l, NoListing}
  BY <1>1
<1>3. l \notin contended' =>
           /\ \A q \in PhotoRequests \ {r} : req[q].listing # l
           /\ Follows(r, l)'
           /\ l \notin abandoned =>
                /\ x.op \notin Deleting => Listed(l) \subseteq originals' \cap optimized'
                /\ FilesFollow(r, l)'
  BY <1>1, AloneIs
<1> QED
  BY <1>1, <1>2, <1>3, PhotoGoes

LEMMA SavedOriginal ==
  ASSUME PhotoInv, NEW r \in PhotoRequests, SaveOriginal(r) PROVE PhotoInv'
<1>1. /\ req[r].op = "scan" /\ originals' = originals \cup {req[r].photo} /\ Continue(r, "optimise")
      /\ UNCHANGED rowVars /\ photos' = photos /\ active' = active /\ uploaded' = uploaded /\ optimized' = optimized
  BY DEF SaveOriginal, rowVars
<1>2. PICK l \in Listings, p \in Photos : req[r].listing = l /\ req[r].photo = p /\ p \in Of(l)
  BY <1>1, CallIs DEF Uploading
<1>3. PICK op \in PhotoOps : op = "optimise"
  BY DEF PhotoOps
<1>4. PICK x \in PhotoCalls :
           /\ req' = [req EXCEPT ![r] = x] /\ req'[r] = x /\ contended' = contended /\ abandoned' = abandoned
           /\ x.op = op /\ x.listing = l /\ x.photo = p
           /\ x # Idle /\ InHands(x) = InHands(req[r])
  BY <1>1, <1>2, <1>3, CallGoesOn
<1>5. InHands(x) \subseteq Of(l) /\ Of(l) \subseteq uploaded /\ Listed(l)' = Listed(l)
      /\ originals \subseteq uploaded /\ optimized \subseteq uploaded
  BY <1>1, <1>2, <1>4, InHandsIsOf DEF PhotoInv, PhotoType, Listed
<1>6. PhotoCallFits(r)'
  BY <1>2, <1>3, <1>4 DEF PhotoCallFits, Uploading, Removing
<1>7. l \notin contended => Follows(r, l)'
  <2>1. l \notin contended => Follows(r, l)
    BY <1>2, AloneIs
  <2>2. l \notin contended =>
          /\ p \notin Listed(l)
          /\ l \in active => \A q \in Listed(l) : HashOf[q] # HashOf[p]
    BY <1>1, <1>2, <2>1 DEF Follows, Uploading
  <2> QED
    BY <1>1, <1>3, <1>4, <1>5, <2>2 DEF Follows, Uploading, Removing
<1>8. l \notin contended \cup abandoned =>
           /\ x.op \notin Deleting => Listed(l) \subseteq originals' \cap optimized'
           /\ FilesFollow(r, l)'
  <2>1. l \notin contended \cup abandoned => Listed(l) \subseteq originals \cap optimized
    BY <1>1, <1>2, AloneIs DEF Deleting
  <2>2. FilesFollow(r, l)'
    BY <1>1, <1>2, <1>3, <1>4 DEF FilesFollow
  <2> QED
    BY <1>1, <2>1, <2>2
<1>9. /\ UNCHANGED <<rowVars, uploaded, contended, abandoned>>
      /\ originals' \subseteq uploaded /\ optimized' \subseteq uploaded /\ req[r].op # "idle"
      /\ \A q \in uploaded \ Of(l) : /\ q \in originals' <=> q \in originals
                                     /\ q \in optimized' <=> q \in optimized
  BY <1>1, <1>2, <1>4, <1>5
<1> QED
  BY <1>2, <1>4, <1>5, <1>6, <1>7, <1>8, <1>9, PhotoGoesOn

LEMMA SavedOptimized ==
  ASSUME PhotoInv, NEW r \in PhotoRequests, SaveOptimized(r) PROVE PhotoInv'
<1>1. /\ req[r].op = "optimise"
      /\ UNCHANGED rowVars /\ photos' = photos /\ active' = active /\ uploaded' = uploaded
      /\ \/ optimized' = optimized \cup {req[r].photo} /\ Continue(r, "add") /\ originals' = originals
         \/ originals' = originals \ {req[r].photo} /\ Finish(r) /\ optimized' = optimized
  BY DEF SaveOptimized, rowVars
<1>2. PICK l \in Listings, p \in Photos : req[r].listing = l /\ req[r].photo = p /\ p \in Of(l)
  BY <1>1, CallIs DEF Uploading
<1>3. /\ Of(l) \subseteq uploaded /\ Listed(l)' = Listed(l) /\ Listed(l) \subseteq Of(l)
      /\ originals \subseteq uploaded /\ optimized \subseteq uploaded
  BY <1>1, <1>2 DEF PhotoInv, PhotoType, Listed, Of
<1>4. l \notin contended => Follows(r, l)
  BY <1>2, AloneIs
<1>5. l \notin contended =>
        /\ p \notin Listed(l)
        /\ l \in active => \A q \in Listed(l) : HashOf[q] # HashOf[p]
  BY <1>1, <1>2, <1>4 DEF Follows, Uploading
<1>6. l \notin contended \cup abandoned =>
        /\ Listed(l) \subseteq originals \cap optimized
        /\ p \in originals
  <2>1. l \notin contended \cup abandoned => Listed(l) \subseteq originals \cap optimized /\ FilesFollow(r, l)
    BY <1>1, <1>2, AloneIs DEF Deleting
  <2> QED
    BY <1>1, <1>2, <2>1 DEF FilesFollow
<1>7. CASE optimized' = optimized \cup {req[r].photo} /\ Continue(r, "add") /\ originals' = originals
  <2>1. PICK op \in PhotoOps : op = "add"
    BY DEF PhotoOps
  <2>2. PICK x \in PhotoCalls :
           /\ req' = [req EXCEPT ![r] = x] /\ req'[r] = x /\ contended' = contended /\ abandoned' = abandoned
           /\ x.op = op /\ x.listing = l /\ x.photo = p
           /\ x # Idle /\ InHands(x) = InHands(req[r])
    BY <1>1, <1>2, <1>7, <2>1, CallGoesOn
  <2>3. InHands(x) \subseteq Of(l)
    BY <1>2, <2>2, InHandsIsOf
  <2>4. PhotoCallFits(r)'
    BY <1>2, <2>1, <2>2 DEF PhotoCallFits, Uploading, Removing
  <2>5. l \notin contended => Follows(r, l)'
    BY <1>1, <1>3, <1>5, <2>1, <2>2 DEF Follows, Uploading, Removing
  <2>6. l \notin contended \cup abandoned =>
           /\ x.op \notin Deleting => Listed(l) \subseteq originals' \cap optimized'
           /\ FilesFollow(r, l)'
    <3>1. l \notin contended \cup abandoned => FilesFollow(r, l)'
      BY <1>2, <1>6, <1>7, <2>1, <2>2 DEF FilesFollow
    <3> QED
      BY <1>6, <1>7, <3>1
  <2>7. /\ UNCHANGED <<rowVars, uploaded, contended, abandoned>>
        /\ originals' \subseteq uploaded /\ optimized' \subseteq uploaded /\ req[r].op # "idle"
        /\ \A q \in uploaded \ Of(l) : /\ q \in originals' <=> q \in originals
                                       /\ q \in optimized' <=> q \in optimized
    BY <1>1, <1>2, <1>3, <1>7, <2>2
  <2> QED
    BY <1>2, <2>2, <2>3, <2>4, <2>5, <2>6, <2>7, PhotoGoesOn
<1>8. CASE originals' = originals \ {req[r].photo} /\ Finish(r) /\ optimized' = optimized
  <2>1. /\ req' = [req EXCEPT ![r] = Idle] /\ contended' = contended /\ abandoned' = abandoned
    BY <1>8 DEF Finish
  <2>2. PICK L \in Seq(Photos) : L = photos[l] /\ L = photos[l] /\ Listed(l) = ToSet(L)
    BY <1>2 DEF PhotoInv, PhotoType, Listed
  <2>3. PICK x \in PhotoCalls : x = Idle /\ x.op = "idle" /\ x.listing = NoListing /\ InHands(x) = {}
    BY IdleIs
  <2>4. req' = [req EXCEPT ![r] = x] /\ req'[r] = x
    BY <2>1, <2>3 DEF PhotoInv, PhotoType
  <2>5. PhotoCallFits(r)'
    BY <2>3, <2>4 DEF PhotoCallFits, Uploading, Removing
  <2>6. Cardinality(ToSet(L)) <= MAX_PHOTOS /\ l # NoListing
    BY <1>2, <2>2, PhotoAssumption DEF PhotoInv, ListHolds
  <2>7. /\ photos' = [photos EXCEPT ![l] = L] /\ active' = active /\ deleted' = deleted
        /\ active \subseteq Listings /\ deleted \subseteq Listings /\ contended \subseteq Listings
        /\ uploaded \subseteq Photos /\ abandoned \subseteq Listings
    BY <1>1, <1>2, <2>2 DEF PhotoInv, PhotoType, rowVars
  <2>8. ASSUME l \notin contended
        PROVE  /\ \A q \in PhotoRequests \ {r} : req[q].listing # l
               /\ \A o, q \in ToSet(L) : HashOf[o] = HashOf[q] => o = q
               /\ l \notin abandoned => ToSet(L) \subseteq originals' \cap optimized'
    <3>1. l \notin abandoned => ToSet(L) \subseteq originals' \cap optimized'
      BY <1>2, <1>5, <1>6, <1>8, <2>2, <2>8
    <3> QED
      BY <1>2, <2>2, <2>8, <3>1, AloneIs
  <2>9. l \notin contended' =>
           /\ \A q \in PhotoRequests \ {r} : req[q].listing # l
           /\ \A o, q \in ToSet(L) : HashOf[o] = HashOf[q] => o = q
           /\ x.listing = l => Follows(r, l)'
           /\ l \notin abandoned' =>
                /\ (x.listing = l => x.op \notin Deleting) => ToSet(L) \subseteq originals' \cap optimized'
                /\ x.listing = l => FilesFollow(r, l)'
    BY <2>1, <2>3, <2>6, <2>8
  <2>10. /\ ToSet(L) \cup InHands(x) \subseteq Of(l) \cup (uploaded' \ uploaded)
         /\ uploaded \subseteq uploaded' /\ uploaded' \subseteq Photos
         /\ originals' \subseteq uploaded' /\ optimized' \subseteq uploaded'
         /\ active' \subseteq Listings /\ active' \ {l} = active \ {l} /\ deleted' \subseteq Listings
         /\ contended \subseteq contended' /\ contended' \subseteq Listings
         /\ abandoned \subseteq abandoned' /\ abandoned' \subseteq Listings
         /\ req[r].listing \in {l, NoListing} /\ x.listing \in {l, NoListing}
    BY <1>1, <1>2, <1>3, <1>8, <2>1, <2>2, <2>3, <2>7
  <2>11. \A q \in uploaded \ Of(l) : /\ q \in originals' <=> q \in originals
                                     /\ q \in optimized' <=> q \in optimized
    BY <1>2, <1>8
  <2> QED
    BY <1>2, <2>4, <2>5, <2>6, <2>7, <2>9, <2>10, <2>11, PhotoMoves
<1> QED
  BY <1>1, <1>7, <1>8

LEMMA AddedRead ==
  ASSUME PhotoInv, NEW r \in PhotoRequests, AddRead(r) PROVE PhotoInv'
<1>1. /\ req[r].op = "add" /\ req[r].listing \in active /\ Len(photos[req[r].listing]) < MAX_PHOTOS
      /\ req' = [req EXCEPT ![r].op = "append",
                            ![r].list = Append(photos[req[r].listing], req[r].photo)]
      /\ UNCHANGED rowVars /\ photos' = photos /\ active' = active /\ uploaded' = uploaded
      /\ originals' = originals /\ optimized' = optimized
      /\ contended' = contended /\ abandoned' = abandoned
  BY DEF AddRead, rowVars, fileVars
<1>2. PICK l \in Listings, p \in Photos, z \in Seq(Photos) :
        /\ req[r] = [op |-> "add", listing |-> l, photo |-> p, list |-> z]
        /\ req[r].listing = l /\ req[r].photo = p /\ p \in Of(l)
  BY <1>1, CallIs DEF Uploading
<1>3. PICK L \in Seq(Photos) : L = photos[l] /\ Listed(l) = ToSet(L)
  BY <1>2 DEF PhotoInv, PhotoType, Listed
<1>4. PICK s \in Seq(Photos) : /\ s = Append(L, p) /\ ToSet(s) = Listed(l) \cup {p}
                               /\ Len(s) = Len(L) + 1 /\ Len(L) \in Nat
  <2>1. Append(L, p) \in Seq(Photos) /\ Len(Append(L, p)) = Len(L) + 1 /\ Len(L) \in Nat
    BY <1>2, <1>3
  <2>2. ToSet(Append(L, p)) = ToSet(L) \cup {p}
    BY <1>2, <1>3, ListAppended
  <2> QED
    BY <1>3, <2>1, <2>2
<1>5. PICK op \in PhotoOps : op = "append"
  BY DEF PhotoOps
<1>6. PICK pp \in Photos \cup {NoPhoto} : pp = p
  BY <1>2
<1>7. PICK x \in PhotoCalls : /\ x = [op |-> op, listing |-> l, photo |-> pp, list |-> s]
                              /\ x.op = op /\ x.listing = l /\ x.photo = pp /\ x.list = s
  <2>1. l \in Listings /\ s \in Seq(Photos)
    BY <1>2, <1>4
  <2> QED
    BY <1>5, <1>6, <2>1, StateIs
<1>8. req' = [req EXCEPT ![r] = x] /\ req'[r] = x
  <2>1. req' = [req EXCEPT ![r].op = "append", ![r].list = s]
    BY <1>1, <1>2, <1>3, <1>4
  <2>2. [[req[r] EXCEPT !.op = "append"] EXCEPT !.list = s] = x
    <3>1. [req[r] EXCEPT !.op = "append"] = [op |-> "append", listing |-> l, photo |-> p, list |-> z]
      BY <1>2
    <3>2. [[op |-> "append", listing |-> l, photo |-> p, list |-> z] EXCEPT !.list = s]
            = [op |-> "append", listing |-> l, photo |-> p, list |-> s]
      OBVIOUS
    <3> QED
      BY <1>5, <1>6, <1>7, <3>1, <3>2
  <2>3. req \in [PhotoRequests -> PhotoCalls]
    BY DEF PhotoInv, PhotoType
  <2> QED
    BY <2>1, <2>2, <2>3
<1>9. Cardinality(ToSet(s)) <= MAX_PHOTOS
  <2>1. /\ Cardinality(ToSet(s)) \in Nat /\ Cardinality(ToSet(s)) <= Len(s)
        /\ Len(s) \in Nat /\ MAX_PHOTOS \in Nat
    <3>1. s \in Seq(Photos) /\ Len(s) \in Nat
      BY <1>4
    <3> QED
      BY <3>1, ListCounted, PhotoAssumption
  <2>2. Len(L) < MAX_PHOTOS
    BY <1>1, <1>2, <1>3
  <2> QED
    BY <1>4, <2>1, <2>2
<1>10. /\ Of(l) \subseteq uploaded /\ Listed(l)' = Listed(l) /\ Listed(l) \subseteq Of(l)
       /\ originals \subseteq uploaded /\ optimized \subseteq uploaded
  BY <1>1, <1>2 DEF PhotoInv, PhotoType, Listed, Of
<1>11. InHands(x) \subseteq Of(l)
  BY <1>2, <1>4, <1>6, <1>7, <1>10 DEF InHands
<1>12. PhotoCallFits(r)'
  <2>1. x # Idle
    BY <1>2, <1>7, IdleIs, PhotoAssumption
  <2> QED
    BY <1>2, <1>5, <1>6, <1>7, <1>8, <1>9, <2>1 DEF PhotoCallFits, Uploading, Removing
<1>13. l \notin contended => Follows(r, l)'
  <2>1. l \notin contended => Follows(r, l)
    BY <1>2, AloneIs
  <2>2. l \notin contended =>
          /\ p \notin Listed(l)
          /\ \A q \in Listed(l) : HashOf[q] # HashOf[p]
    BY <1>1, <1>2, <2>1 DEF Follows, Uploading
  <2> QED
    BY <1>1, <1>4, <1>5, <1>6, <1>7, <1>8, <1>10, <2>2 DEF Follows, Uploading, Removing
<1>14. l \notin contended \cup abandoned =>
           /\ x.op \notin Deleting => Listed(l) \subseteq originals' \cap optimized'
           /\ FilesFollow(r, l)'
  <2>1. l \notin contended \cup abandoned => Listed(l) \subseteq originals \cap optimized /\ FilesFollow(r, l)
    BY <1>1, <1>2, AloneIs DEF Deleting
  <2>2. l \notin contended \cup abandoned => p \in originals /\ p \in optimized
    BY <1>1, <1>2, <2>1 DEF FilesFollow
  <2>3. l \notin contended \cup abandoned => FilesFollow(r, l)'
    BY <1>1, <1>5, <1>6, <1>7, <1>8, <2>2 DEF FilesFollow
  <2> QED
    BY <1>1, <2>1, <2>3
<1>15. /\ UNCHANGED <<rowVars, uploaded, contended, abandoned>>
       /\ originals' \subseteq uploaded /\ optimized' \subseteq uploaded /\ req[r].op # "idle"
       /\ \A q \in uploaded \ Of(l) : /\ q \in originals' <=> q \in originals
                                      /\ q \in optimized' <=> q \in optimized
  BY <1>1, <1>10
<1> QED
  BY <1>2, <1>7, <1>8, <1>11, <1>12, <1>13, <1>14, <1>15, PhotoGoesOn

LEMMA UnlinkedOriginal ==
  ASSUME PhotoInv, NEW r \in PhotoRequests, UnlinkOriginal(r) PROVE PhotoInv'
<1>1. /\ req[r].op = "unlink" /\ originals' = originals \ {req[r].photo} /\ Continue(r, "unlinkOptimized")
      /\ UNCHANGED rowVars /\ photos' = photos /\ active' = active /\ uploaded' = uploaded /\ optimized' = optimized
  BY DEF UnlinkOriginal, rowVars
<1>2. PICK l \in Listings, p \in Photos, s \in Seq(Photos) :
        /\ req[r].listing = l /\ req[r].photo = p /\ req[r].list = s /\ p \in Of(l)
        /\ Cardinality(ToSet(s)) <= MAX_PHOTOS
  BY <1>1, CallIs DEF Removing
<1>3. PICK op \in PhotoOps : op = "unlinkOptimized"
  BY DEF PhotoOps
<1>4. PICK x \in PhotoCalls :
           /\ req' = [req EXCEPT ![r] = x] /\ req'[r] = x /\ contended' = contended /\ abandoned' = abandoned
           /\ x.op = op /\ x.listing = l /\ x.photo = p /\ x.list = s
           /\ x # Idle /\ InHands(x) = InHands(req[r])
  BY <1>1, <1>2, <1>3, CallGoesOn
<1>5. InHands(x) \subseteq Of(l) /\ Of(l) \subseteq uploaded /\ Listed(l)' = Listed(l)
      /\ originals \subseteq uploaded /\ optimized \subseteq uploaded
  BY <1>1, <1>2, <1>4, InHandsIsOf DEF PhotoInv, PhotoType, Listed
<1>6. PhotoCallFits(r)'
  BY <1>2, <1>3, <1>4 DEF PhotoCallFits, Uploading, Removing
<1>7. l \notin contended => Follows(r, l)'
  <2>1. l \notin contended => Follows(r, l)
    BY <1>2, AloneIs
  <2>2. l \notin contended => ToSet(s) = Listed(l) \ {p}
    BY <1>1, <1>2, <2>1 DEF Follows, Removing
  <2> QED
    BY <1>1, <1>2, <1>3, <1>4, <1>5, <2>2 DEF Follows, Uploading, Removing
<1>8. l \notin contended \cup abandoned =>
           /\ x.op \notin Deleting => Listed(l) \subseteq originals' \cap optimized'
           /\ FilesFollow(r, l)'
  <2>1. l \notin contended \cup abandoned => Listed(l) \subseteq originals \cap optimized
    BY <1>1, <1>2, AloneIs DEF Deleting
  <2>2. l \notin contended \cup abandoned => Listed(l) \ {p} \subseteq originals' \cap optimized'
    BY <1>1, <1>2, <2>1
  <2>3. l \notin contended \cup abandoned => FilesFollow(r, l)'
    BY <1>3, <1>4, <1>5, <2>2 DEF FilesFollow
  <2> QED
    BY <1>3, <1>4, <2>3 DEF Deleting
<1>9. /\ UNCHANGED <<rowVars, uploaded, contended, abandoned>>
      /\ originals' \subseteq uploaded /\ optimized' \subseteq uploaded /\ req[r].op # "idle"
      /\ \A q \in uploaded \ Of(l) : /\ q \in originals' <=> q \in originals
                                     /\ q \in optimized' <=> q \in optimized
  BY <1>1, <1>2, <1>4, <1>5
<1> QED
  BY <1>2, <1>4, <1>5, <1>6, <1>7, <1>8, <1>9, PhotoGoesOn

LEMMA UnlinkedOptimized ==
  ASSUME PhotoInv, NEW r \in PhotoRequests, UnlinkOptimized(r) PROVE PhotoInv'
<1>1. /\ req[r].op = "unlinkOptimized" /\ optimized' = optimized \ {req[r].photo} /\ Continue(r, "shorten")
      /\ UNCHANGED rowVars /\ photos' = photos /\ active' = active /\ uploaded' = uploaded /\ originals' = originals
  BY DEF UnlinkOptimized, rowVars
<1>2. PICK l \in Listings, p \in Photos, s \in Seq(Photos) :
        /\ req[r].listing = l /\ req[r].photo = p /\ req[r].list = s /\ p \in Of(l)
        /\ Cardinality(ToSet(s)) <= MAX_PHOTOS
  BY <1>1, CallIs DEF Removing
<1>3. PICK op \in PhotoOps : op = "shorten"
  BY DEF PhotoOps
<1>4. PICK x \in PhotoCalls :
           /\ req' = [req EXCEPT ![r] = x] /\ req'[r] = x /\ contended' = contended /\ abandoned' = abandoned
           /\ x.op = op /\ x.listing = l /\ x.photo = p /\ x.list = s
           /\ x # Idle /\ InHands(x) = InHands(req[r])
  BY <1>1, <1>2, <1>3, CallGoesOn
<1>5. InHands(x) \subseteq Of(l) /\ Of(l) \subseteq uploaded /\ Listed(l)' = Listed(l)
      /\ originals \subseteq uploaded /\ optimized \subseteq uploaded
  BY <1>1, <1>2, <1>4, InHandsIsOf DEF PhotoInv, PhotoType, Listed
<1>6. PhotoCallFits(r)'
  BY <1>2, <1>3, <1>4 DEF PhotoCallFits, Uploading, Removing
<1>7. l \notin contended => Follows(r, l)'
  <2>1. l \notin contended => Follows(r, l)
    BY <1>2, AloneIs
  <2>2. l \notin contended => ToSet(s) = Listed(l) \ {p} /\ p \notin originals
    BY <1>1, <1>2, <2>1 DEF Follows, Removing
  <2> QED
    BY <1>1, <1>2, <1>3, <1>4, <1>5, <2>2 DEF Follows, Uploading, Removing
<1>8. l \notin contended \cup abandoned =>
           /\ x.op \notin Deleting => Listed(l) \subseteq originals' \cap optimized'
           /\ FilesFollow(r, l)'
  <2>1. l \notin contended \cup abandoned => FilesFollow(r, l)
    BY <1>2, AloneIs
  <2>2. l \notin contended \cup abandoned => Listed(l) \ {p} \subseteq originals' \cap optimized'
    BY <1>1, <1>2, <2>1 DEF FilesFollow
  <2>3. l \notin contended \cup abandoned => FilesFollow(r, l)'
    BY <1>3, <1>4, <1>5, <2>2 DEF FilesFollow
  <2> QED
    BY <1>3, <1>4, <2>3 DEF Deleting
<1>9. /\ UNCHANGED <<rowVars, uploaded, contended, abandoned>>
      /\ originals' \subseteq uploaded /\ optimized' \subseteq uploaded /\ req[r].op # "idle"
      /\ \A q \in uploaded \ Of(l) : /\ q \in originals' <=> q \in originals
                                     /\ q \in optimized' <=> q \in optimized
  BY <1>1, <1>2, <1>4, <1>5
<1> QED
  BY <1>2, <1>4, <1>5, <1>6, <1>7, <1>8, <1>9, PhotoGoesOn

LEMMA ClearedOptimized ==
  ASSUME PhotoInv, NEW r \in PhotoRequests, ClearOptimized(r) PROVE PhotoInv'
<1>1. /\ req[r].op = "clear" /\ req[r].list # <<>> /\ optimized' = optimized \ {Head(req[r].list)}
      /\ Continue(r, "clearOriginal")
      /\ UNCHANGED rowVars /\ photos' = photos /\ active' = active /\ uploaded' = uploaded /\ originals' = originals
  BY DEF ClearOptimized, rowVars
<1>2. PICK l \in Listings, s \in Seq(Photos) :
        req[r].listing = l /\ req[r].list = s /\ ToSet(s) \subseteq Of(l)
  BY <1>1, CallIs
<1>3. PICK op \in PhotoOps : op = "clearOriginal"
  BY DEF PhotoOps
<1>4. PICK x \in PhotoCalls :
           /\ req' = [req EXCEPT ![r] = x] /\ req'[r] = x /\ contended' = contended /\ abandoned' = abandoned
           /\ x.op = op /\ x.listing = l /\ x.list = s
           /\ x # Idle /\ InHands(x) = InHands(req[r])
  BY <1>1, <1>2, <1>3, CallGoesOn
<1>5. InHands(x) \subseteq Of(l) /\ Of(l) \subseteq uploaded /\ Listed(l)' = Listed(l)
      /\ originals \subseteq uploaded /\ optimized \subseteq uploaded
  BY <1>1, <1>2, <1>4, InHandsIsOf DEF PhotoInv, PhotoType, Listed
<1>6. PhotoCallFits(r)'
  BY <1>1, <1>2, <1>3, <1>4 DEF PhotoCallFits, Uploading, Removing
<1>7. l \notin contended => Follows(r, l)'
  <2>1. l \notin contended => Follows(r, l)
    BY <1>2, AloneIs
  <2>2. l \notin contended =>
          \A q \in Listed(l) : q \in ToSet(s) \/ q \notin originals \cup optimized
    BY <1>1, <1>2, <2>1 DEF Follows
  <2>3. PICK h : h = Head(s) /\ optimized' = optimized \ {h}
    BY <1>1, <1>2
  <2> QED
    BY <1>1, <1>3, <1>4, <1>5, <2>2, <2>3 DEF Follows, Uploading, Removing
<1>8. /\ x.op \notin Deleting => Listed(l) \subseteq originals' \cap optimized'
      /\ FilesFollow(r, l)'
  BY <1>3, <1>4 DEF FilesFollow, Deleting
<1>9. Head(s) \in Of(l)
  BY <1>1, <1>2, ListShortened
<1>10. /\ UNCHANGED <<rowVars, uploaded, contended, abandoned>>
       /\ originals' \subseteq uploaded /\ optimized' \subseteq uploaded /\ req[r].op # "idle"
       /\ \A q \in uploaded \ Of(l) : /\ q \in originals' <=> q \in originals
                                      /\ q \in optimized' <=> q \in optimized
  BY <1>1, <1>2, <1>4, <1>5, <1>9
<1> QED
  BY <1>2, <1>4, <1>5, <1>6, <1>7, <1>8, <1>10, PhotoGoesOn

LEMMA ClearedOriginal ==
  ASSUME PhotoInv, NEW r \in PhotoRequests, ClearOriginal(r) PROVE PhotoInv'
<1>1. /\ req[r].op = "clearOriginal" /\ originals' = originals \ {Head(req[r].list)}
      /\ req' = [req EXCEPT ![r].op = "clear", ![r].list = Tail(req[r].list)]
      /\ contended' = contended /\ abandoned' = abandoned
      /\ UNCHANGED rowVars /\ photos' = photos /\ active' = active /\ uploaded' = uploaded /\ optimized' = optimized
  BY DEF ClearOriginal, rowVars
<1>2. PICK l \in Listings, p \in Photos \cup {NoPhoto}, s \in Seq(Photos) :
        /\ req[r] = [op |-> "clearOriginal", listing |-> l, photo |-> p, list |-> s]
        /\ req[r].listing = l /\ req[r].list = s /\ ToSet(s) \subseteq Of(l)
        /\ s # <<>> /\ (p \in Photos => p \in Of(l))
  BY <1>1, CallIs
<1>3. PICK h \in Photos, t \in Seq(Photos) : h = Head(s) /\ t = Tail(s) /\ ToSet(s) = ToSet(t) \cup {h}
  <2>1. ToSet(s) \subseteq Photos
    BY <1>2, ListElements
  <2> QED
    BY <1>2, <2>1, ListShortened
<1>4. PICK op \in PhotoOps : op = "clear"
  BY DEF PhotoOps
<1>5. PICK x \in PhotoCalls : /\ x = [op |-> op, listing |-> l, photo |-> p, list |-> t]
                              /\ x.op = op /\ x.listing = l /\ x.photo = p /\ x.list = t
  <2>1. op \in PhotoOps /\ l \in Listings /\ t \in Seq(Photos) /\ p \in Photos \cup {NoPhoto}
    BY <1>2, <1>3, <1>4
  <2> QED
    BY <2>1, StateIs
<1>6. req' = [req EXCEPT ![r] = x] /\ req'[r] = x
  <2>1. req' = [req EXCEPT ![r].op = "clear", ![r].list = t]
    BY <1>1, <1>2, <1>3
  <2>2. [[req[r] EXCEPT !.op = "clear"] EXCEPT !.list = t] = x
    <3>1. [req[r] EXCEPT !.op = "clear"] = [op |-> "clear", listing |-> l, photo |-> p, list |-> s]
      BY <1>2
    <3>2. [[op |-> "clear", listing |-> l, photo |-> p, list |-> s] EXCEPT !.list = t]
            = [op |-> "clear", listing |-> l, photo |-> p, list |-> t]
      OBVIOUS
    <3> QED
      BY <1>4, <1>5, <3>1, <3>2
  <2>3. req \in [PhotoRequests -> PhotoCalls]
    BY DEF PhotoInv, PhotoType
  <2> QED
    BY <2>1, <2>2, <2>3
<1>7. /\ InHands(x) \subseteq Of(l) /\ Of(l) \subseteq uploaded /\ Listed(l)' = Listed(l)
      /\ originals \subseteq uploaded /\ optimized \subseteq uploaded
  <2>1. InHands(x) \subseteq Of(l)
    <3>1. ToSet(t) \subseteq Of(l)
      BY <1>2, <1>3
    <3> QED
      BY <1>2, <1>5, <3>1 DEF InHands
  <2> QED
    BY <1>1, <1>2, <2>1 DEF PhotoInv, PhotoType, Listed
<1>8. PhotoCallFits(r)'
  <2>1. x # Idle
    BY <1>2, <1>5, IdleIs, PhotoAssumption
  <2> QED
    BY <1>2, <1>4, <1>5, <1>6, <2>1 DEF PhotoCallFits, Uploading, Removing
<1>9. l \notin contended => Follows(r, l)'
  <2>1. l \notin contended => Follows(r, l)
    BY <1>2, AloneIs
  <2>2. l \notin contended =>
          /\ \A q \in Listed(l) : q \in ToSet(s) \/ q \notin originals \cup optimized
          /\ h \notin optimized
    BY <1>1, <1>2, <1>3, <2>1 DEF Follows
  <2>3. l \notin contended =>
          \A q \in Listed(l) : q \in ToSet(t) \/ q \notin originals' \cup optimized'
    BY <1>1, <1>2, <1>3, <2>2
  <2> QED
    BY <1>4, <1>5, <1>6, <1>7, <2>3 DEF Follows, Uploading, Removing
<1>10. /\ FilesFollow(r, l)'
       /\ l \notin contended \cup abandoned =>
            (x.op \notin Deleting => Listed(l) \subseteq originals' \cap optimized')
  BY <1>4, <1>5, <1>6 DEF FilesFollow, Deleting
<1>11. /\ UNCHANGED <<rowVars, uploaded, contended, abandoned>>
       /\ originals' \subseteq uploaded /\ optimized' \subseteq uploaded /\ req[r].op # "idle"
       /\ \A q \in uploaded \ Of(l) : /\ q \in originals' <=> q \in originals
                                      /\ q \in optimized' <=> q \in optimized
  BY <1>1, <1>2, <1>3, <1>7
<1> QED
  BY <1>2, <1>5, <1>6, <1>7, <1>8, <1>9, <1>10, <1>11, PhotoGoesOn

LEMMA PhotoStart == Init => PhotoInv
<1> SUFFICES ASSUME Init PROVE PhotoInv
  OBVIOUS
<1>1. <<>> \in Seq(Photos)
  OBVIOUS
<1>2. PhotoType
  BY <1>1, IdleIs DEF Init, PhotoType
<1>3. \A r \in PhotoRequests : req[r] = Idle
  BY DEF Init
<1>4. \A l \in Listings : Listed(l) = {} /\ l # NoListing
  BY EmptyList, PhotoAssumption DEF Init, Listed
<1>5. \A l \in Listings : Of(l) = {}
  BY <1>3, <1>4, IdleIs DEF Of
<1>6. \A r \in PhotoRequests : PhotoCallFits(r)
  BY <1>3, IdleIs DEF PhotoCallFits, Uploading, Removing
<1>7. ASSUME NEW l \in Listings PROVE ListHolds(l)
  <2>1. \A r \in PhotoRequests : req[r].listing # l
    BY <1>3, <1>4, IdleIs
  <2>2. Cardinality({}) = 0 /\ MAX_PHOTOS \in Nat
    BY FS_EmptySet, PhotoAssumption
  <2>3. Cardinality(Listed(l)) = Cardinality({})
    BY <1>4
  <2>4. Cardinality(Listed(l)) <= MAX_PHOTOS
    BY <2>2, <2>3
  <2> QED
    BY <1>4, <2>1, <2>4 DEF ListHolds, FilesHold
<1> QED
  BY <1>2, <1>5, <1>6, <1>7 DEF PhotoInv

LEMMA PhotoSame == PhotoInv /\ UNCHANGED vars => PhotoInv'
<1> SUFFICES ASSUME PhotoInv, UNCHANGED vars PROVE PhotoInv'
  OBVIOUS
<1>1. /\ photos' = photos /\ active' = active /\ deleted' = deleted /\ uploaded' = uploaded
      /\ originals' = originals /\ optimized' = optimized /\ req' = req
      /\ contended' = contended /\ abandoned' = abandoned
  BY DEF vars, rowVars, fileVars
<1>2. \A l \in Listings : Of(l)' = Of(l) /\ (ListHolds(l) => ListHolds(l)')
  BY <1>1 DEF Of, Listed, InHands, ListHolds, FilesHold, Follows, FilesFollow, Undisturbed
<1>3. \A r \in PhotoRequests : PhotoCallFits(r) => PhotoCallFits(r)'
  BY <1>1 DEF PhotoCallFits
<1> QED
  BY <1>1, <1>2, <1>3 DEF PhotoInv, PhotoType

LEMMA PhotoInvariance == Spec => []PhotoInv
<1>1. PhotoInv /\ [Next]_vars => PhotoInv'
  <2> SUFFICES ASSUME PhotoInv, [Next]_vars PROVE PhotoInv'
    OBVIOUS
  <2>1. CASE UNCHANGED vars
    BY <2>1, PhotoSame
  <2>2. ASSUME NEW r \in PhotoRequests, Step(r) PROVE PhotoInv'
    BY <2>2, SavedOriginal, SavedOptimized, AddedRead, UnlinkedOriginal, UnlinkedOptimized,
       UpdatedPhotos, ClearedOptimized, ClearedOriginal, ClearedPhotos, FailedPhotos DEF Step
  <2>3. ASSUME NEW r \in PhotoRequests, NEW l \in Listings, Start(r, l) PROVE PhotoInv'
    BY <2>3, TogglePhotos, RejectedPhotos, HardDeletedPhotos, UploadStarted, RemoveStarted,
       ReorderStarted, DownloadStarted DEF Start
  <2> QED
    BY <2>1, <2>2, <2>3 DEF Next
<1> QED
  BY <1>1, PhotoStart, PTL DEF Spec

(***************************************************************************)
(* Whatever uploads, removals, reorderings and downloads overlap, the list *)
(* of photos holds the limit; and on a listing no two requests handled at  *)
(* once it has no picture twice and, where none died at its files, both    *)
(* files of each photo.                                                    *)
(***************************************************************************)
THEOREM PhotosAreSoundKept == Spec => []PhotosAreSound
<1>1. PhotoInv => PhotosAreSound
  <2> SUFFICES ASSUME PhotoInv PROVE PhotosAreSound
    OBVIOUS
  <2>1. PhotoType /\ \A l \in Listings : ListHolds(l)
    BY DEF PhotoInv
  <2>2. TypeOK
    <3>1. ASSUME NEW l \in Listings PROVE photos[l] \in Seq(uploaded)
      <4>1. PICK L \in Seq(Photos) : L = photos[l]
        BY <2>1 DEF PhotoType
      <4>2. ToSet(L) \subseteq uploaded
        BY <4>1 DEF PhotoInv, Of, Listed
      <4> QED
        BY <4>1, <4>2, ListWithin
    <3>2. photos \in [Listings -> Seq(uploaded)]
      BY <2>1, <3>1 DEF PhotoType
    <3>3. ASSUME NEW r \in PhotoRequests PROVE req[r] \in RequestStates
      <4>1. CASE req[r].op = "idle"
        <5>1. req[r] = Idle
          BY <4>1 DEF PhotoInv, PhotoCallFits
        <5>2. <<>> \in Seq(uploaded)
          OBVIOUS
        <5> QED
          BY <5>1, <5>2 DEF Idle, RequestStates
      <4>2. CASE req[r].op # "idle"
        <5>1. PICK l \in Listings, p \in Photos \cup {NoPhoto}, s \in Seq(Photos), o \in PhotoOps \ {"idle"} :
               /\ req[r] = [op |-> o, listing |-> l, photo |-> p, list |-> s]
               /\ req[r].op = o /\ req[r].listing = l /\ req[r].photo = p /\ req[r].list = s
               /\ o \in Uploading \cup Removing => p \in Photos
               /\ o \in Removing \cup {"append", "order"} => Cardinality(ToSet(s)) <= MAX_PHOTOS
               /\ o = "clearOriginal" => s # <<>>
               /\ ToSet(s) \subseteq Of(l)
               /\ p \in Photos => p \in Of(l)
          BY <4>2, CallIs
        <5>2. Of(l) \subseteq uploaded
          BY <5>1 DEF PhotoInv
        <5>3. s \in Seq(uploaded)
          <6>1. s \in Seq(Photos) /\ ToSet(s) \subseteq uploaded
            BY <5>1, <5>2
          <6> QED
            BY <6>1, ListWithin
        <5>4. l \in Listings \cup {NoListing} /\ p \in uploaded \cup {NoPhoto} /\ o \in PhotoOps
          BY <5>1, <5>2
        <5> QED
          BY <5>1, <5>3, <5>4 DEF RequestStates, PhotoOps
      <4> QED
        BY <4>1, <4>2
    <3>4. req \in [PhotoRequests -> RequestStates]
      BY <2>1, <3>3 DEF PhotoType
    <3> QED
      BY <2>1, <3>2, <3>4 DEF TypeOK, PhotoType
  <2>3. WithinLimit
    BY <2>1 DEF WithinLimit, ListHolds
  <2>4. UniqueContent
    BY <2>1 DEF UniqueContent, ListHolds
  <2>5. ListedHasFiles
    BY <2>1 DEF ListedHasFiles, ListHolds, FilesHold
  <2> QED
    BY <2>2, <2>3, <2>4, <2>5 DEF PhotosAreSound
<1> QED
  BY <1>1, PhotoInvariance, PTL

(***************************************************************************)
(* A photo leaves the list after both of its files, but for the rejection  *)
(* and the deletion of all: on a listing no two requests handled at once   *)
(* no other write of the whole list drops it.                              *)
(***************************************************************************)
THEOREM LeavesAfterItsFilesKept == Spec => LeavesAfterItsFiles
<1>1. PhotoInv /\ [Next]_vars =>
        [\A l \in Listings \ contended' : \A p \in Listed(l) \ Listed(l)' :
           \/ p \notin originals \cup optimized
           \/ \E r \in PhotoRequests : RejectPhotos(r, l) \/ HardDelete(r, l)]_vars
  <2> SUFFICES ASSUME PhotoInv, Next, NEW l \in Listings \ contended', NEW p \in Listed(l) \ Listed(l)',
                      \A r \in PhotoRequests : ~RejectPhotos(r, l) /\ ~HardDelete(r, l)
               PROVE  p \notin originals \cup optimized
    OBVIOUS
  <2>1. PhotoType /\ photos'[l] # photos[l]
    BY DEF PhotoInv, Listed
  <2>2. PICK r \in PhotoRequests : Step(r) \/ \E m \in Listings : Start(r, m)
    BY DEF Next
  <2>3. ASSUME NEW m \in Listings, RejectPhotos(r, m) \/ HardDelete(r, m) PROVE FALSE
    <3>1. m # l
      BY <2>3
    <3>2. photos' = [photos EXCEPT ![m] = <<>>]
      BY <2>3 DEF RejectPhotos, HardDelete
    <3> QED
      BY <2>1, <3>1, <3>2 DEF PhotoType
  <2>4. ~\E m \in Listings : Start(r, m)
    BY <2>1, <2>3 DEF Start, ToggleActive, UploadStart, RemoveStart, ReorderStart, DownloadStart, rowVars
  <2>5. UpdateListingPhotos(r) \/ ClearListingPhotos(r)
    BY <2>1, <2>2, <2>4 DEF Step, SaveOriginal, SaveOptimized, AddRead, UnlinkOriginal, UnlinkOptimized,
      ClearOptimized, ClearOriginal, Fail, rowVars
  <2>6. /\ req[r].op # "idle" /\ contended' = contended
        /\ \/ req[r].op \in {"append", "shorten", "order"} /\ photos' = [photos EXCEPT ![req[r].listing] = req[r].list]
           \/ /\ req[r].op = "clear" /\ req[r].list = <<>>
              /\ photos' = [photos EXCEPT ![req[r].listing] = <<>>]
    BY <2>5 DEF UpdateListingPhotos, ClearListingPhotos, Finish
  <2>7. PICK m \in Listings, s \in Seq(Photos) : req[r].listing = m /\ req[r].list = s
    BY <2>6, CallIs
  <2>8. m = l /\ photos'[l] = s
    BY <2>1, <2>6, <2>7 DEF PhotoType
  <2>9. Follows(r, l) /\ Listed(l)' = ToSet(s) /\ req[r].listing = l /\ req[r].list = s
    BY <2>6, <2>7, <2>8, AloneIs DEF Listed
  <2>10. req[r].op \in {"append", "order"} => Listed(l) \subseteq ToSet(s)
    BY <2>9 DEF Follows
  <2>11. CASE req[r].op = "shorten"
    BY <2>9, <2>11 DEF Follows, Removing
  <2>12. CASE req[r].op = "clear"
    BY <2>6, <2>9, <2>12, EmptyList DEF Follows
  <2> QED
    BY <2>6, <2>9, <2>10, <2>11, <2>12
<1> QED
  BY <1>1, PhotoInvariance, PTL DEF Spec, LeavesAfterItsFiles
=============================================================================
