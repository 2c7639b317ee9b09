------------------------------- MODULE MCSeller -------------------------------
(***************************************************************************)
(* The team and its leads, one seller's engagement in its three parts, or  *)
(* an account: its password, its lockout or its second factor.  They share *)
(* no row: a behaviour is one of one part (which no step changes).         *)
(***************************************************************************)
EXTENDS Team, Account, TLC

CONSTANTS s1, a1, a2, r1, r2, k1, k2, l1, l2, l3, c1, c2, c3, Records, NoRecord

VARIABLES part, status, step, saved, cdd, eaa, vouched, explained, flag, correction, applied,
          handler, overtaken, cut

engagement == <<status, step, saved, cdd, eaa, vouched, explained, flag, correction, applied,
                handler, overtaken, cut>>

Eng == INSTANCE Engagement WITH call <- handler

MCInit ==
  /\ part \in {"team", "agree", "onboard", "case", "password", "login", "factor"}
  /\ TeamInit /\ Eng!EngInit /\ AccountInit
  /\ account = "invited" => part \in {"password", "login", "factor"}

AccountStep ==
  \/ \E r \in AccountRequests : Abort(r)
  \/ /\ part = "password"
     /\ TokenExpires \/ \E r \in AccountRequests : RegistrationStep(r) \/ PasswordStep(r)
  \/ /\ part = "login"
     /\ \/ LockoutEnds
        \/ \E r \in AccountRequests :
             LoginStep(r) \/ RegisterSeller(r) \/ CreateSellerWithConsent(r)
  \/ /\ part = "factor"
     /\ \/ LockoutEnds \/ Setup2FA
        \/ \E r \in AccountRequests :
             FactorStep(r) \/ RegisterSeller(r) \/ CreateSellerWithConsent(r)

MCNext ==
  /\ UNCHANGED part
  /\ \/ part = "team" /\ TeamNext /\ UNCHANGED <<engagement, accountVars>>
     \/ /\ \/ part = "agree" /\ Eng!AgreeNext
           \/ part = "onboard" /\ Eng!OnboardNext
           \/ part = "case" /\ Eng!CaseNext
        /\ UNCHANGED <<teamVars, accountVars>>
     \/ /\ part \in {"password", "login", "factor"} /\ AccountStep
        /\ UNCHANGED <<teamVars, engagement>>

MCSpec == MCInit /\ [][MCNext]_<<part, teamVars, engagement, accountVars>>

\* Of both: the types, and what a row announces has what it rests on (an onboarding
\* step its data, a correction its field, an active agreement its active seller).
OutcomeIsBacked == TeamTypeOK /\ Eng!EngTypeOK /\ Eng!OutcomeIsBacked

\* Status, agreement, flag and step follow their tables, and verified due diligence
\* is undone by an admin, but where a handler was overtaken.
EngagementFollowsRules == Eng!EngagementFollowsRules

\* Records are of the engagement, links and codes of an account, and a behaviour is of
\* one of them: two of each change places at once.
Exchange ==
  (k1 :> k2) @@ (k2 :> k1) @@ (l1 :> l2) @@ (l2 :> l1) @@ (c1 :> c2) @@ (c2 :> c1)

Symmetry == Permutations(Agents) \cup Permutations(Requests) \cup {Exchange}
=============================================================================
