------------------------------ MODULE SellerProofs -----------------------------
(***************************************************************************)
(* Proofs about Team and about Engagement, for any number of sellers,      *)
(* agents and requests.                                                    *)
(***************************************************************************)
EXTENDS MCSeller, Sequences, TLAPS

\* The operations on a seller who has a row, and those on an agent.
OnSeller == {"token", "pick", "mark", "resend", "details", "assign", "assignDefault"}
OnAgent == Giving \cup Ending

\* A request works on rows that exist; nobody has the seller before there is one.
RowsExist ==
  /\ \A r \in Requests :
       /\ call[r].op = "create" => call[r].s \in Sellers
       /\ call[r].op \in OnSeller => call[r].s \in Sellers /\ stage[call[r].s] # "none"
       /\ call[r].op \in OnAgent => call[r].a \in Agents
  /\ \A s \in Sellers : stage[s] = "none" => agentOf[s] = Nobody

TypeInv == TeamTypeOK /\ RowsExist

\* Whoever gives an agent work has looked at him, or another handler has met them.
GivesToActive ==
  \A r \in Requests : call[r].op \in Giving =>
    agent[call[r].a] = "active" \/ call[r].a \in raced

\* Whoever ends an agent's work finds it as he left it when he looked.
EndsIdle ==
  \A r \in Requests : call[r].op \in Ending /\ call[r].a \notin raced =>
    /\ default # call[r].a
    /\ call[r].op # "count" => WorkOf(call[r].a) = {}

TeamInv == TypeInv /\ GivesToActive /\ EndsIdle /\ InactiveHasNoWork

-----------------------------------------------------------------------------
(* What the helpers do to a request's state.                               *)

LEMMA Entered ==
  ASSUME TeamTypeOK, NEW r \in Requests, NEW op, NEW s \in Sellers \cup {Nobody},
         NEW a \in Agents \cup {Nobody}, Enter(r, op, s, a)
  PROVE  /\ call[r].op = "idle"
         /\ call'[r] = [op |-> op, s |-> s, a |-> a]
         /\ \A q \in Requests \ {r} : call'[q] = call[q]
BY DEF TeamTypeOK, Enter

LEMMA Left ==
  ASSUME TeamTypeOK, NEW r \in Requests, Leave(r)
  PROVE  /\ call'[r] = Free
         /\ \A q \in Requests \ {r} : call'[q] = call[q]
BY DEF TeamTypeOK, Leave

LEMMA Went ==
  ASSUME TeamTypeOK, NEW r \in Requests, NEW op, Then(r, op)
  PROVE  /\ call'[r].op = op /\ call'[r].s = call[r].s /\ call'[r].a = call[r].a
         /\ \A q \in Requests \ {r} : call'[q] = call[q]
BY DEF TeamTypeOK, Then

-----------------------------------------------------------------------------

LEMMA InitInv == TeamInit => TeamInv
<1> SUFFICES ASSUME TeamInit PROVE TeamInv
  OBVIOUS
<1>1. TeamTypeOK
  BY TeamAssumption DEF TeamInit, TeamTypeOK, Free
<1>2. \A r \in Requests : call[r].op = "idle"
  BY DEF TeamInit, Free
<1>3. RowsExist /\ GivesToActive /\ EndsIdle
  BY <1>2 DEF TeamInit, RowsExist, GivesToActive, EndsIdle, OnSeller, OnAgent, Giving, Ending
<1>4. InactiveHasNoWork
  BY TeamAssumption DEF TeamInit, InactiveHasNoWork, WorkOf
<1> QED
  BY <1>1, <1>3, <1>4 DEF TeamInv, TypeInv

-----------------------------------------------------------------------------
(* Types.                                                                  *)

\* A handler that sets off, about a seller or an agent who has a row.
LEMMA EnterType ==
  ASSUME TypeInv, NEW r \in Requests,
         NEW op \in {"create", "mark", "resend", "details", "setDefault", "assign",
                     "count", "depart"},
         NEW s \in Sellers \cup {Nobody}, NEW a \in Agents \cup {Nobody}, Enter(r, op, s, a),
         op = "create" => s \in Sellers,
         op \in OnSeller => s \in Sellers /\ stage[s] # "none",
         op \in OnAgent => a \in Agents,
         default' \in Agents \cup {Nobody},
         UNCHANGED <<leadVars, agentOf, agentVars, raced>>
  PROVE  TypeInv'
<1> USE DEF TypeInv, leadVars, agentVars
<1>1. /\ call'[r] = [op |-> op, s |-> s, a |-> a]
      /\ \A q \in Requests \ {r} : call'[q] = call[q]
  BY Entered
<1>2. TeamTypeOK'
  BY DEF TeamTypeOK, Enter, Giving, Ending
<1>3. RowsExist'
  BY <1>1 DEF RowsExist
<1> QED
  BY <1>2, <1>3

\* Every step keeps the types.
LEMMA StepType == TypeInv /\ [TeamNext]_teamVars => TypeInv'
<1> SUFFICES ASSUME TypeInv, [TeamNext]_teamVars PROVE TypeInv'
  OBVIOUS
<1> USE DEF TypeInv, leadVars, agentVars, OnSeller, OnAgent, Giving, Ending
<1>1. ASSUME NEW r \in Requests, Quit(r) PROVE TypeInv'
  BY <1>1, TeamAssumption, Left
     DEF Quit, TeamTypeOK, RowsExist, Leave, Free
<1>2. ASSUME NEW r \in Requests, NEW s \in Sellers, SubmitLead(r, s)
      PROVE  TypeInv'
  BY <1>2, EnterType DEF SubmitLead, TeamTypeOK
<1>3. ASSUME NEW r \in Requests, SubmitLeadAtomically(r) PROVE TypeInv'
  BY <1>3, TeamAssumption, Went
     DEF SubmitLeadAtomically, TeamTypeOK, RowsExist, Then
<1>4. ASSUME NEW r \in Requests, SetEmailVerificationToken(r) PROVE TypeInv'
  BY <1>4, TeamAssumption, Left, Went
     DEF SetEmailVerificationToken, TeamTypeOK, RowsExist, Then, Leave, Free
<1>5. ASSUME NEW r \in Requests, PickDefaultAgent(r) PROVE TypeInv'
  <2> DEFINE next == IF default = Nobody THEN Free
                     ELSE [call[r] EXCEPT !.op = "assignDefault", !.a = default]
  <2>0. /\ call' = [call EXCEPT ![r] = next]
        /\ next \in [op : {"idle", "assignDefault"}, s : Sellers \cup {Nobody},
                     a : Agents \cup {Nobody}]
    BY <1>5 DEF PickDefaultAgent, TeamTypeOK, Free
  <2>1. TeamTypeOK'
    BY <1>5, <2>0 DEF PickDefaultAgent, TeamTypeOK
  <2>2. RowsExist'
    BY <1>5, TeamAssumption DEF PickDefaultAgent, TeamTypeOK, RowsExist, Free
  <2> QED
    BY <2>1, <2>2
<1>6. ASSUME NEW r \in Requests, AssignDefaultAgent(r) PROVE TypeInv'
  BY <1>6, TeamAssumption, Left
     DEF AssignDefaultAgent, TeamTypeOK, RowsExist, Leave, Free, Race
<1>7. ASSUME NEW s \in Sellers, LinkExpires(s) PROVE TypeInv'
  BY <1>7, TeamAssumption
     DEF LinkExpires, TeamTypeOK, RowsExist
<1>8. ASSUME NEW r \in Requests, NEW s \in Sellers, VerifyEmailToken(r, s)
      PROVE  TypeInv'
  BY <1>8, EnterType DEF VerifyEmailToken, TeamTypeOK
<1>9. ASSUME NEW r \in Requests, MarkEmailVerified(r) PROVE TypeInv'
  BY <1>9, TeamAssumption, Left
     DEF MarkEmailVerified, TeamTypeOK, RowsExist, Leave, Free
<1>10. ASSUME NEW r \in Requests, NEW s \in Sellers, ResendVerification(r, s)
      PROVE  TypeInv'
  BY <1>10, EnterType DEF ResendVerification, TeamTypeOK
<1>11. ASSUME NEW r \in Requests, NEW s \in Sellers, SubmitLeadDetails(r, s)
      PROVE  TypeInv'
  BY <1>11, EnterType DEF SubmitLeadDetails, TeamTypeOK
<1>12. ASSUME NEW r \in Requests, CreateLeadProperty(r) PROVE TypeInv'
  BY <1>12, TeamAssumption, Left
     DEF CreateLeadProperty, TeamTypeOK, RowsExist, Leave, Free
<1>13. ASSUME NEW s \in Sellers, EndOfSale(s) PROVE TypeInv'
  BY <1>13, TeamAssumption
     DEF EndOfSale, TeamTypeOK, RowsExist
<1>14. ASSUME NEW a \in Agents, CreateAgent(a) PROVE TypeInv'
  BY <1>14, TeamAssumption
     DEF CreateAgent, TeamTypeOK, RowsExist
<1>15. ASSUME NEW r \in Requests, NEW a \in Agents, SetDefaultAgent(r, a)
      PROVE  TypeInv'
  BY <1>15, EnterType DEF SetDefaultAgent, TeamTypeOK
<1>16. ASSUME NEW r \in Requests, UpsertDefaultAgent(r) PROVE TypeInv'
  BY <1>16, TeamAssumption, Left
     DEF UpsertDefaultAgent, TeamTypeOK, RowsExist, Leave, Free, Race
<1>17. ASSUME NEW r \in Requests, NEW s \in Sellers, NEW a \in Agents, AssignSeller(r, s, a)
      PROVE  TypeInv'
  BY <1>17, EnterType DEF AssignSeller, TeamTypeOK
<1>18. ASSUME NEW r \in Requests, WriteAssignment(r) PROVE TypeInv'
  BY <1>18, TeamAssumption, Left
     DEF WriteAssignment, TeamTypeOK, RowsExist, Leave, Free, Race
<1>19. ASSUME NEW r \in Requests, NEW a \in Agents, NEW keep \in BOOLEAN, EndAgent(r, a, keep)
      PROVE  TypeInv'
  BY <1>19, EnterType DEF EndAgent, TeamTypeOK
<1>20. ASSUME NEW r \in Requests, CountActiveSellers(r) PROVE TypeInv'
  BY <1>20, TeamAssumption, Went
     DEF CountActiveSellers, TeamTypeOK, RowsExist, Then
<1>21. ASSUME NEW r \in Requests, EndAgentCommit(r) PROVE TypeInv'
  BY <1>21, TeamAssumption, Left
     DEF EndAgentCommit, TeamTypeOK, RowsExist, Leave, Free, Race
<1>22. ASSUME NEW r \in Requests, NEW a \in Agents, AnonymiseOnDeparture(r, a)
      PROVE  TypeInv'
  BY <1>22, EnterType DEF AnonymiseOnDeparture, TeamTypeOK
<1>23. ASSUME NEW a \in Agents, ReactivateAgent(a) PROVE TypeInv'
  BY <1>23, TeamAssumption
     DEF ReactivateAgent, TeamTypeOK, RowsExist
<1>0. CASE UNCHANGED teamVars
  BY <1>0 DEF teamVars, TeamTypeOK, RowsExist
<1> QED
  BY <1>0, <1>1, <1>2, <1>3, <1>4, <1>5, <1>6, <1>7, <1>8, <1>9, <1>10, <1>11, <1>12,
     <1>13, <1>14, <1>15, <1>16, <1>17, <1>18, <1>19, <1>20, <1>21, <1>22, <1>23
     DEF TeamNext, LeadStep, VerificationStep, AssignmentStep, AgentStep

-----------------------------------------------------------------------------
(* Departures and the work that goes to those who leave.                   *)

\* A step that gives nobody work, and has no handler about an agent set off.
LEMMA QuietStep ==
  ASSUME TeamInv, TypeInv', UNCHANGED <<agentOf, agent, default, raced>>,
         \A s \in Sellers : stage'[s] = "current" => stage[s] = "current" \/ agentOf[s] = Nobody,
         \A q \in Requests : call'[q] = call[q] \/ call'[q].op \notin OnAgent
  PROVE  TeamInv'
<1> USE DEF TeamInv, TypeInv, OnAgent
<1>1. \A a \in Agents : WorkOf(a)' \subseteq WorkOf(a)
  BY TeamAssumption DEF WorkOf
<1>2. GivesToActive'
  BY DEF GivesToActive
<1>3. EndsIdle'
  BY <1>1 DEF EndsIdle, RowsExist
<1>4. InactiveHasNoWork'
  BY <1>1 DEF InactiveHasNoWork
<1> QED
  BY <1>2, <1>3, <1>4

\* Every step keeps them.
LEMMA StepInv == TeamInv /\ [TeamNext]_teamVars => TeamInv'
<1> SUFFICES ASSUME TeamInv, [TeamNext]_teamVars PROVE TeamInv'
  OBVIOUS
<1> USE DEF TeamInv, TypeInv, TeamTypeOK, RowsExist, leadVars, agentVars, OnSeller, OnAgent,
            Giving, Ending
<1>t. TypeInv'
  BY StepType
<1>1. ASSUME NEW r \in Requests, Quit(r) PROVE TeamInv'
  BY <1>1, <1>t, QuietStep, Left DEF Quit, Free
<1>2. ASSUME NEW r \in Requests, NEW s \in Sellers, SubmitLead(r, s) PROVE TeamInv'
  BY <1>2, <1>t, QuietStep, Entered DEF SubmitLead
<1>3. ASSUME NEW r \in Requests, SubmitLeadAtomically(r) PROVE TeamInv'
  BY <1>3, <1>t, QuietStep, Went DEF SubmitLeadAtomically
<1>4. ASSUME NEW r \in Requests, SetEmailVerificationToken(r) PROVE TeamInv'
  BY <1>4, <1>t, QuietStep, Left, Went DEF SetEmailVerificationToken, Free
<1>5. ASSUME NEW r \in Requests, PickDefaultAgent(r) PROVE TeamInv'
  <2> USE TeamAssumption DEF PickDefaultAgent, Free
  <2>1. GivesToActive'
    BY <1>5 DEF GivesToActive, InactiveHasNoWork
  <2>2. EndsIdle'
    BY <1>5 DEF EndsIdle, WorkOf
  <2>3. InactiveHasNoWork'
    BY <1>5 DEF InactiveHasNoWork, GivesToActive, EndsIdle, WorkOf
  <2> QED
    BY <1>t, <2>1, <2>2, <2>3
<1>6. ASSUME NEW r \in Requests, AssignDefaultAgent(r) PROVE TeamInv'
  <2> USE TeamAssumption, Left DEF AssignDefaultAgent, Free, Race, Meets
  <2>1. GivesToActive'
    BY <1>6 DEF GivesToActive, InactiveHasNoWork
  <2>2. EndsIdle'
    BY <1>6 DEF EndsIdle, WorkOf
  <2>3. InactiveHasNoWork'
    BY <1>6 DEF InactiveHasNoWork, GivesToActive, EndsIdle, WorkOf
  <2> QED
    BY <1>t, <2>1, <2>2, <2>3
<1>7. ASSUME NEW s \in Sellers, LinkExpires(s) PROVE TeamInv'
  BY <1>7, <1>t, QuietStep DEF LinkExpires
<1>8. ASSUME NEW r \in Requests, NEW s \in Sellers, VerifyEmailToken(r, s)
      PROVE  TeamInv'
  BY <1>8, <1>t, QuietStep, Entered DEF VerifyEmailToken
<1>9. ASSUME NEW r \in Requests, MarkEmailVerified(r) PROVE TeamInv'
  BY <1>9, <1>t, QuietStep, Left DEF MarkEmailVerified, Free
<1>10. ASSUME NEW r \in Requests, NEW s \in Sellers, ResendVerification(r, s)
      PROVE  TeamInv'
  BY <1>10, <1>t, QuietStep, Entered DEF ResendVerification
<1>11. ASSUME NEW r \in Requests, NEW s \in Sellers, SubmitLeadDetails(r, s)
      PROVE  TeamInv'
  BY <1>11, <1>t, QuietStep, Entered DEF SubmitLeadDetails
<1>12. ASSUME NEW r \in Requests, CreateLeadProperty(r) PROVE TeamInv'
  BY <1>12, <1>t, QuietStep, Left DEF CreateLeadProperty, Free
<1>13. ASSUME NEW s \in Sellers, EndOfSale(s) PROVE TeamInv'
  BY <1>13, <1>t, QuietStep DEF EndOfSale
<1>14. ASSUME NEW a \in Agents, CreateAgent(a) PROVE TeamInv'
  <2> USE TeamAssumption DEF CreateAgent
  <2>1. GivesToActive'
    BY <1>14 DEF GivesToActive, InactiveHasNoWork
  <2>2. EndsIdle'
    BY <1>14 DEF EndsIdle, WorkOf
  <2>3. InactiveHasNoWork'
    BY <1>14 DEF InactiveHasNoWork, GivesToActive, EndsIdle, WorkOf
  <2> QED
    BY <1>t, <2>1, <2>2, <2>3
<1>15. ASSUME NEW r \in Requests, NEW a \in Agents, SetDefaultAgent(r, a) PROVE TeamInv'
  <2>0. /\ call'[r] = [op |-> "setDefault", s |-> Nobody, a |-> a]
        /\ \A q \in Requests \ {r} : call'[q] = call[q]
    BY <1>15 DEF SetDefaultAgent, Enter
  <2> USE TeamAssumption, <2>0 DEF SetDefaultAgent
  <2>1. GivesToActive'
    BY <1>15 DEF GivesToActive, InactiveHasNoWork
  <2>2. EndsIdle'
    BY <1>15 DEF EndsIdle, WorkOf
  <2>3. InactiveHasNoWork'
    BY <1>15 DEF InactiveHasNoWork, GivesToActive, EndsIdle, WorkOf
  <2> QED
    BY <1>t, <2>1, <2>2, <2>3
<1>16. ASSUME NEW r \in Requests, UpsertDefaultAgent(r) PROVE TeamInv'
  <2> USE TeamAssumption, Left DEF UpsertDefaultAgent, Free, Race, Meets
  <2>1. GivesToActive'
    BY <1>16 DEF GivesToActive, InactiveHasNoWork
  <2>2. EndsIdle'
    BY <1>16 DEF EndsIdle, WorkOf
  <2>3. InactiveHasNoWork'
    BY <1>16 DEF InactiveHasNoWork, GivesToActive, EndsIdle, WorkOf
  <2> QED
    BY <1>t, <2>1, <2>2, <2>3
<1>17. ASSUME NEW r \in Requests, NEW s \in Sellers, NEW a \in Agents, AssignSeller(r, s, a)
      PROVE  TeamInv'
  <2>0. /\ call'[r] = [op |-> "assign", s |-> s, a |-> a]
        /\ \A q \in Requests \ {r} : call'[q] = call[q]
    BY <1>17 DEF AssignSeller, Enter
  <2> USE TeamAssumption, <2>0 DEF AssignSeller
  <2>1. GivesToActive'
    BY <1>17 DEF GivesToActive, InactiveHasNoWork
  <2>2. EndsIdle'
    BY <1>17 DEF EndsIdle, WorkOf
  <2>3. InactiveHasNoWork'
    BY <1>17 DEF InactiveHasNoWork, GivesToActive, EndsIdle, WorkOf
  <2> QED
    BY <1>t, <2>1, <2>2, <2>3
<1>18. ASSUME NEW r \in Requests, WriteAssignment(r) PROVE TeamInv'
  <2> USE TeamAssumption, Left DEF WriteAssignment, Free, Race, Meets
  <2>1. GivesToActive'
    BY <1>18 DEF GivesToActive, InactiveHasNoWork
  <2>2. EndsIdle'
    BY <1>18 DEF EndsIdle, WorkOf
  <2>3. InactiveHasNoWork'
    BY <1>18 DEF InactiveHasNoWork, GivesToActive, EndsIdle, WorkOf
  <2> QED
    BY <1>t, <2>1, <2>2, <2>3
<1>19. ASSUME NEW r \in Requests, NEW a \in Agents, NEW keep \in BOOLEAN, EndAgent(r, a, keep)
      PROVE  TeamInv'
  <2>0. /\ call'[r] = [op |-> "count", s |-> Nobody, a |-> a]
        /\ \A q \in Requests \ {r} : call'[q] = call[q]
    BY <1>19 DEF EndAgent, Enter
  <2> USE TeamAssumption, <2>0 DEF EndAgent
  <2>1. GivesToActive'
    BY <1>19 DEF GivesToActive, InactiveHasNoWork
  <2>2. EndsIdle'
    BY <1>19 DEF EndsIdle, WorkOf
  <2>3. InactiveHasNoWork'
    BY <1>19 DEF InactiveHasNoWork, GivesToActive, EndsIdle, WorkOf
  <2> QED
    BY <1>t, <2>1, <2>2, <2>3
<1>20. ASSUME NEW r \in Requests, CountActiveSellers(r) PROVE TeamInv'
  <2> USE TeamAssumption, Went DEF CountActiveSellers
  <2>1. GivesToActive'
    BY <1>20 DEF GivesToActive, InactiveHasNoWork
  <2>2. EndsIdle'
    BY <1>20 DEF EndsIdle, WorkOf
  <2>3. InactiveHasNoWork'
    BY <1>20 DEF InactiveHasNoWork, GivesToActive, EndsIdle, WorkOf
  <2> QED
    BY <1>t, <2>1, <2>2, <2>3
<1>21. ASSUME NEW r \in Requests, EndAgentCommit(r) PROVE TeamInv'
  <2> USE TeamAssumption, Left DEF EndAgentCommit, Free, Race, Meets
  <2>1. GivesToActive'
    BY <1>21 DEF GivesToActive, InactiveHasNoWork
  <2>2. EndsIdle'
    BY <1>21 DEF EndsIdle, WorkOf
  <2>3. InactiveHasNoWork'
    BY <1>21 DEF InactiveHasNoWork, GivesToActive, EndsIdle, WorkOf
  <2> QED
    BY <1>t, <2>1, <2>2, <2>3
<1>22. ASSUME NEW r \in Requests, NEW a \in Agents, AnonymiseOnDeparture(r, a)
      PROVE  TeamInv'
  <2>0. /\ call'[r] = [op |-> "depart", s |-> Nobody, a |-> a]
        /\ \A q \in Requests \ {r} : call'[q] = call[q]
    BY <1>22 DEF AnonymiseOnDeparture, Enter
  <2> USE TeamAssumption, <2>0 DEF AnonymiseOnDeparture
  <2>1. GivesToActive'
    BY <1>22 DEF GivesToActive, InactiveHasNoWork
  <2>2. EndsIdle'
    BY <1>22 DEF EndsIdle, WorkOf, InactiveHasNoWork
  <2>3. InactiveHasNoWork'
    BY <1>22 DEF InactiveHasNoWork, GivesToActive, EndsIdle, WorkOf
  <2> QED
    BY <1>t, <2>1, <2>2, <2>3
<1>23. ASSUME NEW a \in Agents, ReactivateAgent(a) PROVE TeamInv'
  <2> USE TeamAssumption DEF ReactivateAgent
  <2>1. GivesToActive'
    BY <1>23 DEF GivesToActive, InactiveHasNoWork
  <2>2. EndsIdle'
    BY <1>23 DEF EndsIdle, WorkOf
  <2>3. InactiveHasNoWork'
    BY <1>23 DEF InactiveHasNoWork, GivesToActive, EndsIdle, WorkOf
  <2> QED
    BY <1>t, <2>1, <2>2, <2>3
<1>0. CASE UNCHANGED teamVars
  BY <1>0, <1>t, QuietStep DEF teamVars
<1>24. ASSUME NEW r \in Requests, LeadStep(r) PROVE TeamInv'
  BY <1>2, <1>3, <1>4, <1>5, <1>6, <1>24 DEF LeadStep
<1>25. ASSUME NEW r \in Requests, VerificationStep(r) PROVE TeamInv'
  BY <1>8, <1>9, <1>10, <1>11, <1>12, <1>25 DEF VerificationStep
<1>26. ASSUME NEW r \in Requests, AssignmentStep(r) \/ AgentStep(r) PROVE TeamInv'
  BY <1>15, <1>16, <1>17, <1>18, <1>19, <1>20, <1>21, <1>22, <1>26
     DEF AssignmentStep, AgentStep
<1> QED
  BY <1>0, <1>1, <1>7, <1>13, <1>14, <1>23, <1>24, <1>25, <1>26 DEF TeamNext

-----------------------------------------------------------------------------

\* The values of the rows of leads and agents, and of what handlers hold of them.
THEOREM TypeCorrect == TeamSpec => []TeamTypeOK
<1>1. TeamInv => TypeInv /\ TeamTypeOK
  BY DEF TeamInv, TypeInv
<1> QED
  BY InitInv, StepInv, <1>1, PTL DEF TeamSpec

\* No current seller is left with an agent who is not active, nor do new leads go to
\* one, unless handlers overlapped (deactivateAgent, assignSeller, submitLead).
THEOREM InactiveHasNoWorkKept == TeamSpec => []InactiveHasNoWork
<1>1. TeamInv => InactiveHasNoWork
  BY DEF TeamInv
<1> QED
  BY InitInv, StepInv, <1>1, PTL DEF TeamSpec

-----------------------------------------------------------------------------
(* The engagement: what a handler holds between its read and its write.    *)

Onboarding == {"save", "saved", "complete", "step"}
EngOps == Onboarding \cup {"idle", "status", "cdd", "upsert", "createEaa", "eaa", "activate",
                           "explain", "flag", "correct", "apply"}

\* All that a handler reads of a row, or wants it to say.
Words == {"", "locked", "open", "admin", "not_started", "pending", "verified",
          "lead", "engaged", "active", "completed", "archived",
          "none", "draft", "sent_to_seller", "signed",
          "identified", "in_progress", "resolved", "out_of_scope", "rejected"}

Calls == [op : EngOps, seen : Words, goal : Words, n : 0..Eng!TOTAL_ONBOARDING_STEPS,
          id : Records \cup {NoRecord}]

HandlerType ==
  /\ handler \in [Requests -> Calls]
  /\ cdd \in Seq([id : Records, verified : BOOLEAN])

\* The goal of a change follows from what was read, as the tables say.
GoalFollows(c) ==
  /\ c.op = "status" => /\ c.seen \in DOMAIN Eng!STATUS_TRANSITIONS
                        /\ c.goal \in Eng!STATUS_TRANSITIONS[c.seen]
                        /\ c.n = 1 => c.goal = "active"
  /\ c.op = "eaa" => /\ c.seen \in DOMAIN Eng!VALID_EAA_STATUS_TRANSITIONS
                     /\ c.goal \in Eng!VALID_EAA_STATUS_TRANSITIONS[c.seen]
                     /\ vouched
  /\ c.op = "flag" => /\ c.seen \in DOMAIN Eng!CASE_FLAG_TRANSITIONS
                      /\ c.goal \in Eng!CASE_FLAG_TRANSITIONS[c.seen]
  /\ c.op = "activate" => c.goal = "active"
  /\ c.op = "correct" => c.goal \in {"completed", "rejected"}

\* The data of the step, and of all steps before it, were saved before it is written.
StepHasData(c) ==
  /\ c.op \in Onboarding => c.n \in 1..Eng!TOTAL_ONBOARDING_STEPS
  /\ c.op \in Onboarding \ {"save"} => {c.n} \cap Eng!NeedsData \subseteq saved
  /\ c.op = "step" => Eng!NeedsData \cap 1..(c.n - 1) \subseteq saved

\* Who is not an admin read a record that was not yet verified; who confirms the
\* explanation read that it was not confirmed.
ReadsUnlocked(c) ==
  /\ c.op \in {"cdd", "upsert"} => c.seen \in {"admin", "open"}
  /\ c.op = "explain" => c.n = 0

Holds(c) == GoalFollows(c) /\ StepHasData(c) /\ ReadsUnlocked(c)

EngInv ==
  /\ Eng!EngTypeOK /\ HandlerType
  /\ \A r \in Requests : Holds(handler[r])
  /\ Eng!OutcomeIsBacked

\* The others keep their state, and what they hold stays true: nothing they rest on
\* is ever undone.
LEMMA OthersHold ==
  ASSUME HandlerType, NEW r \in Requests,
         \A q \in Requests : Holds(handler[q]),
         \A q \in Requests \ {r} : handler'[q] = handler[q],
         saved \subseteq saved', vouched => vouched',
         Holds(handler[r])'
  PROVE  \A q \in Requests : Holds(handler[q])'
<1> SUFFICES ASSUME NEW q \in Requests \ {r} PROVE Holds(handler[q])'
  OBVIOUS
<1>1. Holds(handler[q]) /\ handler'[q] = handler[q]
  OBVIOUS
<1> QED
  BY <1>1 DEF Holds, GoalFollows, StepHasData, ReadsUnlocked

LEMMA HandlerEnters ==
  ASSUME HandlerType, NEW r \in Requests, NEW op \in EngOps, NEW seen \in Words,
         NEW goal \in Words, NEW k \in 0..Eng!TOTAL_ONBOARDING_STEPS,
         Eng!Enter(r, op, seen, goal, k)
  PROVE  /\ HandlerType' /\ Eng!EngTypeOK' = Eng!EngTypeOK
         /\ handler[r].op = "idle"
         /\ handler'[r] = [op |-> op, seen |-> seen, goal |-> goal, n |-> k, id |-> NoRecord]
         /\ \A q \in Requests \ {r} : handler'[q] = handler[q]
         /\ UNCHANGED <<Eng!rows, overtaken, cut>>
BY DEF HandlerType, Calls, Eng!Enter, Eng!EngTypeOK, Eng!rows

LEMMA HandlerGoes ==
  ASSUME EngInv, NEW r \in Requests, NEW c \in Calls, handler' = [handler EXCEPT ![r] = c],
         cdd' \in Seq([id : Records, verified : BOOLEAN]),
         saved \subseteq saved', vouched => vouched', Holds(c)'
  PROVE  /\ HandlerType' /\ handler'[r] = c
         /\ \A q \in Requests \ {r} : handler'[q] = handler[q]
         /\ \A q \in Requests : Holds(handler[q])'
<1>1. HandlerType' /\ handler'[r] = c /\ \A q \in Requests \ {r} : handler'[q] = handler[q]
  BY DEF EngInv, HandlerType
<1>2. Holds(handler[r])'
  BY <1>1
<1> QED
  BY <1>1, <1>2, OthersHold DEF EngInv

LEMMA HandlerLeaves ==
  ASSUME EngInv, NEW r \in Requests, Eng!Leave(r),
         cdd' \in Seq([id : Records, verified : BOOLEAN]),
         saved \subseteq saved', vouched => vouched'
  PROVE  /\ HandlerType' /\ handler'[r].op = "idle"
         /\ \A q \in Requests \ {r} : handler'[q] = handler[q]
         /\ \A q \in Requests : Holds(handler[q])'
<1>1. Eng!Free \in Calls
  BY DEF Calls, Eng!Free, EngOps, Words, Eng!TOTAL_ONBOARDING_STEPS
<1>2. Holds(Eng!Free)'
  BY DEF Eng!Free, Holds, GoalFollows, StepHasData, ReadsUnlocked, Onboarding
<1>3. Eng!Free.op = "idle"
  BY DEF Eng!Free
<1> QED
  BY <1>1, <1>2, <1>3, HandlerGoes DEF Eng!Leave

LEMMA Tables ==
  /\ DOMAIN Eng!STATUS_TRANSITIONS = {"lead", "engaged", "active", "completed", "archived"}
  /\ DOMAIN Eng!VALID_EAA_STATUS_TRANSITIONS = {"none", "draft", "sent_to_seller", "signed", "active"}
  /\ DOMAIN Eng!CASE_FLAG_TRANSITIONS = {"none", "identified", "in_progress", "resolved", "out_of_scope"}
BY DEF Eng!STATUS_TRANSITIONS, Eng!VALID_EAA_STATUS_TRANSITIONS, Eng!CASE_FLAG_TRANSITIONS

LEMMA TablesClosed ==
  /\ \A x \in DOMAIN Eng!STATUS_TRANSITIONS :
       x \in Words /\ Eng!STATUS_TRANSITIONS[x] \subseteq DOMAIN Eng!STATUS_TRANSITIONS
  /\ \A x \in DOMAIN Eng!VALID_EAA_STATUS_TRANSITIONS :
       /\ x \in Words
       /\ Eng!VALID_EAA_STATUS_TRANSITIONS[x] \subseteq DOMAIN Eng!VALID_EAA_STATUS_TRANSITIONS
  /\ \A x \in DOMAIN Eng!CASE_FLAG_TRANSITIONS :
       x \in Words /\ Eng!CASE_FLAG_TRANSITIONS[x] \subseteq DOMAIN Eng!CASE_FLAG_TRANSITIONS
<1>1. \A x \in DOMAIN Eng!STATUS_TRANSITIONS :
        Eng!STATUS_TRANSITIONS[x] \subseteq DOMAIN Eng!STATUS_TRANSITIONS
  BY Tables DEF Eng!STATUS_TRANSITIONS
<1>2. \A x \in DOMAIN Eng!VALID_EAA_STATUS_TRANSITIONS :
        Eng!VALID_EAA_STATUS_TRANSITIONS[x] \subseteq DOMAIN Eng!VALID_EAA_STATUS_TRANSITIONS
  BY Tables DEF Eng!VALID_EAA_STATUS_TRANSITIONS
<1>3. \A x \in DOMAIN Eng!CASE_FLAG_TRANSITIONS :
        Eng!CASE_FLAG_TRANSITIONS[x] \subseteq DOMAIN Eng!CASE_FLAG_TRANSITIONS
  BY Tables DEF Eng!CASE_FLAG_TRANSITIONS
<1>4. /\ DOMAIN Eng!STATUS_TRANSITIONS \subseteq Words
      /\ DOMAIN Eng!VALID_EAA_STATUS_TRANSITIONS \subseteq Words
      /\ DOMAIN Eng!CASE_FLAG_TRANSITIONS \subseteq Words
  BY Tables DEF Words
<1> QED
  BY <1>1, <1>2, <1>3, <1>4

LEMMA EngInit == Eng!EngInit => EngInv
<1> SUFFICES ASSUME Eng!EngInit PROVE EngInv
  OBVIOUS
<1>0. cdd \in Seq([id : Records, verified : BOOLEAN]) /\ Len(cdd) = 0
  BY DEF Eng!EngInit
<1>1. /\ status = "lead" /\ step = 0 /\ saved = {} /\ eaa = "none" /\ explained = 0
      /\ flag = "none" /\ correction = "none" /\ applied = FALSE /\ overtaken = {} /\ cut = {}
      /\ handler = [r \in Requests |-> Eng!Free]
  BY DEF Eng!EngInit
<1>2. Eng!EngTypeOK /\ HandlerType
  <2>1. Eng!EngTypeOK
    <3>1. \A i \in 1..Len(cdd) : FALSE
      BY <1>0
    <3>2. status \in DOMAIN Eng!STATUS_TRANSITIONS
      BY <1>1, Tables
    <3>3. eaa \in DOMAIN Eng!VALID_EAA_STATUS_TRANSITIONS /\ flag \in DOMAIN Eng!CASE_FLAG_TRANSITIONS
      BY <1>1, Tables
    <3>4. step \in 0..Eng!TOTAL_ONBOARDING_STEPS /\ saved \subseteq Eng!NeedsData
      BY <1>1 DEF Eng!TOTAL_ONBOARDING_STEPS
    <3>5. explained \in 0..2 /\ ~(explained > 1)
      BY <1>1
    <3>6. \A i \in 1..Len(cdd) : /\ cdd[i] \in [id : Records, verified : BOOLEAN]
                                 /\ \A j \in 1..Len(cdd) : i # j => cdd[i].id # cdd[j].id
      BY <3>1
    <3> QED
      BY <1>1, <3>2, <3>3, <3>4, <3>5, <3>6, Zenon DEF Eng!EngTypeOK
  <2>2. HandlerType
    <3>1. Eng!Free \in Calls
      BY DEF Calls, Eng!Free, EngOps, Words, Eng!TOTAL_ONBOARDING_STEPS
    <3> QED
      BY <3>1, <1>0, <1>1 DEF HandlerType
  <2> QED
    BY <2>1, <2>2
<1>3. \A r \in Requests : Holds(handler[r])
  BY DEF Eng!EngInit, Eng!Free, Holds, GoalFollows, StepHasData, ReadsUnlocked, Onboarding
<1>4. Eng!OutcomeIsBacked
  BY DEF Eng!EngInit, Eng!OutcomeIsBacked, Eng!OnboardedHasData, Eng!CorrectionIsApplied,
     Eng!AgreementActivates
<1> QED
  BY <1>2, <1>3, <1>4 DEF EngInv

\* A handler sets off: no row changes.
LEMMA EnteringStep ==
  ASSUME EngInv, NEW r \in Requests, NEW op \in EngOps, NEW seen \in Words,
         NEW goal \in Words, NEW k \in 0..Eng!TOTAL_ONBOARDING_STEPS,
         Eng!Enter(r, op, seen, goal, k),
         Holds([op |-> op, seen |-> seen, goal |-> goal, n |-> k, id |-> NoRecord])
  PROVE  EngInv' /\ Eng!FollowsRules
<1>1. /\ HandlerType' /\ Eng!EngTypeOK'
      /\ handler[r].op = "idle"
      /\ handler'[r] = [op |-> op, seen |-> seen, goal |-> goal, n |-> k, id |-> NoRecord]
      /\ \A q \in Requests \ {r} : handler'[q] = handler[q]
      /\ UNCHANGED <<Eng!rows, overtaken, cut>>
  BY HandlerEnters DEF EngInv
<1>2. Holds(handler[r])'
  BY <1>1 DEF Holds, GoalFollows, StepHasData, ReadsUnlocked, Eng!rows
<1>3. \A q \in Requests : Holds(handler[q])'
  BY <1>1, <1>2, OthersHold DEF EngInv, Eng!rows
<1>4. Eng!OutcomeIsBacked'
  BY <1>1 DEF EngInv, Eng!OutcomeIsBacked, Eng!OnboardedHasData, Eng!CorrectionIsApplied,
     Eng!AgreementActivates, Eng!rows
<1>5. Eng!FollowsRules
  BY <1>1 DEF Eng!FollowsRules, Eng!VerifiedIsKept, Eng!Verified, Eng!rows, EngInv, Eng!EngTypeOK
<1> QED
  BY <1>1, <1>3, <1>4, <1>5 DEF EngInv
-----------------------------------------------------------------------------
(* The actions of the engagement, one by one.                              *)

LEMMA QuitStep ==
  ASSUME EngInv, NEW r \in Requests, Eng!Quit(r)
  PROVE  EngInv' /\ Eng!FollowsRules
<1>1. Eng!Leave(r) /\ UNCHANGED <<Eng!rows, overtaken>> /\ cut \subseteq cut'
  BY DEF Eng!Quit
<1>2. /\ HandlerType' /\ handler'[r].op = "idle"
      /\ \A q \in Requests \ {r} : handler'[q] = handler[q]
      /\ \A q \in Requests : Holds(handler[q])'
  BY <1>1, HandlerLeaves DEF Eng!rows, EngInv, HandlerType
<1>3. Eng!EngTypeOK'
  BY <1>1 DEF Eng!Quit, EngInv, Eng!EngTypeOK, Eng!rows
<1>4. Eng!OutcomeIsBacked'
  <2>1. handler[r].op = "apply" => "apply" \in cut'
    BY DEF Eng!Quit
  <2>2. handler[r].op = "activate" \/ (handler[r].op = "status" /\ handler[r].n = 1) => "activate" \in cut'
    BY DEF Eng!Quit, EngInv, Holds, GoalFollows
  <2> QED
    BY <1>1, <1>2, <2>1, <2>2 DEF EngInv, Eng!OutcomeIsBacked, Eng!OnboardedHasData,
       Eng!CorrectionIsApplied, Eng!AgreementActivates, Eng!rows
<1>5. Eng!FollowsRules
  BY <1>1 DEF Eng!FollowsRules, Eng!VerifiedIsKept, Eng!Verified, Eng!rows, EngInv, Eng!EngTypeOK
<1> QED
  BY <1>2, <1>3, <1>4, <1>5 DEF EngInv

LEMMA WriteStatusStep ==
  ASSUME EngInv, NEW r \in Requests, Eng!WriteStatus(r)
  PROVE  EngInv' /\ Eng!FollowsRules
<1>1. /\ Eng!Leave(r) /\ status' = handler[r].goal
      /\ overtaken' = IF status # handler[r].seen THEN overtaken \cup {"status"} ELSE overtaken
      /\ UNCHANGED <<step, saved, cdd, eaa, vouched, explained, flag, correction, applied, cut>>
  BY DEF Eng!WriteStatus, Eng!Overtakes
<1>2. /\ HandlerType' /\ handler'[r].op = "idle"
      /\ \A q \in Requests \ {r} : handler'[q] = handler[q]
      /\ \A q \in Requests : Holds(handler[q])'
  BY <1>1, HandlerLeaves DEF EngInv, HandlerType
<1>3. /\ handler[r].goal \in Eng!STATUS_TRANSITIONS[handler[r].seen]
      /\ handler[r].seen \in DOMAIN Eng!STATUS_TRANSITIONS
      /\ handler[r].op = "status" /\ (handler[r].n = 1 => handler[r].goal = "active")
  BY DEF Eng!WriteStatus, EngInv, Holds, GoalFollows
<1>4. /\ status' \in DOMAIN Eng!STATUS_TRANSITIONS
      /\ status \in {"active", "completed", "archived"} /\ status = handler[r].seen
           => status' \in {"active", "completed", "archived"}
  BY <1>1, <1>3, Tables DEF Eng!STATUS_TRANSITIONS
<1>5. Eng!EngTypeOK'
  BY <1>1, <1>4 DEF EngInv, Eng!EngTypeOK
<1>6. Eng!OutcomeIsBacked'
  BY <1>1, <1>2, <1>3, <1>4 DEF EngInv, Eng!OutcomeIsBacked, Eng!OnboardedHasData,
     Eng!CorrectionIsApplied, Eng!AgreementActivates
<1>7. Eng!FollowsRules
  BY <1>1, <1>3 DEF Eng!FollowsRules, Eng!VerifiedIsKept, Eng!Verified, EngInv, Eng!EngTypeOK
<1> QED
  BY <1>2, <1>5, <1>6, <1>7 DEF EngInv

LEMMA StatusGoes ==
  ASSUME EngInv, NEW r \in Requests, NEW goal, Eng!UpdateSellerStatus(r, goal)
  PROVE  EngInv' /\ Eng!FollowsRules
<1>1. /\ status \in DOMAIN Eng!STATUS_TRANSITIONS /\ goal \in Eng!STATUS_TRANSITIONS[status]
      /\ Eng!Enter(r, "status", status, goal, 0)
  BY DEF Eng!UpdateSellerStatus, EngInv, Eng!EngTypeOK
<1>2. status \in Words /\ goal \in Words
  BY <1>1, TablesClosed
<1>3. Holds([op |-> "status", seen |-> status, goal |-> goal, n |-> 0, id |-> NoRecord])
  BY <1>1 DEF Holds, GoalFollows, StepHasData, ReadsUnlocked, Onboarding
<1>4. "status" \in EngOps /\ 0 \in 0..Eng!TOTAL_ONBOARDING_STEPS
  BY DEF EngOps, Eng!TOTAL_ONBOARDING_STEPS
<1> QED
  BY <1>1, <1>2, <1>3, <1>4, EnteringStep

LEMMA SubmitGoes ==
  ASSUME EngInv, NEW r \in Requests, NEW n \in 1..Eng!TOTAL_ONBOARDING_STEPS, Eng!SubmitStep(r, n)
  PROVE  EngInv' /\ Eng!FollowsRules
<1>1. Holds([op |-> "save", seen |-> "", goal |-> "", n |-> n, id |-> NoRecord])
  BY DEF Holds, GoalFollows, StepHasData, ReadsUnlocked, Onboarding
<1>2. Eng!Enter(r, "save", "", "", n)
  BY DEF Eng!SubmitStep
<1>3. "save" \in EngOps /\ "" \in Words /\ n \in 0..Eng!TOTAL_ONBOARDING_STEPS
  BY DEF EngOps, Onboarding, Words, Eng!TOTAL_ONBOARDING_STEPS
<1> QED
  BY <1>1, <1>2, <1>3, EnteringStep

\* An agent's request finds the record open, or it is an admin's.
LEMMA CddGoes ==
  ASSUME EngInv, NEW r \in Requests, NEW admin \in BOOLEAN,
         NEW goal \in {"not_started", "pending", "verified"},
         Eng!UpdateCddStatus(r, admin, goal) \/ Eng!VerifyCdd(r)
  PROVE  EngInv' /\ Eng!FollowsRules
<1>1. PICK seen \in {"admin", "open"}, g \in {"not_started", "pending", "verified"} :
        Eng!Enter(r, "cdd", seen, g, 0)
  <2>1. ~Eng!Verified => Eng!Lock = "open"
    BY DEF Eng!Lock
  <2>2. CASE Eng!UpdateCddStatus(r, admin, goal)
    BY <2>1, <2>2, Zenon DEF Eng!UpdateCddStatus
  <2>3. CASE Eng!VerifyCdd(r)
    BY <2>1, <2>3, Zenon DEF Eng!VerifyCdd
  <2> QED
    BY <2>2, <2>3
<1>2. Holds([op |-> "cdd", seen |-> seen, goal |-> g, n |-> 0, id |-> NoRecord])
  BY DEF Holds, GoalFollows, StepHasData, ReadsUnlocked, Onboarding
<1>3. "cdd" \in EngOps /\ 0 \in 0..Eng!TOTAL_ONBOARDING_STEPS
  BY DEF EngOps, Eng!TOTAL_ONBOARDING_STEPS
<1>4. seen \in Words /\ g \in Words
  BY DEF Words
<1> QED
  BY <1>1, <1>2, <1>3, <1>4, EnteringStep

LEMMA AgreementGoes ==
  ASSUME EngInv, NEW r \in Requests, NEW goal,
         Eng!UpdateEaaStatus(r, goal) \/ Eng!CreateEaa(r) \/ Eng!ConfirmEaaExplanation(r)
  PROVE  EngInv' /\ Eng!FollowsRules
<1>0. 0 \in 0..Eng!TOTAL_ONBOARDING_STEPS /\ "" \in Words /\ {"createEaa", "eaa", "explain"} \subseteq EngOps
  BY DEF EngOps, Words, Eng!TOTAL_ONBOARDING_STEPS
<1>1. CASE Eng!UpdateEaaStatus(r, goal)
  <2>1. /\ eaa \in DOMAIN Eng!VALID_EAA_STATUS_TRANSITIONS
        /\ goal \in Eng!VALID_EAA_STATUS_TRANSITIONS[eaa]
        /\ Eng!Enter(r, "eaa", eaa, goal, 0)
    BY <1>1 DEF Eng!UpdateEaaStatus, EngInv, Eng!EngTypeOK
  <2>2. eaa \in Words /\ goal \in Words
    BY <2>1, TablesClosed
  <2>5. eaa # "none"
    BY <2>1 DEF Eng!VALID_EAA_STATUS_TRANSITIONS
  <2>3. vouched
    BY <2>5 DEF EngInv, Eng!EngTypeOK
  <2>4. Holds([op |-> "eaa", seen |-> eaa, goal |-> goal, n |-> 0, id |-> NoRecord])
    BY <2>1, <2>3 DEF Holds, GoalFollows, StepHasData, ReadsUnlocked, Onboarding
  <2> QED
    BY <1>0, <2>1, <2>2, <2>4, EnteringStep
<1>2. CASE Eng!CreateEaa(r)
  <2>1. Holds([op |-> "createEaa", seen |-> "", goal |-> "", n |-> 0, id |-> NoRecord])
    BY DEF Holds, GoalFollows, StepHasData, ReadsUnlocked, Onboarding
  <2>2. Eng!Enter(r, "createEaa", "", "", 0)
    BY <1>2 DEF Eng!CreateEaa
  <2> QED
    BY <1>0, <2>1, <2>2, EnteringStep
<1>3. CASE Eng!ConfirmEaaExplanation(r)
  <2>1. Holds([op |-> "explain", seen |-> "", goal |-> "", n |-> 0, id |-> NoRecord])
    BY DEF Holds, GoalFollows, StepHasData, ReadsUnlocked, Onboarding
  <2>2. Eng!Enter(r, "explain", "", "", 0)
    BY <1>3 DEF Eng!ConfirmEaaExplanation
  <2> QED
    BY <1>0, <2>1, <2>2, EnteringStep
<1> QED
  BY <1>1, <1>2, <1>3

LEMMA CaseGoes ==
  ASSUME EngInv, NEW r \in Requests, NEW goal,
         Eng!UpdateCaseFlag(r, goal) \/ Eng!ProcessCorrectionRequest(r, goal)
  PROVE  EngInv' /\ Eng!FollowsRules
<1>0. 0 \in 0..Eng!TOTAL_ONBOARDING_STEPS /\ "" \in Words /\ {"flag", "correct"} \subseteq EngOps
  BY DEF EngOps, Words, Eng!TOTAL_ONBOARDING_STEPS
<1>1. CASE Eng!UpdateCaseFlag(r, goal)
  <2>1. /\ flag \in DOMAIN Eng!CASE_FLAG_TRANSITIONS /\ goal \in Eng!CASE_FLAG_TRANSITIONS[flag]
        /\ Eng!Enter(r, "flag", flag, goal, 0)
    BY <1>1 DEF Eng!UpdateCaseFlag, EngInv, Eng!EngTypeOK
  <2>2. flag \in Words /\ goal \in Words
    BY <2>1, TablesClosed
  <2>3. Holds([op |-> "flag", seen |-> flag, goal |-> goal, n |-> 0, id |-> NoRecord])
    BY <2>1 DEF Holds, GoalFollows, StepHasData, ReadsUnlocked, Onboarding
  <2> QED
    BY <1>0, <2>1, <2>2, <2>3, EnteringStep
<1>2. CASE Eng!ProcessCorrectionRequest(r, goal)
  <2>1. goal \in {"completed", "rejected"} /\ Eng!Enter(r, "correct", "", goal, 0)
    BY <1>2 DEF Eng!ProcessCorrectionRequest
  <2>2. Holds([op |-> "correct", seen |-> "", goal |-> goal, n |-> 0, id |-> NoRecord])
    BY <2>1 DEF Holds, GoalFollows, StepHasData, ReadsUnlocked, Onboarding
  <2>3. goal \in Words
    BY <2>1 DEF Words
  <2> QED
    BY <1>0, <2>1, <2>2, <2>3, EnteringStep
<1> QED
  BY <1>1, <1>2

LEMMA SavingStep ==
  ASSUME EngInv, NEW r \in Requests,
         Eng!SaveStep(r) \/ Eng!GetOnboardingStatus(r) \/ Eng!CompleteOnboardingStep(r)
  PROVE  EngInv' /\ Eng!FollowsRules
<1>0. /\ handler[r] \in Calls /\ cdd \in Seq([id : Records, verified : BOOLEAN])
      /\ Holds(handler[r])
      /\ step \in 0..Eng!TOTAL_ONBOARDING_STEPS
  BY DEF EngInv, HandlerType, Eng!EngTypeOK
<1>1. handler[r].op \in Onboarding
  BY DEF Eng!SaveStep, Eng!GetOnboardingStatus, Eng!CompleteOnboardingStep, Onboarding
<1>2. /\ saved \subseteq saved' /\ saved' \subseteq Eng!NeedsData
      /\ UNCHANGED <<status, step, cdd, eaa, vouched, explained, flag, correction, applied,
                     overtaken, cut>>
  BY DEF EngInv, Eng!EngTypeOK, Eng!SaveStep, Eng!GetOnboardingStatus, Eng!CompleteOnboardingStep, Eng!rows
<1>3. PICK c \in Calls : /\ handler' = [handler EXCEPT ![r] = c]
                         /\ c.op \in Onboarding \cup {"idle"} /\ Holds(c)'
  <2>1. CASE Eng!SaveStep(r)
    <3>0. PICK c \in Calls : c = [handler[r] EXCEPT !.op = "saved"]
      BY <1>0 DEF Calls, EngOps, Onboarding
    <3>1. handler' = [handler EXCEPT ![r] = c] /\ saved' = saved \cup ({c.n} \cap Eng!NeedsData)
      BY <1>0, <2>1, <3>0 DEF Eng!SaveStep, Calls
    <3>2. c.op = "saved" /\ c.n = handler[r].n
      BY <1>0, <3>0 DEF Calls
    <3>3. c.n \in 1..Eng!TOTAL_ONBOARDING_STEPS
      BY <1>0, <1>1, <3>2 DEF Holds, StepHasData
    <3>4. Holds(c)'
      BY <3>1, <3>2, <3>3 DEF Holds, GoalFollows, StepHasData, ReadsUnlocked, Onboarding
    <3> QED
      BY <3>1, <3>2, <3>4 DEF Onboarding
  <2>2. CASE Eng!GetOnboardingStatus(r) /\ handler[r].n = step + 1
    <3>0. PICK c \in Calls : c = [handler[r] EXCEPT !.op = "complete"]
      BY <1>0 DEF Calls, EngOps, Onboarding
    <3>1. handler' = [handler EXCEPT ![r] = c]
      BY <1>0, <3>0, <2>2 DEF Eng!GetOnboardingStatus
    <3>2. c.op = "complete" /\ c.n = handler[r].n
      BY <1>0, <3>0 DEF Calls
    <3>3. c.n \in 1..Eng!TOTAL_ONBOARDING_STEPS /\ {c.n} \cap Eng!NeedsData \subseteq saved
      BY <1>0, <2>2, <3>2 DEF Holds, StepHasData, Onboarding, Eng!GetOnboardingStatus
    <3>4. Holds(c)'
      BY <1>2, <3>2, <3>3 DEF Holds, GoalFollows, StepHasData, ReadsUnlocked, Onboarding
    <3> QED
      BY <3>1, <3>2, <3>4 DEF Onboarding
  <2>3. CASE Eng!GetOnboardingStatus(r) /\ handler[r].n # step + 1
    <3>1. handler' = [handler EXCEPT ![r] = Eng!Free]
      BY <1>0, <2>3 DEF Eng!GetOnboardingStatus
    <3>2. Eng!Free \in Calls /\ Eng!Free.op = "idle" /\ Holds(Eng!Free)'
      BY DEF Calls, Eng!Free, EngOps, Words, Eng!TOTAL_ONBOARDING_STEPS, Holds, GoalFollows,
         StepHasData, ReadsUnlocked, Onboarding
    <3> QED
      BY <3>1, <3>2
  <2>4. CASE Eng!CompleteOnboardingStep(r)
    <3>0. PICK c \in Calls : c = [handler[r] EXCEPT !.op = "step"]
      BY <1>0 DEF Calls, EngOps, Onboarding
    <3>1. handler' = [handler EXCEPT ![r] = c]
      BY <1>0, <3>0, <2>4 DEF Eng!CompleteOnboardingStep
    <3>2. c.op = "step" /\ c.n = handler[r].n
      BY <1>0, <3>0 DEF Calls
    <3>3. c.n \in 1..Eng!TOTAL_ONBOARDING_STEPS /\ {c.n} \cap Eng!NeedsData \subseteq saved
      BY <1>0, <2>4, <3>2 DEF Holds, StepHasData, Onboarding, Eng!CompleteOnboardingStep
    <3>4. c.n = step + 1 /\ Eng!NeedsData \cap 1..step \subseteq saved
      BY <2>4, <3>2 DEF Eng!CompleteOnboardingStep, EngInv, Eng!OutcomeIsBacked, Eng!OnboardedHasData
    <3>5. c.n - 1 = step
      BY <1>0, <3>4 DEF Eng!TOTAL_ONBOARDING_STEPS
    <3>6. Holds(c)'
      BY <1>2, <3>2, <3>3, <3>4, <3>5 DEF Holds, GoalFollows, StepHasData, ReadsUnlocked, Onboarding
    <3> QED
      BY <3>1, <3>2, <3>6 DEF Onboarding
  <2> QED
    BY <2>1, <2>2, <2>3, <2>4
<1>4. /\ HandlerType' /\ handler'[r] = c
      /\ \A q \in Requests \ {r} : handler'[q] = handler[q]
      /\ \A q \in Requests : Holds(handler[q])'
  BY <1>0, <1>2, <1>3, HandlerGoes
<1>5. Eng!EngTypeOK'
  BY <1>2 DEF EngInv, Eng!EngTypeOK
<1>6. Eng!OutcomeIsBacked'
  BY <1>1, <1>2, <1>4 DEF EngInv, Eng!OutcomeIsBacked, Eng!OnboardedHasData,
     Eng!CorrectionIsApplied, Eng!AgreementActivates, Onboarding
<1>7. Eng!FollowsRules
  BY <1>2 DEF Eng!FollowsRules, Eng!VerifiedIsKept, Eng!Verified, EngInv, Eng!EngTypeOK
<1> QED
  BY <1>4, <1>5, <1>6, <1>7 DEF EngInv

LEMMA WriteStepStep ==
  ASSUME EngInv, NEW r \in Requests, Eng!WriteStep(r)
  PROVE  EngInv' /\ Eng!FollowsRules
<1>1. /\ Eng!Leave(r) /\ step' = handler[r].n /\ handler[r].op = "step"
      /\ overtaken' = IF step # handler[r].n - 1 THEN overtaken \cup {"step"} ELSE overtaken
      /\ UNCHANGED <<status, saved, cdd, eaa, vouched, explained, flag, correction, applied, cut>>
  BY DEF Eng!WriteStep, Eng!Overtakes
<1>2. /\ HandlerType' /\ handler'[r].op = "idle"
      /\ \A q \in Requests \ {r} : handler'[q] = handler[q]
      /\ \A q \in Requests : Holds(handler[q])'
  BY <1>1, HandlerLeaves DEF EngInv, HandlerType
<1>3. /\ handler[r].n \in 1..Eng!TOTAL_ONBOARDING_STEPS
      /\ {handler[r].n} \cap Eng!NeedsData \subseteq saved
      /\ Eng!NeedsData \cap 1..(handler[r].n - 1) \subseteq saved
  BY <1>1 DEF EngInv, Holds, StepHasData, Onboarding
<1>4. Eng!EngTypeOK'
  BY <1>1, <1>3 DEF EngInv, Eng!EngTypeOK, Eng!TOTAL_ONBOARDING_STEPS
<1>5. Eng!OutcomeIsBacked'
  <2>1. Eng!NeedsData \cap 1..step' \subseteq saved'
    <3> SUFFICES ASSUME NEW k \in Eng!NeedsData, k \in 1..step' PROVE k \in saved'
      OBVIOUS
    <3>1. k = handler[r].n \/ k \in 1..(handler[r].n - 1)
      BY <1>1, <1>3 DEF Eng!TOTAL_ONBOARDING_STEPS
    <3> QED
      BY <1>1, <1>3, <3>1
  <2> QED
    BY <1>1, <1>2, <2>1 DEF EngInv, Eng!OutcomeIsBacked, Eng!OnboardedHasData,
       Eng!CorrectionIsApplied, Eng!AgreementActivates
<1>6. Eng!FollowsRules
  <2>1. step' \in {step, step + 1} \/ "step" \in overtaken'
    BY <1>1, <1>3 DEF Eng!TOTAL_ONBOARDING_STEPS, EngInv, Eng!EngTypeOK
  <2> QED
    BY <1>1, <2>1 DEF Eng!FollowsRules, Eng!VerifiedIsKept, Eng!Verified
<1> QED
  BY <1>2, <1>4, <1>5, <1>6 DEF EngInv

LEMMA DeleteCddStep ==
  ASSUME EngInv, NEW r \in Requests, Eng!DeleteCddRecord(r)
  PROVE  EngInv' /\ Eng!FollowsRules
<1>1. /\ Eng!Leave(r) /\ cdd' = <<>> /\ handler[r].op = "cdd"
      /\ overtaken' = IF Eng!Unlocks(r, "not_started") THEN overtaken \cup {"cdd"} ELSE overtaken
      /\ UNCHANGED <<status, step, saved, eaa, vouched, explained, flag, correction, applied, cut>>
  BY DEF Eng!DeleteCddRecord, Eng!Overtakes
<1>2. cdd' \in Seq([id : Records, verified : BOOLEAN]) /\ Len(cdd') = 0
  BY <1>1
<1>3. /\ HandlerType' /\ handler'[r].op = "idle"
      /\ \A q \in Requests \ {r} : handler'[q] = handler[q]
      /\ \A q \in Requests : Holds(handler[q])'
  BY <1>1, <1>2, HandlerLeaves
<1>4. /\ overtaken \subseteq overtaken'
      /\ overtaken' \subseteq {"status", "step", "cdd", "eaa", "flag"}
      /\ "eaa" \in overtaken' <=> "eaa" \in overtaken
      /\ UNCHANGED <<status, step, saved, eaa, vouched, explained, flag, correction, applied, cut>>
  BY <1>1 DEF EngInv, Eng!EngTypeOK
<1>5. Eng!EngTypeOK'
  BY <1>2, <1>4 DEF EngInv, Eng!EngTypeOK
<1>6. Eng!OutcomeIsBacked'
  <2>1. handler[r].op # "apply" /\ handler[r].op # "activate" /\ handler[r].op # "status"
    BY <1>1
  <2> QED
    BY <1>3, <1>4, <2>1 DEF EngInv, Eng!OutcomeIsBacked, Eng!OnboardedHasData,
       Eng!CorrectionIsApplied, Eng!AgreementActivates
<1>7. Eng!FollowsRules
  <2>1. Eng!VerifiedIsKept
    <3>0. handler'[r].op = "idle"
      BY <1>3
    <3>1. handler[r].seen \in {"admin", "open"}
      BY <1>1 DEF EngInv, Holds, ReadsUnlocked
    <3>2. Eng!Verified /\ handler[r].seen = "open" => "cdd" \in overtaken'
      BY <1>1 DEF Eng!Unlocks
    <3> QED
      BY <1>1, <3>0, <3>1, <3>2, Zenon DEF Eng!VerifiedIsKept
  <2> QED
    BY <1>4, <2>1 DEF Eng!FollowsRules, EngInv, Eng!EngTypeOK
<1> QED
  BY <1>3, <1>5, <1>6, <1>7 DEF EngInv

LEMMA UpsertReadStep ==
  ASSUME EngInv, NEW r \in Requests, Eng!UpsertCddRead(r)
  PROVE  EngInv' /\ Eng!FollowsRules
<1>0. /\ handler[r] \in Calls /\ cdd \in Seq([id : Records, verified : BOOLEAN])
      /\ Holds(handler[r]) /\ handler[r].op = "cdd"
      /\ UNCHANGED <<Eng!rows, overtaken, cut>>
  BY DEF EngInv, HandlerType, Eng!UpsertCddRead
<1>1. PICK c \in Calls : /\ handler' = [handler EXCEPT ![r] = c]
                         /\ c.op = "upsert" /\ c.seen = handler[r].seen
  <2>1. PICK x \in Records \cup {NoRecord} :
          handler' = [handler EXCEPT ![r] = [@ EXCEPT !.op = "upsert", !.id = x]]
    <3>1. CASE cdd = <<>>
      BY <3>1 DEF Eng!UpsertCddRead
    <3>2. CASE cdd # <<>>
      <4>1. Len(cdd) \in 1..Len(cdd)
        BY <1>0, <3>2
      <4>2. cdd[Len(cdd)].id \in Records
        BY <4>1 DEF EngInv, Eng!EngTypeOK
      <4> QED
        BY <3>2, <4>2 DEF Eng!UpsertCddRead
    <3> QED
      BY <3>1, <3>2
  <2>2. PICK c \in Calls : c = [handler[r] EXCEPT !.op = "upsert", !.id = x]
    BY <1>0 DEF Calls, EngOps
  <2> QED
    BY <1>0, <2>1, <2>2 DEF Calls
<1>2. Holds(c)'
  BY <1>0, <1>1 DEF Holds, GoalFollows, StepHasData, ReadsUnlocked, Onboarding, EngInv
<1>3. UNCHANGED <<status, step, saved, cdd, eaa, vouched, explained, flag, correction, applied,
                  overtaken, cut>>
  BY <1>0 DEF Eng!rows
<1>4. /\ HandlerType' /\ handler'[r] = c
      /\ \A q \in Requests \ {r} : handler'[q] = handler[q]
      /\ \A q \in Requests : Holds(handler[q])'
  BY <1>0, <1>1, <1>2, <1>3, HandlerGoes
<1>5. Eng!EngTypeOK'
  BY <1>3 DEF EngInv, Eng!EngTypeOK
<1>6. Eng!OutcomeIsBacked'
  BY <1>0, <1>1, <1>3, <1>4 DEF EngInv, Eng!OutcomeIsBacked, Eng!OnboardedHasData,
     Eng!CorrectionIsApplied, Eng!AgreementActivates
<1>7. Eng!FollowsRules
  BY <1>3 DEF Eng!FollowsRules, Eng!VerifiedIsKept, Eng!Verified, EngInv, Eng!EngTypeOK
<1> QED
  BY <1>4, <1>5, <1>6, <1>7 DEF EngInv

LEMMA SeqElement ==
  ASSUME NEW S, NEW s \in Seq(S), NEW i \in 1..Len(s)
  PROVE  s[i] \in S
OBVIOUS

\* A record made under a fresh id, or one rewritten in its place.
LEMMA UpsertCdd ==
  ASSUME cdd \in Seq([id : Records, verified : BOOLEAN]),
         \A i, j \in 1..Len(cdd) : i # j => cdd[i].id # cdd[j].id,
         NEW ok \in BOOLEAN,
         \/ \E id \in Records : /\ \A i \in 1..Len(cdd) : cdd[i].id # id
                                /\ cdd' = Append(cdd, [id |-> id, verified |-> ok])
         \/ \E i \in 1..Len(cdd) : cdd' = [cdd EXCEPT ![i].verified = ok]
  PROVE  /\ cdd' \in Seq([id : Records, verified : BOOLEAN])
         /\ \A i, j \in 1..Len(cdd') : i # j => cdd'[i].id # cdd'[j].id
         /\ ok /\ Eng!Verified => Eng!Verified'
<1>1. CASE \E id \in Records : /\ \A i \in 1..Len(cdd) : cdd[i].id # id
                               /\ cdd' = Append(cdd, [id |-> id, verified |-> ok])
  <2>1. PICK id \in Records : /\ \A i \in 1..Len(cdd) : cdd[i].id # id
                              /\ cdd' = Append(cdd, [id |-> id, verified |-> ok])
    BY <1>1
  <2>2. [id |-> id, verified |-> ok] \in [id : Records, verified : BOOLEAN]
    BY Zenon
  <2>3. /\ cdd' \in Seq([id : Records, verified : BOOLEAN])
        /\ Len(cdd') = Len(cdd) + 1 /\ Len(cdd) \in Nat
        /\ cdd'[Len(cdd) + 1] = [id |-> id, verified |-> ok]
        /\ \A i \in 1..Len(cdd) : cdd'[i] = cdd[i]
    BY <2>1, <2>2
  <2>4. cdd'[Len(cdd) + 1].id = id /\ cdd'[Len(cdd) + 1].verified = ok
    BY <2>3
  <2>5. \A i, j \in 1..Len(cdd') : i # j => cdd'[i].id # cdd'[j].id
    BY <2>1, <2>3, <2>4
  <2>6. ok => Eng!Verified'
    BY <2>3, <2>4 DEF Eng!Verified
  <2> QED
    BY <2>3, <2>5, <2>6
<1>2. CASE \E i \in 1..Len(cdd) : cdd' = [cdd EXCEPT ![i].verified = ok]
  <2>1. PICK k \in 1..Len(cdd) : cdd' = [cdd EXCEPT ![k].verified = ok]
    BY <1>2
  <2>2. cdd[k] \in [id : Records, verified : BOOLEAN]
    BY SeqElement, Zenon
  <2>3. PICK c \in [id : Records, verified : BOOLEAN] :
          c = [cdd[k] EXCEPT !.verified = ok] /\ c.id = cdd[k].id /\ c.verified = ok
    <3> DEFINE d == [cdd[k] EXCEPT !.verified = ok]
    <3>1. d \in [id : Records, verified : BOOLEAN]
      BY <2>2
    <3>2. d.id = cdd[k].id /\ d.verified = ok
      BY <2>2
    <3> QED
      BY <3>1, <3>2
  <2>4. cdd' = [cdd EXCEPT ![k] = c]
    BY <2>1, <2>3
  <2>5. /\ cdd' \in Seq([id : Records, verified : BOOLEAN]) /\ Len(cdd') = Len(cdd)
        /\ cdd'[k] = c
        /\ \A i \in 1..Len(cdd) \ {k} : cdd'[i] = cdd[i]
    BY <2>4
  <2>6. \A i \in 1..Len(cdd) : cdd'[i].id = cdd[i].id
    BY <2>3, <2>5
  <2>7. ok /\ Eng!Verified => Eng!Verified'
    BY <2>3, <2>5 DEF Eng!Verified
  <2> QED
    BY <2>5, <2>6, <2>7
<1> QED
  BY <1>1, <1>2

LEMMA UpsertWriteStep ==
  ASSUME EngInv, NEW r \in Requests, Eng!UpsertCddWrite(r)
  PROVE  EngInv' /\ Eng!FollowsRules
<1> DEFINE ok == handler[r].goal = "verified"
<1>0. /\ handler[r].op = "upsert" /\ cdd \in Seq([id : Records, verified : BOOLEAN])
      /\ Eng!Leave(r) /\ ok \in BOOLEAN
      /\ overtaken' = IF Eng!Unlocks(r, handler[r].goal) THEN overtaken \cup {"cdd"} ELSE overtaken
      /\ UNCHANGED <<status, step, saved, eaa, vouched, explained, flag, correction, applied, cut>>
  BY DEF EngInv, HandlerType, Eng!UpsertCddWrite, Eng!Overtakes
<1>1. /\ cdd' \in Seq([id : Records, verified : BOOLEAN])
      /\ \A i, j \in 1..Len(cdd') : i # j => cdd'[i].id # cdd'[j].id
      /\ ok /\ Eng!Verified => Eng!Verified'
  <2>1. \/ \E id \in Records : /\ \A i \in 1..Len(cdd) : cdd[i].id # id
                               /\ cdd' = Append(cdd, [id |-> id, verified |-> ok])
        \/ \E i \in 1..Len(cdd) : cdd' = [cdd EXCEPT ![i].verified = ok]
    BY Zenon DEF Eng!UpsertCddWrite
  <2>2. \A i, j \in 1..Len(cdd) : i # j => cdd[i].id # cdd[j].id
    BY DEF EngInv, Eng!EngTypeOK
  <2> HIDE DEF ok
  <2> QED
    BY <1>0, <2>1, <2>2, UpsertCdd
<1>2. /\ HandlerType' /\ handler'[r].op = "idle"
      /\ \A q \in Requests \ {r} : handler'[q] = handler[q]
      /\ \A q \in Requests : Holds(handler[q])'
  BY <1>0, <1>1, HandlerLeaves
<1>3. /\ overtaken \subseteq overtaken'
      /\ overtaken' \subseteq {"status", "step", "cdd", "eaa", "flag"}
      /\ "eaa" \in overtaken' <=> "eaa" \in overtaken
      /\ UNCHANGED <<status, step, saved, eaa, vouched, explained, flag, correction, applied, cut>>
  BY <1>0 DEF EngInv, Eng!EngTypeOK
<1>4. Eng!EngTypeOK'
  <2>1. \A i \in 1..Len(cdd') : cdd'[i] \in [id : Records, verified : BOOLEAN]
    BY <1>1, SeqElement, Zenon
  <2> QED
    BY <1>1, <1>3, <2>1 DEF EngInv, Eng!EngTypeOK
<1>5. Eng!OutcomeIsBacked'
  <2>1. handler[r].op # "apply" /\ handler[r].op # "activate" /\ handler[r].op # "status"
    BY <1>0
  <2> QED
    BY <1>2, <1>3, <2>1 DEF EngInv, Eng!OutcomeIsBacked, Eng!OnboardedHasData,
       Eng!CorrectionIsApplied, Eng!AgreementActivates
<1>6. Eng!FollowsRules
  <2>1. Eng!VerifiedIsKept
    <3>0. handler'[r].op = "idle"
      BY <1>2
    <3>1. handler[r].seen \in {"admin", "open"}
      BY <1>0 DEF EngInv, Holds, ReadsUnlocked
    <3>2. Eng!Verified /\ ~Eng!Verified' /\ handler[r].seen = "open" => "cdd" \in overtaken'
      BY <1>0, <1>1 DEF Eng!Unlocks
    <3> QED
      BY <1>0, <3>0, <3>1, <3>2, Zenon DEF Eng!VerifiedIsKept
  <2> QED
    BY <1>3, <2>1 DEF Eng!FollowsRules, EngInv, Eng!EngTypeOK
<1> QED
  BY <1>2, <1>4, <1>5, <1>6 DEF EngInv

LEMMA WriteEaaStep ==
  ASSUME EngInv, NEW r \in Requests, Eng!WriteEaa(r)
  PROVE  EngInv' /\ Eng!FollowsRules
<1>1. /\ Eng!Leave(r) /\ handler[r].op = "createEaa" /\ eaa = "none" /\ eaa' = "draft" /\ vouched'
      /\ UNCHANGED <<status, step, saved, cdd, explained, flag, correction, applied, overtaken, cut>>
  BY DEF Eng!WriteEaa
<1>2. /\ HandlerType' /\ handler'[r].op = "idle"
      /\ \A q \in Requests \ {r} : handler'[q] = handler[q]
      /\ \A q \in Requests : Holds(handler[q])'
  BY <1>1, HandlerLeaves DEF EngInv, HandlerType
<1>3. Eng!EngTypeOK'
  BY <1>1, Tables DEF EngInv, Eng!EngTypeOK
<1>4. Eng!OutcomeIsBacked'
  BY <1>1, <1>2 DEF EngInv, Eng!OutcomeIsBacked, Eng!OnboardedHasData,
     Eng!CorrectionIsApplied, Eng!AgreementActivates
<1>5. Eng!FollowsRules
  BY <1>1 DEF Eng!FollowsRules, Eng!VerifiedIsKept, Eng!Verified, EngInv, Eng!EngTypeOK
<1> QED
  BY <1>2, <1>3, <1>4, <1>5 DEF EngInv

\* The agreement goes active first, and its handler on to the seller.
LEMMA WriteEaaStatusStep ==
  ASSUME EngInv, NEW r \in Requests, Eng!WriteEaaStatus(r)
  PROVE  EngInv' /\ Eng!FollowsRules
<1>0. /\ handler[r] \in Calls /\ cdd \in Seq([id : Records, verified : BOOLEAN])
      /\ handler[r].op = "eaa"
  BY DEF EngInv, HandlerType, Eng!WriteEaaStatus
<1>1. /\ eaa' = handler[r].goal
      /\ overtaken' = IF eaa # handler[r].seen THEN overtaken \cup {"eaa"} ELSE overtaken
      /\ UNCHANGED <<status, step, saved, cdd, vouched, explained, flag, correction, applied, cut>>
  BY DEF Eng!WriteEaaStatus, Eng!Overtakes
<1>2. /\ handler[r].seen \in DOMAIN Eng!VALID_EAA_STATUS_TRANSITIONS
      /\ handler[r].goal \in Eng!VALID_EAA_STATUS_TRANSITIONS[handler[r].seen]
      /\ vouched
  BY <1>0 DEF EngInv, Holds, GoalFollows
<1>3. eaa' \in DOMAIN Eng!VALID_EAA_STATUS_TRANSITIONS
  BY <1>1, <1>2, TablesClosed
<1>4. Eng!EngTypeOK'
  BY <1>1, <1>2, <1>3 DEF EngInv, Eng!EngTypeOK
<1>5. /\ HandlerType'
      /\ handler'[r].op = IF eaa' = "active" THEN "activate" ELSE "idle"
      /\ \A q \in Requests \ {r} : handler'[q] = handler[q]
      /\ \A q \in Requests : Holds(handler[q])'
  <2>1. CASE handler[r].goal = "active"
    <3>1. PICK c \in Calls : c = [handler[r] EXCEPT !.op = "activate"]
      BY <1>0 DEF Calls, EngOps
    <3>2. c.op = "activate" /\ c.goal = "active"
      BY <1>0, <2>1, <3>1 DEF Calls
    <3>3. handler' = [handler EXCEPT ![r] = c]
      BY <2>1, <3>1 DEF Eng!WriteEaaStatus
    <3>4. Holds(c)'
      BY <3>2 DEF Holds, GoalFollows, StepHasData, ReadsUnlocked, Onboarding
    <3> QED
      BY <1>0, <1>1, <2>1, <3>2, <3>3, <3>4, HandlerGoes
  <2>2. CASE handler[r].goal # "active"
    <3>1. Eng!Leave(r)
      BY <2>2 DEF Eng!WriteEaaStatus
    <3> QED
      BY <1>0, <1>1, <2>2, <3>1, HandlerLeaves
  <2> QED
    BY <2>1, <2>2
<1>6. Eng!OutcomeIsBacked'
  BY <1>0, <1>1, <1>5 DEF EngInv, Eng!OutcomeIsBacked, Eng!OnboardedHasData,
     Eng!CorrectionIsApplied, Eng!AgreementActivates
<1>7. Eng!FollowsRules
  BY <1>1, <1>2 DEF Eng!FollowsRules, Eng!VerifiedIsKept, Eng!Verified, EngInv, Eng!EngTypeOK
<1> QED
  BY <1>4, <1>5, <1>6, <1>7 DEF EngInv

LEMMA ActivateStep ==
  ASSUME EngInv, NEW r \in Requests, Eng!ActivateSeller(r)
  PROVE  EngInv' /\ Eng!FollowsRules
<1>0. /\ handler[r] \in Calls /\ cdd \in Seq([id : Records, verified : BOOLEAN])
      /\ handler[r].op = "activate" /\ handler[r].goal = "active"
      /\ "active" \in Eng!STATUS_TRANSITIONS[status]
      /\ status \in DOMAIN Eng!STATUS_TRANSITIONS /\ status \in Words
  BY TablesClosed DEF EngInv, HandlerType, Eng!ActivateSeller, Holds, GoalFollows, Eng!EngTypeOK
<1>1. UNCHANGED <<status, step, saved, cdd, eaa, vouched, explained, flag, correction, applied,
                  overtaken, cut>>
  BY DEF Eng!ActivateSeller, Eng!rows
<1>2. PICK c \in Calls : c = [handler[r] EXCEPT !.op = "status", !.seen = status, !.n = 1]
  <2>1. "status" \in EngOps /\ 1 \in 0..Eng!TOTAL_ONBOARDING_STEPS
    BY DEF EngOps, Eng!TOTAL_ONBOARDING_STEPS
  <2> QED
    BY <1>0, <2>1 DEF Calls
<1>3. c.op = "status" /\ c.seen = status /\ c.n = 1 /\ c.goal = "active"
  BY <1>0, <1>2 DEF Calls
<1>4. Holds(c)'
  BY <1>0, <1>1, <1>3 DEF Holds, GoalFollows, StepHasData, ReadsUnlocked, Onboarding
<1>5. handler' = [handler EXCEPT ![r] = c]
  BY <1>2 DEF Eng!ActivateSeller
<1>6. /\ HandlerType' /\ handler'[r] = c
      /\ \A q \in Requests \ {r} : handler'[q] = handler[q]
      /\ \A q \in Requests : Holds(handler[q])'
  BY <1>0, <1>1, <1>4, <1>5, HandlerGoes
<1>7. Eng!EngTypeOK'
  BY <1>1 DEF EngInv, Eng!EngTypeOK
<1>8. Eng!OutcomeIsBacked'
  BY <1>0, <1>1, <1>3, <1>6 DEF EngInv, Eng!OutcomeIsBacked, Eng!OnboardedHasData,
     Eng!CorrectionIsApplied, Eng!AgreementActivates
<1>9. Eng!FollowsRules
  BY <1>1 DEF Eng!FollowsRules, Eng!VerifiedIsKept, Eng!Verified, EngInv, Eng!EngTypeOK
<1> QED
  BY <1>6, <1>7, <1>8, <1>9 DEF EngInv

LEMMA WriteExplanationStep ==
  ASSUME EngInv, NEW r \in Requests, Eng!WriteExplanation(r)
  PROVE  EngInv' /\ Eng!FollowsRules
<1>1. /\ Eng!Leave(r) /\ handler[r].op = "explain" /\ handler[r].n = 0
      /\ explained' = IF explained = 0 THEN 1 ELSE 2
      /\ overtaken' = IF explained # 0 THEN overtaken \cup {"eaa"} ELSE overtaken
      /\ UNCHANGED <<status, step, saved, cdd, eaa, vouched, flag, correction, applied, cut>>
  BY DEF Eng!WriteExplanation, Eng!Overtakes, EngInv, Holds, ReadsUnlocked
<1>2. /\ HandlerType' /\ handler'[r].op = "idle"
      /\ \A q \in Requests \ {r} : handler'[q] = handler[q]
      /\ \A q \in Requests : Holds(handler[q])'
  BY <1>1, HandlerLeaves DEF EngInv, HandlerType
<1>3. Eng!EngTypeOK'
  BY <1>1 DEF EngInv, Eng!EngTypeOK
<1>4. Eng!OutcomeIsBacked'
  BY <1>1, <1>2 DEF EngInv, Eng!OutcomeIsBacked, Eng!OnboardedHasData,
     Eng!CorrectionIsApplied, Eng!AgreementActivates
<1>5. Eng!FollowsRules
  BY <1>1 DEF Eng!FollowsRules, Eng!VerifiedIsKept, Eng!Verified, EngInv, Eng!EngTypeOK
<1> QED
  BY <1>2, <1>3, <1>4, <1>5 DEF EngInv

\* The case flag, and the correction up to its verdict.
LEMMA CaseStep ==
  ASSUME EngInv, NEW r \in Requests, Eng!WriteCaseFlag(r) \/ Eng!UpdateSellerField(r)
  PROVE  EngInv' /\ Eng!FollowsRules
<1>1. /\ Eng!Leave(r) /\ handler[r].op \in {"flag", "apply"}
      /\ overtaken \subseteq overtaken' /\ overtaken' \subseteq overtaken \cup {"flag"}
      /\ UNCHANGED <<status, step, saved, cdd, eaa, vouched, explained, correction, cut>>
      /\ applied => applied'
  BY DEF Eng!WriteCaseFlag, Eng!UpdateSellerField, Eng!Overtakes
<1>2. /\ HandlerType' /\ handler'[r].op = "idle"
      /\ \A q \in Requests \ {r} : handler'[q] = handler[q]
      /\ \A q \in Requests : Holds(handler[q])'
  BY <1>1, HandlerLeaves DEF EngInv, HandlerType
<1>3. \/ flag' = flag
      \/ flag' \in Eng!CASE_FLAG_TRANSITIONS[flag] /\ flag' \in DOMAIN Eng!CASE_FLAG_TRANSITIONS
      \/ "flag" \in overtaken' /\ flag' \in DOMAIN Eng!CASE_FLAG_TRANSITIONS
  BY TablesClosed DEF Eng!WriteCaseFlag, Eng!UpdateSellerField, Eng!Overtakes, EngInv, Holds, GoalFollows
<1>4. applied' \in BOOLEAN /\ (handler[r].op = "apply" => applied')
  BY Zenon DEF Eng!WriteCaseFlag, Eng!UpdateSellerField, EngInv, Eng!EngTypeOK
<1>5. Eng!EngTypeOK'
  BY <1>1, <1>3, <1>4 DEF EngInv, Eng!EngTypeOK
<1>6. Eng!OutcomeIsBacked'
  BY <1>1, <1>2, <1>4 DEF EngInv, Eng!OutcomeIsBacked, Eng!OnboardedHasData,
     Eng!CorrectionIsApplied, Eng!AgreementActivates
<1>7. Eng!FollowsRules
  BY <1>1, <1>3 DEF Eng!FollowsRules, Eng!VerifiedIsKept, Eng!Verified, EngInv, Eng!EngTypeOK
<1> QED
  BY <1>2, <1>5, <1>6, <1>7 DEF EngInv

LEMMA VerdictStep ==
  ASSUME EngInv, NEW r \in Requests, Eng!UpdateCorrectionRequest(r)
  PROVE  EngInv' /\ Eng!FollowsRules
<1>0. /\ handler[r] \in Calls /\ cdd \in Seq([id : Records, verified : BOOLEAN])
      /\ handler[r].op = "correct" /\ handler[r].goal \in {"completed", "rejected"}
  BY DEF EngInv, HandlerType, Eng!UpdateCorrectionRequest, Holds, GoalFollows
<1>1. /\ correction' = handler[r].goal
      /\ UNCHANGED <<status, step, saved, cdd, eaa, vouched, explained, flag, applied, overtaken, cut>>
  BY DEF Eng!UpdateCorrectionRequest
<1>2. /\ HandlerType'
      /\ handler'[r].op = IF correction' = "completed" THEN "apply" ELSE "idle"
      /\ \A q \in Requests \ {r} : handler'[q] = handler[q]
      /\ \A q \in Requests : Holds(handler[q])'
  <2>1. CASE handler[r].goal = "completed"
    <3>1. PICK c \in Calls : c = [handler[r] EXCEPT !.op = "apply"]
      BY <1>0 DEF Calls, EngOps
    <3>2. c.op = "apply"
      BY <1>0, <3>1 DEF Calls
    <3>3. handler' = [handler EXCEPT ![r] = c]
      BY <2>1, <3>1 DEF Eng!UpdateCorrectionRequest
    <3>4. Holds(c)'
      BY <3>2 DEF Holds, GoalFollows, StepHasData, ReadsUnlocked, Onboarding
    <3> QED
      BY <1>0, <1>1, <2>1, <3>2, <3>3, <3>4, HandlerGoes
  <2>2. CASE handler[r].goal # "completed"
    <3>1. Eng!Leave(r)
      BY <2>2 DEF Eng!UpdateCorrectionRequest
    <3> QED
      BY <1>0, <1>1, <2>2, <3>1, HandlerLeaves
  <2> QED
    BY <2>1, <2>2
<1>3. Eng!EngTypeOK'
  BY <1>0, <1>1 DEF EngInv, Eng!EngTypeOK
<1>4. Eng!OutcomeIsBacked'
  BY <1>0, <1>1, <1>2 DEF EngInv, Eng!OutcomeIsBacked, Eng!OnboardedHasData,
     Eng!CorrectionIsApplied, Eng!AgreementActivates
<1>5. Eng!FollowsRules
  BY <1>1 DEF Eng!FollowsRules, Eng!VerifiedIsKept, Eng!Verified, EngInv, Eng!EngTypeOK
<1> QED
  BY <1>2, <1>3, <1>4, <1>5 DEF EngInv

LEMMA CreateStep ==
  ASSUME EngInv, Eng!CreateCaseFlag \/ Eng!CreateCorrectionRequest
  PROVE  EngInv' /\ Eng!FollowsRules
<1>1. /\ UNCHANGED <<status, step, saved, cdd, eaa, vouched, explained, applied, handler,
                     overtaken, cut>>
      /\ flag' \in {flag, "identified"} /\ correction' \in {correction, "pending"}
  BY DEF Eng!CreateCaseFlag, Eng!CreateCorrectionRequest
<1>2. HandlerType' /\ \A q \in Requests : Holds(handler[q])'
  BY <1>1 DEF EngInv, HandlerType, Holds, GoalFollows, StepHasData, ReadsUnlocked
<1>3. Eng!EngTypeOK'
  BY <1>1, Tables DEF EngInv, Eng!EngTypeOK
<1>4. Eng!OutcomeIsBacked'
  BY <1>1 DEF EngInv, Eng!OutcomeIsBacked, Eng!OnboardedHasData,
     Eng!CorrectionIsApplied, Eng!AgreementActivates
<1>5. Eng!FollowsRules
  BY <1>1 DEF Eng!FollowsRules, Eng!VerifiedIsKept, Eng!Verified, EngInv, Eng!EngTypeOK
<1> QED
  BY <1>2, <1>3, <1>4, <1>5 DEF EngInv

LEMMA EngStep == EngInv /\ [Eng!EngNext]_Eng!engVars => EngInv' /\ [Eng!FollowsRules]_Eng!engVars
<1> SUFFICES ASSUME EngInv, [Eng!EngNext]_Eng!engVars
             PROVE  EngInv' /\ [Eng!FollowsRules]_Eng!engVars
  OBVIOUS
<1>1. ASSUME NEW r \in Requests, Eng!StatusStep(r) PROVE EngInv' /\ Eng!FollowsRules
  BY <1>1, StatusGoes, WriteStatusStep DEF Eng!StatusStep
<1>2. ASSUME NEW r \in Requests, Eng!OnboardingStep(r) PROVE EngInv' /\ Eng!FollowsRules
  BY <1>2, SubmitGoes, SavingStep, WriteStepStep DEF Eng!OnboardingStep
<1>3. ASSUME NEW r \in Requests, Eng!DueDiligenceStep(r) PROVE EngInv' /\ Eng!FollowsRules
  <2>1. ASSUME Eng!VerifyCdd(r) PROVE EngInv' /\ Eng!FollowsRules
    <3>1. TRUE \in BOOLEAN /\ "pending" \in {"not_started", "pending", "verified"}
      OBVIOUS
    <3> QED
      BY <2>1, <3>1, CddGoes
  <2> QED
    BY <1>3, <2>1, CddGoes, DeleteCddStep, UpsertReadStep, UpsertWriteStep DEF Eng!DueDiligenceStep
<1>4. ASSUME NEW r \in Requests, Eng!AgreementStep(r) PROVE EngInv' /\ Eng!FollowsRules
  BY <1>4, AgreementGoes, WriteEaaStep, WriteEaaStatusStep, ActivateStep, WriteExplanationStep
     DEF Eng!AgreementStep
<1>5. ASSUME NEW r \in Requests, Eng!FlagStep(r) \/ Eng!CorrectionStep(r)
      PROVE  EngInv' /\ Eng!FollowsRules
  BY <1>5, CaseGoes, CaseStep, VerdictStep, CreateStep DEF Eng!FlagStep, Eng!CorrectionStep
<1>6. CASE UNCHANGED Eng!engVars
  BY <1>6 DEF EngInv, Eng!engVars, Eng!rows, Eng!EngTypeOK, HandlerType, Holds, GoalFollows,
     StepHasData, ReadsUnlocked, Eng!OutcomeIsBacked, Eng!OnboardedHasData,
     Eng!CorrectionIsApplied, Eng!AgreementActivates
<1> QED
  BY <1>1, <1>2, <1>3, <1>4, <1>5, <1>6, QuitStep
     DEF Eng!EngNext, Eng!AgreeNext, Eng!OnboardNext, Eng!CaseNext

-----------------------------------------------------------------------------

\* Of the team and of the engagement: the values of their rows, and that what a row
\* announces has what it rests on (saveOnboardingStep, processCorrectionRequest,
\* updateEaaStatus).
THEOREM OutcomeIsBackedKept == TeamSpec /\ Eng!EngSpec => []OutcomeIsBacked
<1>1. EngInv => Eng!EngTypeOK /\ Eng!OutcomeIsBacked
  BY DEF EngInv
<1>2. Eng!EngSpec => []EngInv
  BY EngInit, EngStep, PTL DEF Eng!EngSpec
<1> QED
  BY <1>1, <1>2, TypeCorrect, PTL DEF OutcomeIsBacked

\* Status, agreement, case flag and onboarding step move as their tables say, and
\* verified due diligence is undone by an admin only, but where a handler was overtaken
\* (updateSellerStatus, updateEaaStatus, updateCaseFlag, updateCddStatus).
THEOREM EngagementFollowsRulesKept == Eng!EngSpec => EngagementFollowsRules
BY EngInit, EngStep, PTL DEF Eng!EngSpec, EngagementFollowsRules, Eng!EngagementFollowsRules
====
