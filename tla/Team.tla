--------------------------------- MODULE Team ---------------------------------
(***************************************************************************)
(* Leads and the agents who serve them: the public form and the link that  *)
(* verifies an address (src/src/domains/lead), the agent new leads go to,  *)
(* assignment, and the departure of an agent                               *)
(* (src/src/domains/admin/admin.service.ts and admin.router.ts).           *)
(*                                                                         *)
(* A handler is a request that yields at each await.  Nothing but the      *)
(* creation of a lead is in a database transaction: an agent is checked,   *)
(* then given work; their work is counted, then they are deactivated.      *)
(***************************************************************************)
EXTENDS Integers, FiniteSets

CONSTANTS
  Sellers,   \* rows of sellers: one per phone number, which is unique
  Agents,    \* rows of agents: one per address, which is unique
  Requests,  \* handlers the process may have in flight
  Nobody,    \* no agent, or no seller
  MaxFlats   \* bound: properties made of a lead's details

ASSUME TeamAssumption == Nobody \notin Agents \cup Sellers /\ MaxFlats \in Nat

VARIABLES
  stage,    \* of each seller: none, current (lead, engaged, active), over
  agentOf,  \* agentId of each seller
  mail,     \* the address: unknown, new (no link), sent, stale (72 hours on), verified
  flats,    \* properties made of the details of each lead
  agent,    \* of each agent: none, active, inactive
  retired,  \* agents anonymised
  default,  \* default_agent_id
  call,     \* the local state of each request
  raced     \* ghost: agents given work while another handler took it from them

Free == [op |-> "idle", s |-> Nobody, a |-> Nobody]

leadVars == <<stage, mail, flats>>
agentVars == <<agent, retired>>
teamVars == <<leadVars, agentOf, agentVars, default, call, raced>>

\* The handlers that give an agent work, and those that end it.
Giving == {"setDefault", "assign", "assignDefault"}
Ending == {"count", "deactivate", "anonymise", "depart"}

TeamTypeOK ==
  /\ stage \in [Sellers -> {"none", "current", "over"}]
  /\ agentOf \in [Sellers -> Agents \cup {Nobody}]
  /\ mail \in [Sellers -> {"unknown", "new", "sent", "stale", "verified"}]
  /\ \A s \in Sellers : stage[s] = "none" <=> mail[s] = "unknown"
  /\ flats \in [Sellers -> 0..MaxFlats]
  /\ agent \in [Agents -> {"none", "active", "inactive"}]
  /\ retired \subseteq Agents /\ raced \subseteq Agents
  /\ default \in Agents \cup {Nobody}
  /\ call \in [Requests -> [op : Giving \cup Ending \cup {"idle", "create", "token", "pick", "mark",
                                                         "resend", "details"},
                            s : Sellers \cup {Nobody}, a : Agents \cup {Nobody}]]

Enter(r, op, s, a) == /\ call[r].op = "idle"
                      /\ call' = [call EXCEPT ![r] = [op |-> op, s |-> s, a |-> a]]

Then(r, op) == call' = [call EXCEPT ![r].op = op]

Leave(r) == call' = [call EXCEPT ![r] = Free]

\* The handler throws (a mail that does not go, a row that is gone) or dies.
Quit(r) ==
  /\ call[r].op # "idle"
  /\ Leave(r)
  /\ UNCHANGED <<leadVars, agentOf, agentVars, default, raced>>

\* Another handler, of these kinds and about agent a, is at work.
Meets(r, a, ops) == \E q \in Requests \ {r} : call[q].a = a /\ call[q].op \in ops

Race(r, a, ops) == raced' = IF Meets(r, a, ops) THEN raced \cup {a} ELSE raced

-----------------------------------------------------------------------------
(* A lead: POST /api/leads and submitLead.                                 *)

\* findActiveSellerByPhone: a seller whose sale is over passes.
SubmitLead(r, s) ==
  /\ stage[s] # "current"
  /\ Enter(r, "create", s, Nobody)
  /\ UNCHANGED <<leadVars, agentOf, agentVars, default, raced>>

\* The seller and the consent in one database transaction; the phone is unique,
\* so the second of two, and a seller who comes back, is refused (Quit).
SubmitLeadAtomically(r) ==
  LET s == call[r].s
  IN  /\ call[r].op = "create" /\ stage[s] = "none"
      /\ stage' = [stage EXCEPT ![s] = "current"]
      /\ mail' = [mail EXCEPT ![s] = "new"]
      /\ Then(r, "token")
      /\ UNCHANGED <<flats, agentOf, agentVars, default, raced>>

\* One live link: a second replaces the first.  The mail may fail (Quit).
SetEmailVerificationToken(r) ==
  LET s == call[r].s
  IN  /\ call[r].op \in {"token", "resend"}
      /\ mail' = [mail EXCEPT ![s] = IF @ = "verified" THEN "verified" ELSE "sent"]
      /\ IF call[r].op = "token" THEN Then(r, "pick") ELSE Leave(r)
      /\ UNCHANGED <<stage, flats, agentOf, agentVars, default, raced>>

PickDefaultAgent(r) ==
  /\ call[r].op = "pick"
  /\ call' = [call EXCEPT ![r] = IF default = Nobody THEN Free
                                 ELSE [@ EXCEPT !.op = "assignDefault", !.a = default]]
  /\ UNCHANGED <<leadVars, agentOf, agentVars, default, raced>>

\* assignAgent: the agent is not looked at.
AssignDefaultAgent(r) ==
  LET a == call[r].a
  IN  /\ call[r].op = "assignDefault"
      /\ agentOf' = [agentOf EXCEPT ![call[r].s] = a]
      /\ Race(r, a, Ending)
      /\ Leave(r)
      /\ UNCHANGED <<leadVars, agentVars, default>>

-----------------------------------------------------------------------------
(* The address and the details.                                            *)

LinkExpires(s) ==
  /\ mail[s] = "sent"
  /\ mail' = [mail EXCEPT ![s] = "stale"]
  /\ UNCHANGED <<stage, flats, agentOf, agentVars, default, call, raced>>

\* verifyEmailToken: found by its link, and in time.
VerifyEmailToken(r, s) ==
  /\ mail[s] = "sent"
  /\ Enter(r, "mark", s, Nobody)
  /\ UNCHANGED <<leadVars, agentOf, agentVars, default, raced>>

MarkEmailVerified(r) ==
  /\ call[r].op = "mark"
  /\ mail' = [mail EXCEPT ![call[r].s] = "verified"]
  /\ Leave(r)
  /\ UNCHANGED <<stage, flats, agentOf, agentVars, default, raced>>

\* By the seller, while a lead, or by an agent.
ResendVerification(r, s) ==
  /\ mail[s] \in {"new", "sent", "stale"}
  /\ Enter(r, "resend", s, Nobody)
  /\ UNCHANGED <<leadVars, agentOf, agentVars, default, raced>>

SubmitLeadDetails(r, s) ==
  /\ mail[s] = "verified"
  /\ Enter(r, "details", s, Nobody)
  /\ UNCHANGED <<leadVars, agentOf, agentVars, default, raced>>

\* Each submission makes a property of its own.
CreateLeadProperty(r) ==
  LET s == call[r].s
  IN  /\ call[r].op = "details" /\ flats[s] < MaxFlats
      /\ flats' = [flats EXCEPT ![s] = @ + 1]
      /\ Leave(r)
      /\ UNCHANGED <<stage, mail, agentOf, agentVars, default, raced>>

\* Completed or archived (see Engagement): no longer counted.
EndOfSale(s) ==
  /\ stage[s] = "current"
  /\ stage' = [stage EXCEPT ![s] = "over"]
  /\ UNCHANGED <<mail, flats, agentOf, agentVars, default, call, raced>>

-----------------------------------------------------------------------------
(* The team.                                                               *)

\* createAgent: the address is looked up, and is unique.
CreateAgent(a) ==
  /\ agent[a] = "none"
  /\ agent' = [agent EXCEPT ![a] = "active"]
  /\ UNCHANGED <<leadVars, agentOf, retired, default, call, raced>>

SetDefaultAgent(r, a) ==
  /\ agent[a] = "active"
  /\ Enter(r, "setDefault", Nobody, a)
  /\ UNCHANGED <<leadVars, agentOf, agentVars, default, raced>>

UpsertDefaultAgent(r) ==
  /\ call[r].op = "setDefault"
  /\ default' = call[r].a
  /\ Race(r, call[r].a, Ending)
  /\ Leave(r)
  /\ UNCHANGED <<leadVars, agentOf, agentVars>>

\* assignSeller, reassignSeller, and each seller of the bulk route.
AssignSeller(r, s, a) ==
  /\ stage[s] # "none" /\ agent[a] = "active"
  /\ Enter(r, "assign", s, a)
  /\ UNCHANGED <<leadVars, agentOf, agentVars, default, raced>>

WriteAssignment(r) ==
  /\ call[r].op = "assign"
  /\ agentOf' = [agentOf EXCEPT ![call[r].s] = call[r].a]
  /\ Race(r, call[r].a, Ending)
  /\ Leave(r)
  /\ UNCHANGED <<leadVars, agentVars, default>>

\* The routes: of the default agent, the default is cleared first.  (The form
\* may name another one instead, but takes UUIDs only, which no id is.)
EndAgent(r, a, keep) ==
  /\ agent[a] # "none"
  /\ default = a => ~keep
  /\ default' = IF default = a THEN Nobody ELSE default
  /\ Enter(r, "count", Nobody, a)
  /\ UNCHANGED <<leadVars, agentOf, agentVars, raced>>

WorkOf(a) == {s \in Sellers : agentOf[s] = a /\ stage[s] = "current"}

CountActiveSellers_LeadsOnly(r) ==
  /\ call[r].op = "count"
  /\ \A s \in WorkOf(call[r].a) : mail[s] = "verified"
  /\ \E op \in {"deactivate", "anonymise"} : Then(r, op)
  /\ UNCHANGED <<leadVars, agentOf, agentVars, default, raced>>

\* deactivateAgent and anonymiseAgent refuse (Quit) an agent with sellers.
CountActiveSellers(r) ==
  /\ call[r].op = "count" /\ WorkOf(call[r].a) = {}
  /\ \E op \in {"deactivate", "anonymise"} : Then(r, op)
  /\ UNCHANGED <<leadVars, agentOf, agentVars, default, raced>>

\* updateAgentStatus or anonymiseAgent of the repository; the agent's sessions
\* are invalidated after it.
EndAgentCommit(r) ==
  LET a == call[r].a
  IN  /\ call[r].op \in {"deactivate", "anonymise", "depart"}
      /\ agent' = [agent EXCEPT ![a] = "inactive"]
      /\ retired' = IF call[r].op = "deactivate" THEN retired ELSE retired \cup {a}
      /\ Race(r, a, Giving)
      /\ Leave(r)
      /\ UNCHANGED <<leadVars, agentOf, default>>

\* POST /admin/agents/:agentId/anonymise, and the retention scan: an inactive agent.
AnonymiseOnDeparture(r, a) ==
  /\ agent[a] = "inactive"
  /\ Enter(r, "depart", Nobody, a)
  /\ UNCHANGED <<leadVars, agentOf, agentVars, default, raced>>

\* One write, which may fall between the check and the write of a departure.
ReactivateAgent(a) ==
  /\ agent[a] = "inactive"
  /\ agent' = [agent EXCEPT ![a] = "active"]
  /\ raced' = IF \E q \in Requests : call[q].a = a /\ call[q].op = "depart"
              THEN raced \cup {a} ELSE raced
  /\ UNCHANGED <<leadVars, agentOf, retired, default, call>>

-----------------------------------------------------------------------------

TeamInit ==
  /\ stage = [s \in Sellers |-> "none"]
  /\ agentOf = [s \in Sellers |-> Nobody]
  /\ mail = [s \in Sellers |-> "unknown"]
  /\ flats = [s \in Sellers |-> 0]
  /\ agent = [a \in Agents |-> "none"]
  /\ retired = {} /\ raced = {} /\ default = Nobody
  /\ call = [r \in Requests |-> Free]

\* POST /api/leads
LeadStep(r) ==
  \/ \E s \in Sellers : SubmitLead(r, s)
  \/ SubmitLeadAtomically(r) \/ SetEmailVerificationToken(r)
  \/ PickDefaultAgent(r) \/ AssignDefaultAgent(r)

\* /verify-email
VerificationStep(r) ==
  \/ \E s \in Sellers : \/ VerifyEmailToken(r, s) \/ ResendVerification(r, s)
                        \/ SubmitLeadDetails(r, s)
  \/ MarkEmailVerified(r) \/ CreateLeadProperty(r)

\* /admin/sellers/:id/assign and reassign
AssignmentStep(r) ==
  \/ \E a \in Agents, s \in Sellers : AssignSeller(r, s, a)
  \/ WriteAssignment(r)

\* /admin/team/:id
AgentStep(r) ==
  \/ \E a \in Agents : \/ SetDefaultAgent(r, a) \/ AnonymiseOnDeparture(r, a)
                       \/ \E keep \in BOOLEAN : EndAgent(r, a, keep)
  \/ UpsertDefaultAgent(r) \/ CountActiveSellers(r) \/ EndAgentCommit(r)

TeamNext ==
  \/ \E r \in Requests : \/ Quit(r) \/ LeadStep(r) \/ VerificationStep(r)
                         \/ AssignmentStep(r) \/ AgentStep(r)
  \/ \E s \in Sellers : LinkExpires(s) \/ EndOfSale(s)
  \/ \E a \in Agents : CreateAgent(a) \/ ReactivateAgent(a)

TeamSpec == TeamInit /\ [][TeamNext]_teamVars

-----------------------------------------------------------------------------
(* Properties.                                                             *)

\* A seller whose sale is not over is in the hands of an active agent, and new
\* leads go to one: departures, assignments and the default never disagree but
\* where two of them overlapped.
InactiveHasNoWork ==
  \A a \in Agents \ raced : agent[a] # "active" => WorkOf(a) = {} /\ default # a
=============================================================================
