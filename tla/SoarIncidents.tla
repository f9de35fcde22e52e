---------------------------- MODULE SoarIncidents ----------------------------
(***************************************************************************)
(* Playbooks and incidents (services/soar.service.js, routes/              *)
(* soar.routes.js): a correlated alert creates an incident for each        *)
(* playbook that matches; one that asks for approval waits for an          *)
(* administrator, one that does not is executed at once.                   *)
(*                                                                         *)
(* Every access of the database is awaited, and a document is loaded,      *)
(* changed and saved without a look at what others have saved meanwhile.   *)
(* Who may decide is the business of AuthTokens: its requests are the      *)
(* ones of this module, and a restart ends both.                           *)
(***************************************************************************)
EXTENDS AuthTokens

CONSTANTS
  Playbooks,     \* in order of priority: severity, kinds, mode, number of actions
  Alerts,        \* correlated alerts: severity (a rank), kind
  MaxIncidents,  \* bound
  MaxFaults      \* bound: failing database calls and restarts

ASSUME IncidentAssumption ==
  /\ {MaxIncidents, MaxFaults} \subseteq Nat
  /\ \A k \in DOMAIN Playbooks :
       Playbooks[k].actions \in Nat /\ Playbooks[k].mode \in {"auto", "approval"}

System == "onCorrelatedAlert"
Workers == Requests \cup {System}

VARIABLES
  incident,  \* the incidents in the order of their creation: playbook, status
  left,      \* numbers of the playbooks that onCorrelatedAlert has yet to come to
  worker,    \* what each handler is at: stage, verdict, incident, by whom; and,
             \* executing, which decision, the next action, whether all went well
  faults,
  decisions, \* history: per incident what set it going or ended it, by whom, and
             \* how many actions were recorded for it
  both,      \* history: incidents that two requests had loaded as pending
  lost       \* history: incidents whose execution a restart or a failure ended

incidentVars == <<incident, left, worker, faults, decisions, both, lost>>

At(stage, kind, i, who, d) ==
  [stage |-> stage, kind |-> kind, inc |-> i, by |-> who, dec |-> d, next |-> 1, ok |-> TRUE]

Off == At("idle", "none", 0, "none", 0)

IncidentsInit ==
  /\ incident = <<>> /\ left = {} /\ faults = 0
  /\ worker = [w \in Workers |-> Off]
  /\ decisions = <<>> /\ both = {} /\ lost = {}

\* matches
Matches(p, alert) == alert.severity >= p.severity /\ alert.kind \in p.kinds

Set(w, state) == worker' = [worker EXCEPT ![w] = state]

Alert(a) ==
  /\ left = {} /\ worker[System] = Off
  /\ Len(incident) < MaxIncidents
  /\ left' = {k \in DOMAIN Playbooks : Matches(Playbooks[k], a)}
  /\ UNCHANGED <<incident, worker, faults, decisions, both, lost>>

Decision(kind, who) == [kind |-> kind, by |-> who, ran |-> 0]

\* The execution of the d-th decision on an incident
Executing(i, d) == At("executing", "none", i, "none", d)

Automatic(p) == p.mode = "auto"

\* Incident.create, then the execution or the page to the on-call
CreateIncident(k) ==
  /\ k \in left /\ (\A j \in left : k <= j) /\ left' = left \ {k}
  /\ worker[System] = Off /\ Len(incident) < MaxIncidents
  /\ incident' = Append(incident, [playbook |-> Playbooks[k], status |-> "pending"])
  /\ \/ /\ Automatic(Playbooks[k])
        /\ Set(System, Executing(Len(incident) + 1, 1))
        /\ decisions' = Append(decisions, <<Decision("auto", System)>>)
     \/ /\ ~Automatic(Playbooks[k])
        /\ decisions' = Append(decisions, <<>>) /\ UNCHANGED worker
  /\ UNCHANGED <<faults, both, lost>>

Fault == faults < MaxFaults /\ faults' = faults + 1

\* It never throws: the playbooks that are left are passed over.
CreateFails ==
  /\ left # {} /\ worker[System] = Off /\ Fault
  /\ left' = {}
  /\ UNCHANGED <<incident, worker, decisions, both, lost>>

\* Mutant: any incident can be decided.
Open_Always(i) == TRUE

Open(i) == incident[i].status = "pending"

HasLoaded(w, i) == worker[w].stage = "loaded" /\ worker[w].inc = i

\* protect and authorize let the request through, and findById answers: what
\* happens while it waits for that is as if it had come later.  A decided
\* incident is answered with 409.
LoadIncident(r, kind, i, a) ==
  /\ worker[r] = Off /\ i \in DOMAIN incident /\ Authorized(a) /\ Open(i)
  /\ Set(r, At("loaded", kind, i, a.owner, 0))
  /\ both' = IF \E x \in Requests : HasLoaded(x, i) THEN both \cup {i} ELSE both
  /\ UNCHANGED <<incident, left, faults, decisions, lost>>

SaveDecision(r) ==
  LET i == worker[r].inc
      approves == worker[r].kind = "approve"
  IN /\ worker[r].stage = "loaded"
     /\ incident' = [incident EXCEPT ![i].status = IF approves THEN "approved" ELSE "rejected"]
     /\ decisions' = [decisions EXCEPT ![i] = Append(@, Decision(worker[r].kind, worker[r].by))]
     /\ Set(r, IF approves THEN Executing(i, Len(decisions[i]) + 1) ELSE Off)
     /\ UNCHANGED <<left, faults, both, lost>>

SaveFails(r) ==
  /\ worker[r].stage = "loaded" /\ Fault
  /\ Set(r, Off)
  /\ UNCHANGED <<incident, left, decisions, both, lost>>

\* Mutant: a failing action ends the execution.
AfterFailure_Throws(w) == Off

\* A failing action is noted and passed over.
AfterFailure(w) == [worker[w] EXCEPT !.next = @ + 1, !.ok = FALSE]

MoreActions(w) == worker[w].next <= incident[worker[w].inc].playbook.actions

\* recordAction
RunAction(w) ==
  /\ worker[w].stage = "executing" /\ MoreActions(w)
  /\ \/ /\ Set(w, [worker[w] EXCEPT !.next = @ + 1])
        /\ decisions' = [decisions EXCEPT ![worker[w].inc][worker[w].dec].ran = @ + 1]
        /\ UNCHANGED faults
     \/ /\ Fault /\ Set(w, AfterFailure(w)) /\ UNCHANGED decisions
  /\ UNCHANGED <<incident, left, both, lost>>

\* The end of execute
FinishExecution(w) ==
  LET i == worker[w].inc
  IN /\ worker[w].stage = "executing" /\ ~MoreActions(w)
     /\ Set(w, Off)
     /\ \/ /\ incident' = [incident EXCEPT ![i].status =
                             IF worker[w].ok THEN "executed" ELSE "failed"]
           /\ UNCHANGED <<faults, lost>>
        \/ Fault /\ lost' = lost \cup {i} /\ UNCHANGED incident
     /\ UNCHANGED <<left, decisions, both>>

IncidentsRestart ==
  /\ Fault
  /\ worker' = [w \in Workers |-> Off] /\ left' = {}
  /\ lost' = lost \cup {worker[w].inc : w \in {x \in Workers : worker[x].stage = "executing"}}
  /\ UNCHANGED <<incident, decisions, both>>

IncidentsNext ==
  \/ \E a \in Alerts : Alert(a)
  \/ \E k \in left : CreateIncident(k)
  \/ CreateFails
  \/ \E r \in Requests :
       \/ SaveDecision(r) \/ SaveFails(r)
       \/ \E kind \in {"approve", "reject"}, i \in DOMAIN incident, a \in access :
            LoadIncident(r, kind, i, a)
  \/ \E w \in Workers : RunAction(w) \/ FinishExecution(w)

Restart == TokensRestart /\ IncidentsRestart

(* The human gate (58-60, 80-91, 99-139).  The actions of an incident whose  *)
(* playbook asks for approval are recorded only after an administrator has *)
(* approved it, once per approval at the most; and there is more than one  *)
(* decision only when two requests had both loaded it as pending - the     *)
(* second then wins over the first, be it a rejection of what has run.     *)
HumanGate ==
  \A i \in DOMAIN incident : \A k \in DOMAIN decisions[i] :
    LET d == decisions[i][k]
    IN /\ d.ran <= incident[i].playbook.actions
       /\ d.ran > 0 /\ incident[i].playbook.mode = "approval" => d.kind = "approve"
       /\ d.kind # "auto" => role[d.by] = "admin"
       /\ d.kind # "auto" /\ k < Len(decisions[i]) => i \in both

(* An approved incident is executed or fails, whatever its actions do and  *)
(* whoever else decides it - unless a restart or the database ends its     *)
(* execution (99-126): nothing takes it up again then, and it stays        *)
(* approved, so that a second approval is refused.                         *)
ApprovedEnds ==
  LET Approved(i) == i \in DOMAIN incident /\ incident[i].status = "approved"
  IN \A i \in 1..MaxIncidents : Approved(i) ~> (i \in lost \/ ~Approved(i))
==============================================================================
