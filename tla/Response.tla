------------------------------- MODULE Response -------------------------------
(***************************************************************************)
(* Who may respond to what: accounts and tokens, the incidents they        *)
(* decide, and the pseudo-locks the agent applies by itself.  Tokens and   *)
(* incidents are one process of the backend, which restarts as a whole.    *)
(* The locks share nothing with them.  A behaviour shows one of the three; *)
(* that of the incidents begins when everybody is signed in.               *)
(***************************************************************************)
EXTENDS SoarIncidents, PseudoLocks

CONSTANTS
  Admin,  \* of the accounts, the first
  Parts   \* those that are to be shown

ASSUME ResponseAssumption ==
  /\ Parts \subseteq {"tokens", "incidents", "locks"}
  /\ IsFiniteSet(Accounts) /\ Admin \in Accounts

VARIABLE shows

accessVars == <<tokenVars, incidentVars>>
vars == <<shows, accessVars, lockVars>>

\* Everybody has registered, one after the other, at second 0.
SignedIn ==
  LET Role(u) == IF u = Admin THEN "admin" ELSE "analyst"
  IN /\ role = [u \in Accounts |-> Role(u)]
     /\ registering = <<>> /\ refresh = <<>> /\ spent = <<>>
     /\ second = 0 /\ access = {Token(u, Role(u)) : u \in Accounts}
     /\ revoked = {} /\ rotating = [r \in Requests |-> 0]
     /\ excused = {} /\ companions = {}

Init ==
  /\ shows \in Parts
  /\ IF shows = "incidents" THEN SignedIn ELSE TokensInit
  /\ IncidentsInit /\ LocksInit

TokensMove ==
  /\ shows = "tokens"
  /\ TokensNext
  /\ UNCHANGED <<shows, incidentVars, lockVars>>

LogsOut ==
  /\ shows = "incidents"
  /\ \E a \in access : Logout(a, 0)
  /\ UNCHANGED <<shows, incidentVars, lockVars>>

Serves(A) ==
  shows = "incidents" /\ A /\ UNCHANGED <<shows, tokenVars, lockVars>>

Restarts ==
  /\ shows \in {"tokens", "incidents"} /\ Restart
  /\ UNCHANGED <<shows, lockVars>>

LocksMove == shows = "locks" /\ LocksNext /\ UNCHANGED <<shows, accessVars>>

Next == TokensMove \/ LogsOut \/ Serves(IncidentsNext) \/ Restarts \/ LocksMove

(* A handler that is running comes to its end: what it awaits answers or   *)
(* fails.  Nobody has to ask, and nothing has to happen to the tokens.     *)
Fairness ==
  \A w \in Workers :
    /\ WF_vars(Serves(RunAction(w)))
    /\ WF_vars(Serves(FinishExecution(w)))

Spec == Init /\ [][Next]_vars /\ Fairness
===============================================================================
