---------------------------- MODULE RestartLedger ----------------------------
(***************************************************************************)
(* What an update of the app promises about the projects that run          *)
(* (ADR-030, ADR-072): what the update stops it owes a restart, through     *)
(* failures and crashes, until the project runs again or nobody wants it.  *)
(*                                                                         *)
(* "running", "stopped" by somebody else than the update, "owed" by the    *)
(* update, or "lost": stopped by the update, and no record of it.  A       *)
(* project is lost to the record of another update, or to an update that   *)
(* was misled: it could not read what it had to know, or another wrote or  *)
(* stopped beside it.                                                      *)
(***************************************************************************)
CONSTANT Projects

VARIABLES
  place,      \* where each project is
  wanted,     \* projects a restart would not turn away
  recording,  \* an update of the app is under way
  misled      \* an update works from a state that is not the true one

Place == {"running", "stopped", "owed", "lost"}

Init == place \in [Projects -> {"running", "stopped"}]

(* The moves of a project: it starts, it is stopped, it is owed, the debt  *)
(* lapses, or the record of it is overwritten.                             *)
Started(p) == place'[p] = "running"
Stopped(p) == place[p] = "running" /\ place'[p] \in {"stopped", "owed"}
Lapsed(p) == place[p] \in {"owed", "lost"} /\ place'[p] = "stopped" /\ p \notin wanted \cap wanted'
Overwritten(p) == place[p] = "owed" /\ place'[p] = "lost" /\ ~recording /\ recording'

(* A misled update may lose or drop a project that it ought to restart, or *)
(* find one again; it makes no debt of what it has not stopped.            *)
Mistaken(p) == misled /\ place[p] # "stopped"

(* Who wants what, records or is misled is not for the ledger to say.      *)
Next ==
  /\ place' \in [Projects -> Place]
  /\ \A p \in Projects :
       place'[p] # place[p] => Started(p) \/ Stopped(p) \/ Lapsed(p) \/ Overwritten(p) \/ Mistaken(p)

Spec == Init /\ [][Next]_place
=============================================================================
