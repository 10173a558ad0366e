-------------------------- MODULE RecoveryContract --------------------------
(***************************************************************************)
(* What owner-connected recovery promises about one command, without       *)
(* tables, messages or a journal: the restart is ordered once, after the   *)
(* owner approved it; it is done at most once, possibly after the server   *)
(* has given the order up as lost; and an outcome is reported only of a    *)
(* restart that was done.                                                  *)
(***************************************************************************)
EXTENDS Naturals

VARIABLES
  stage,     \* how far the command has come
  restarts   \* how often the service was restarted for it

Before == {"requested", "approved"}
Over == {"reported", "closed", "lost"}

Init == stage = "new" /\ restarts = 0

Request == stage = "new" /\ stage' = "requested" /\ UNCHANGED restarts

Approve == stage = "requested" /\ stage' = "approved" /\ UNCHANGED restarts

Close == stage \in Before /\ stage' = "closed" /\ UNCHANGED restarts

Order == stage = "approved" /\ stage' = "ordered" /\ UNCHANGED restarts

Restart ==
  /\ stage \in {"ordered", "lost"} /\ restarts = 0
  /\ restarts' = 1 /\ UNCHANGED stage

Report ==
  /\ stage = "ordered" /\ restarts = 1
  /\ stage' = "reported" /\ UNCHANGED restarts

GiveUp == stage = "ordered" /\ stage' = "lost" /\ UNCHANGED restarts

\* The record of a finished command is kept for a while only.
Forget == stage \in Over /\ stage' = "forgotten" /\ UNCHANGED restarts

Next ==
  Request \/ Approve \/ Close \/ Order \/ Restart \/ Report \/ GiveUp \/ Forget

Spec == Init /\ [][Next]_<<stage, restarts>>
=============================================================================
