-------------------------- MODULE MCAcceptanceWait --------------------------
(***************************************************************************)
(* The statuses of the two chains, as the loops of RPCWorkFlowRunner tell  *)
(* them apart.                                                             *)
(***************************************************************************)
EXTENDS StakingStart

XPending == {"Unknown", "Processing"}
XAccepted == {"Accepted"}
XAbandoned == {"Rejected"}

PPending == {"Unknown", "Processing"}
PAccepted == {"Committed"}
PAbandoned == {"Aborted", "Dropped"}
=============================================================================
