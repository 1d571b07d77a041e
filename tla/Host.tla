-------------------------------- MODULE Host --------------------------------
(***************************************************************************)
(* The control plane's host: the API process and the scheduled reclamation *)
(* containers next to it, which share nothing but the clock.               *)
(***************************************************************************)
EXTENDS ControlPlane, MaintenanceLock

vars == <<apiVars, lockVars>>

Init ==
  /\ ApiInit /\ LockInit
  /\ scheduled = traffic.scheduled

\* Time matters to a mix that is timed, or to a schedule.
Tick ==
  /\ traffic.timed \/ scheduled
  /\ ApiTick /\ LockTick

Next ==
  \/ ApiNext /\ UNCHANGED lockVars
  \/ LockNext /\ UNCHANGED apiVars
  \/ Tick

\* The scheduler starts a container again and again, a container that is not killed
\* makes its next call, and time passes.
Fairness ==
  /\ WF_vars(Tick)
  /\ \A p \in Runs : WF_vars(Launch(p) /\ UNCHANGED apiVars) /\ WF_vars(Step(p) /\ UNCHANGED apiVars)

Spec == Init /\ [][Next]_vars /\ Fairness

---------------------------------------------------------------------------
\* Properties

\* Everything on the host is of its type; the limiter's table keeps to its cap.
HostTypeOK == ApiTypeOK /\ LockTypeOK
=============================================================================
