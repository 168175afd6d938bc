--------------------- MODULE MCActuatorSafetySupervisor ---------------------
(* Any caller, any clock reading, any feedback, any driver failure.        *)
EXTENDS ActuatorSafetySupervisor

\* Two valid configurations.
MCValidSupervisorConfigs ==
    {[watchdogTimeoutMs |-> 1, maximumStarterActiveMs |-> 1,
      feedbackGraceMs |-> 0, requireFeedback |-> r] : r \in BOOLEAN}

\* The same and one the constructor refuses.
MCSupervisorConfigs ==
    MCValidSupervisorConfigs
    \cup
    {[watchdogTimeoutMs |-> 0, maximumStarterActiveMs |-> 1,
      feedbackGraceMs |-> 0, requireFeedback |-> TRUE]}
=============================================================================
