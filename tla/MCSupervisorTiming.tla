------------------------- MODULE MCSupervisorTiming -------------------------
EXTENDS SupervisorTiming

\* A watchdog of one service period, a longer starter limit, feedback required
\* one unit after a change: the shortest durations that keep the three limits
\* apart and stay below the clock range.
MCSupervisorConfigs ==
    {[watchdogTimeoutMs |-> 1, maximumStarterActiveMs |-> 2,
      feedbackGraceMs |-> 1, requireFeedback |-> TRUE]}
=============================================================================
