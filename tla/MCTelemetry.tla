---------------------------- MODULE MCTelemetry ----------------------------
EXTENDS Telemetry

\* SandboxSession::rebuildTelemetryMonitor().
MCRuntime == [target |-> "simulation", implemented |-> Features,
              capabilities |-> {"vehicle_state_read"}, signalsQualified |-> TRUE]
MCReadings == [rpm |-> {0, 2200, 2201}, coolant |-> {20, 75}, oil |-> {20, 75},
               transmission |-> {20, 104, 105, 109, 110}, dpf |-> BOOLEAN]
=============================================================================
