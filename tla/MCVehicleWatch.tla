--------------------------- MODULE MCVehicleWatch ---------------------------
EXTENDS VehicleWatch

\* Every combination of the switches of the policy, with its default limits.
MCPolicyConfigs ==
    {[minimumBatteryMillivolts |-> 11800, runningRpmThreshold |-> 500,
      requireVehicleSecured |-> s, requireHoodClosed |-> h,
      allowManualTransmission |-> m] : s, h, m \in BOOLEAN}
=============================================================================
