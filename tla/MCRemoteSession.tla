-------------------------- MODULE MCRemoteSession ---------------------------
EXTENDS RemoteSession

CONSTANTS
    DriverEntryModes,   \* the driver entry modes a run starts from
    RequireFeedback     \* does the supervisor require electrical feedback

MCSupervisorConfigs ==
    {[watchdogTimeoutMs |-> 1, maximumStarterActiveMs |-> 1,
      feedbackGraceMs |-> 0, requireFeedback |-> RequireFeedback]}

\* One more, which the constructor rejects.
MCAnySupervisorConfigs ==
    MCSupervisorConfigs
        \cup {[c EXCEPT !.watchdogTimeoutMs = 0] : c \in MCSupervisorConfigs}

MCControllerConfigs ==
    {[safety |-> [minimumBatteryMillivolts |-> 11800, runningRpmThreshold |-> 500,
                  requireVehicleSecured |-> TRUE, requireHoodClosed |-> TRUE,
                  allowManualTransmission |-> FALSE],
      remoteStartEnabled |-> e, profileReady |-> p, driverEntryMode |-> m] :
        e, p \in BOOLEAN, m \in DriverEntryModes}

\* One vehicle that may be started.
MCStartingConfigs ==
    {c \in MCControllerConfigs : c.remoteStartEnabled /\ c.profileReady}

Stopped == [fresh |-> Signals, batteryMillivolts |-> 12500, engineRpm |-> 0,
            hoodClosed |-> TRUE, doorsClosed |-> TRUE, trunkClosed |-> TRUE,
            brakePressed |-> FALSE, parkingBrakeApplied |-> TRUE,
            transmission |-> "Automatic", gear |-> "Park",
            criticalFaultPresent |-> FALSE]

Turning == [Stopped EXCEPT !.engineRpm = 700]

\* Engine stopped or turning; each also with a door open, with a critical fault
\* and without rpm.
MCSnapshots ==
    {Stopped, Turning,
     [Turning EXCEPT !.doorsClosed = FALSE],
     [Turning EXCEPT !.criticalFaultPresent = TRUE],
     [Stopped EXCEPT !.criticalFaultPresent = TRUE],
     [Stopped EXCEPT !.fresh = Signals \ {"engineRpm"}]}

\* An engine that still turns below runningRpmThreshold.
MCSlowSnapshots == {[Stopped EXCEPT !.engineRpm = 300]}

\* Enough to start, run, hand over, stop and be refused: the door that opens while
\* the engine turns leads to the takeover.
MCFewSnapshots ==
    {Stopped, Turning, [Turning EXCEPT !.doorsClosed = FALSE],
     [Stopped EXCEPT !.criticalFaultPresent = TRUE]}
=============================================================================
