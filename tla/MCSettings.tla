----------------------------- MODULE MCSettings -----------------------------
(* The settings on their way from the file of the user to the flash of the     *)
(* device, and what is made of them: five parts that share no variable,        *)
(* explored one at a time.                                                     *)
EXTENDS SettingsStore, SettingsLink, SettingsStream, UserSettingsFile, ConfigurationWatch

VARIABLE part

NewLine(k, v) == [key |-> k, value |-> v]
UserAnswers == {[lockPressCount |-> 4, features |-> {"dpf"}],
                [lockPressCount |-> 9], [lockMaximumGapMs |-> 4000]}
UserLines == {NewLine("lockPressCount", 256),
              NewLine("lockPressCount", 2), NewLine("unknown", 0)}

EditedValues ==
    [hoodMonitoring |-> {"Required", "Disabled", "unknown"},
     driverEntryMode |-> {"RequireTakeover", "StopImmediately", "unknown"},
     remoteStartEnabled |-> BOOLEAN,
     maximumRemoteRunTimeMs |-> {59999, 900000, 3600000},
     lockPressCount |-> {0, 3, 5}, lockMinimumGapMs |-> {49, 80, 1500},
     lockMaximumGapMs |-> {50, 1500, 5000},
     lockMaximumSequenceMs |-> {499, 3000, 15000},
     features |-> {{}, {"dpf"}, {"dpf", "stray"}},
     engineWarmTemperatureC |-> {75, 65536 - 40},
     transmissionOverheatTemperatureC |-> {80, 110, 65535},
     temperatureAlertHysteresisC |-> {0, 5, 20, 256 + 5}]

settingsVars == <<part, storeVars, linkVars, streamVars, fileVars, configurationVars>>

SettingsInit ==
    /\ part \in {"store", "link", "stream", "file", "configuration"}
    /\ Init /\ LinkInit /\ StreamInit /\ FileInit /\ ConfigurationInit
    /\ part = "file" \/ target = Absent

InStore ==
    /\ part = "store"
    /\ UNCHANGED <<part, linkVars, streamVars, fileVars, configurationVars>>
InLink ==
    /\ part = "link"
    /\ UNCHANGED <<part, storeVars, streamVars, fileVars, configurationVars>>
InStream ==
    /\ part = "stream"
    /\ UNCHANGED <<part, storeVars, linkVars, fileVars, configurationVars>>
InFile ==
    /\ part = "file"
    /\ UNCHANGED <<part, storeVars, linkVars, streamVars, configurationVars>>
InConfiguration ==
    /\ part = "configuration"
    /\ UNCHANGED <<part, storeVars, linkVars, streamVars, fileVars>>

SettingsNext ==
    \/ InStore /\ Begin
    \/ InStore /\ Load
    \/ InStore /\ \E s \in Settings : StartSave(s)
    \/ InStore /\ \E s \in Settings \cup InvalidSettings : RefuseSave(s)
    \/ InStore /\ SetBlob
    \/ InStore /\ FailCommit
    \/ InStore /\ NvsCommit
    \/ InStore /\ Verify
    \/ InStore /\ PowerCut
    \/ InStore /\ \E slot \in Slots : Decay(slot)
    \/ InLink /\ StartRead
    \/ InLink /\ \E s \in LinkSettings : StartWriteAndVerify(s)
    \/ InLink /\ Reject
    \/ InLink /\ Proceed
    \/ InLink /\ Finish
    \/ InLink /\ GiveUp
    \/ InLink /\ ClientRestarts
    \/ InLink /\ \E access \in Access : HandleWithoutSave(access)
    \/ InLink /\ \E access \in Access : HandleSave(access)
    \/ InLink /\ DeviceRestarts
    \/ InLink /\ LoseRequest
    \/ InLink /\ LoseResponse
    \/ InLink /\ GarbleResponse
    \/ InStream /\ \E byte \in AllBytes : Noise(byte)
    \/ InStream /\ \E frame \in Frames : StartFrame(frame)
    \/ InStream /\ ContinueFrame
    \/ InStream /\ Poll
    \/ InStream /\ Tick
    \/ InFile /\ Configure
    \/ InFile /\ WriteDefaults
    \/ InFile /\ CreateTemporary
    \/ InFile /\ WriteTemporary
    \/ InFile /\ VerifyTemporary
    \/ InFile /\ InspectTarget
    \/ InFile /\ PreserveTarget
    \/ InFile /\ InstallsOver
    \/ InFile /\ InstallsNew
    \/ InFile /\ NotInstalled
    \/ InFile /\ DiscardBackup
    \/ InFile /\ Killed
    \/ InFile /\ UserEdits
    \/ InConfiguration /\ SettingChanges
    \/ InConfiguration /\ SupportChanges
    \/ InConfiguration /\ ProfileChanges

SettingsSpec == SettingsInit /\ [][SettingsNext]_settingsVars
=============================================================================
