------------------------------ MODULE UserSettingsFile ------------------------------
(* The configuration file of the user: parseUserSettings() and                 *)
(* writeUserSettings(), and saveUserSettingsFile(), one call to the file       *)
(* system at a time, each of which may fail, with the process that may be      *)
(* killed between any two.  A file is the sequence of its lines, a line is the *)
(* setting it names, by its field or feature, and the value it gives.          *)
(*                                                                             *)
(*   target, backup, temporary  the three files, or Absent                     *)
(*   step       the next call of saveUserSettingsFile(), "idle" outside it     *)
(*   submitted  the settings that it was asked to save                         *)
(*   saved      what the last save to end returned                             *)
(*   kept       the file a save or the user last put in the target (history)   *)
(*   stranded   the last rename of a save was not made, nor undone (history)   *)
EXTENDS UserSettings, SequencesExt

CONSTANTS Answers,     \* fields and values: what the user answers to the configurator
          TypedLines,  \* the lines the user types in the file
          Truncations  \* bound: how many lines a partial write leaves

NoLine == [key |-> "none", value |-> "none"]
Absent == <<NoLine>>

VARIABLES target, backup, temporary, step, submitted, saved, kept, stranded
files == <<target, backup, temporary>>
fileVars == <<target, backup, temporary, step, submitted, saved, kept, stranded>>
-----------------------------------------------------------------------------
Line(key, value) == [key |-> key, value |-> value]
Minutes == "maximumRemoteRunTimeMs"
Seconds == "driverTakeoverTimeoutMs"
ByteKeys == {"lockPressCount"}
ShortKeys == DOMAIN TelemetryLimits
Keys == (DOMAIN DefaultSettings \ {"features"}) \cup Features
Bool(text) == text = "true"

\* applySetting(): the values a key accepts.  A number that does not parse is
\* negative here; one that does not fit 32 bits once scaled is refused.
KeyAccepts(key, value) ==
    CASE key \in Features \cup {"remoteStartEnabled"} -> value \in {"true", "false"}
      [] key = "hoodMonitoring" -> value \in {"required", "disabled", "optional"}
      [] key = "driverEntryMode" -> value \in {"require_takeover", "stop_immediately"}
      [] key = Minutes -> value \in 0..71582
      [] key = Seconds -> value \in 0..4294967
      [] key \in ByteKeys -> value \in 0..255
      [] key \in ShortKeys -> value \in 0..65535
      [] OTHER -> value >= 0
Meant(key, value) ==
    CASE key = "remoteStartEnabled" -> Bool(value)
      [] key = "hoodMonitoring" -> IF value = "required" THEN "Required" ELSE "Disabled"
      [] key = "driverEntryMode" -> IF value = "require_takeover" THEN "RequireTakeover"
                                    ELSE "StopImmediately"
      [] key = Minutes -> value * 60000
      [] key = Seconds -> value * 1000
      [] OTHER -> value

\* parseUserSettings(): the first line that is refused ends it; a key that is not
\* there keeps its default.
Given(lines, key) == {i \in DOMAIN lines : lines[i].key = key}
ParseRefuses(lines) ==
    \E i \in DOMAIN lines :
        \/ lines[i].key \notin Keys
        \/ \E j \in 1..(i - 1) : lines[j].key = lines[i].key
        \/ ~KeyAccepts(lines[i].key, lines[i].value)
Parsed(lines) ==
    [field \in DOMAIN DefaultSettings |->
        IF field = "features"
        THEN {f \in Features : \E i \in Given(lines, f) : Bool(lines[i].value)}
        ELSE IF Given(lines, field) = {} THEN DefaultSettings[field]
        ELSE LET i == CHOOSE i \in Given(lines, field) : TRUE
             IN Meant(field, lines[i].value)]

\* loadUserSettingsFile(), of a file that can be opened.
Loads(file) ==
    file # Absent /\ ~ParseRefuses(file) /\ SettingsAreValid(Parsed(file))

\* writeUserSettings(): the settings it refuses, and the lines it writes.
Representable(settings) ==
    /\ SettingsAreValid(settings)
    /\ settings[Minutes] % 60000 = 0
    /\ settings[Seconds] % 1000 = 0
Text(b) == IF b THEN "true" ELSE "false"
Written(s) ==
    LET Number(field) == Line(field, s[field])
        Feature(f) == Line(f, Text(f \in s.features))
    IN << Line("remoteStartEnabled", Text(s.remoteStartEnabled)),
          Line("hoodMonitoring",
               IF s.hoodMonitoring = "Required" THEN "required" ELSE "disabled"),
          Line(Minutes, s[Minutes] \div 60000),
          Line("driverEntryMode", IF s.driverEntryMode = "RequireTakeover"
                                  THEN "require_takeover" ELSE "stop_immediately"),
          Line(Seconds, s[Seconds] \div 1000),
          Number("lockPressCount"), Number("lockMinimumGapMs"),
          Number("lockMaximumGapMs"), Number("lockMaximumSequenceMs"),
          Number("coldEngineMaximumRpm"), Number("engineWarmTemperatureC"),
          Number("transmissionOverheatTemperatureC"),
          Number("temperatureAlertHysteresisC"),
          Feature("cold_engine"), Feature("dpf"), Feature("transmission") >>
-----------------------------------------------------------------------------
\* removeIfPresent() ignores its failure.
Removed(file) == {file, Absent}

Ends(result) ==
    /\ step' = "idle" /\ saved' = result
    /\ UNCHANGED <<target, backup, submitted, kept, stranded>>
GivesUp == Ends(FALSE) /\ temporary' \in Removed(temporary)
Goes(to) == step' = to /\ UNCHANGED <<submitted, saved, kept, stranded>>

BeginSave(settings) ==
    /\ step = "idle"
    /\ submitted' = settings
    /\ IF Representable(settings)
       THEN step' = "create" /\ UNCHANGED saved
       ELSE saved' = FALSE /\ UNCHANGED step
    /\ UNCHANGED <<target, backup, temporary, kept, stranded>>

\* A prompt of the configurator is asked again until its answer is acceptable,
\* the prompts of the gesture until the settings are valid; no answer keeps the
\* value.
PromptAccepts(field, value) ==
    CASE field \in DOMAIN Limits -> value \in Limits[field]
      [] field \in DOMAIN TelemetryLimits -> value \in TelemetryLimits[field]
      [] field = "features" -> value \subseteq Features
      [] field = "hoodMonitoring" -> value \in {"Required", "Disabled"}
      [] field = "driverEntryMode" -> value \in {"RequireTakeover", "StopImmediately"}
      [] OTHER -> value \in BOOLEAN
Configured(current, answers) ==
    [field \in DOMAIN current |->
        IF field \in DOMAIN answers THEN answers[field] ELSE current[field]]

\* runInteractive(), which starts from the file when there is one, and the
\* defaults that --write-defaults saves over any file.
Configure ==
    /\ target = Absent \/ Loads(target)
    /\ \E answers \in Answers :
          LET current == IF target = Absent THEN DefaultSettings ELSE Parsed(target)
          IN /\ \A field \in DOMAIN answers : PromptAccepts(field, answers[field])
             /\ SettingsAreValid(Configured(current, answers))
             /\ BeginSave(Configured(current, answers))
WriteDefaults == BeginSave(DefaultSettings)

CreateTemporary ==
    /\ step = "create"
    /\ \/ Goes("write") /\ temporary' = <<>> /\ UNCHANGED <<target, backup>>
       \/ Ends(FALSE) /\ UNCHANGED temporary

\* What the disk holds may be less than what the stream reported as written.
WriteTemporary ==
    /\ step = "write"
    /\ \/ /\ Goes("verify")
          /\ \E n \in Truncations \cup {Len(Written(submitted))} :
                temporary' = SubSeq(Written(submitted), 1, n)
          /\ UNCHANGED <<target, backup>>
       \/ GivesUp

\* Mutant: the file is read back, but not compared with what it should say.
VerifiedByReading == Loads(temporary)
Verified == Loads(temporary) /\ Parsed(temporary) = submitted
VerifyTemporary ==
    /\ step = "verify"
    /\ \/ Verified /\ Goes("inspect") /\ UNCHANGED files
       \/ GivesUp

InspectTarget ==
    /\ step = "inspect"
    /\ \/ /\ Goes(IF target = Absent THEN "install" ELSE "preserve")
          /\ UNCHANGED files
       \/ GivesUp

PreserveTarget ==
    /\ step = "preserve"
    /\ \/ Goes("replace") /\ backup' = target /\ target' = Absent /\ UNCHANGED temporary
       \/ /\ step' = "idle" /\ saved' = FALSE
          /\ backup' \in Removed(backup)
          /\ temporary' \in Removed(temporary)
          /\ UNCHANGED <<target, submitted, kept, stranded>>

\* The rename that installs the new file, after the old one was kept or not.
InstallsOver ==
    /\ step = "replace"
    /\ step' = "discard"
    /\ target' = temporary /\ temporary' = Absent
    /\ kept' = temporary /\ stranded' = FALSE
    /\ UNCHANGED <<backup, submitted, saved>>
InstallsNew ==
    /\ step = "install"
    /\ step' = "idle" /\ saved' = TRUE
    /\ target' = temporary /\ temporary' = Absent
    /\ kept' = temporary /\ stranded' = FALSE
    /\ UNCHANGED <<backup, submitted>>

\* The failure of the rename that puts the old file back is ignored.
NotInstalled ==
    /\ step \in {"replace", "install"}
    /\ step' = "idle" /\ saved' = FALSE
    /\ temporary' \in Removed(temporary)
    /\ \/ step = "replace" /\ target' = backup /\ backup' = Absent /\ UNCHANGED stranded
       \/ step = "replace" /\ stranded' = TRUE /\ UNCHANGED <<target, backup>>
       \/ step = "install" /\ UNCHANGED <<target, backup, stranded>>
    /\ UNCHANGED <<submitted, kept>>

DiscardBackup ==
    /\ step = "discard"
    /\ step' = "idle" /\ saved' = TRUE
    /\ backup' \in Removed(backup)
    /\ UNCHANGED <<target, temporary, submitted, kept, stranded>>

\* The process is killed; nothing runs when the next one starts.
Killed ==
    /\ step # "idle"
    /\ step' = "idle" /\ saved' = FALSE
    /\ stranded' = (stranded \/ step = "replace")
    /\ UNCHANGED <<target, backup, temporary, submitted, kept>>

\* The user edits the file: a value changed, a line added, a line taken out.
\* Bound: one edit of a file that a save wrote.
EditedFiles(lines) ==
    UNION {{[lines EXCEPT ![i] = line] : i \in Given(lines, line.key)} : line \in TypedLines}
    \cup {Append(lines, line) : line \in TypedLines}
    \cup {SelectSeq(lines, LAMBDA l : l.key # line.key) : line \in TypedLines}
UserEdits ==
    /\ step = "idle" /\ Loads(target) /\ target = Written(Parsed(target))
    /\ \E file \in EditedFiles(target) : target' = file /\ kept' = file
    /\ saved' = FALSE
    /\ UNCHANGED <<backup, temporary, step, submitted, stranded>>

FileInit ==
    /\ target \in {Absent, Written(DefaultSettings)} /\ kept = target
    /\ backup = Absent /\ temporary = Absent
    /\ step = "idle" /\ submitted = DefaultSettings /\ saved = FALSE /\ stranded = FALSE
FileNext ==
    \/ Configure \/ WriteDefaults
    \/ CreateTemporary \/ WriteTemporary \/ VerifyTemporary \/ InspectTarget
    \/ PreserveTarget \/ InstallsOver \/ InstallsNew \/ NotInstalled \/ DiscardBackup
    \/ Killed \/ UserEdits

FileSpec == FileInit /\ [][FileNext]_fileVars
-----------------------------------------------------------------------------
\* Whatever fails and wherever the process is killed, the last settings that were
\* accepted are readable under one of two names, and under their own one unless the
\* save stopped between its two renames and could not undo the first; a save that
\* reports success has put exactly the settings it was given in the file
\* (user_settings_file.cpp, saveUserSettingsFile).
LastSettingsSurvive ==
    /\ kept # Absent =>
          \/ target = kept
          \/ target = Absent /\ backup = kept /\ (step = "replace" \/ stranded)
    /\ saved /\ step = "idle" => Loads(target) /\ Parsed(target) = submitted

\* "En cas d'echec avant l'installation de la nouvelle version, [la configuration
\* existante] reste utilisable" (docs/configurator.md): between two commands the
\* file loads, if what was last put there did.  It is violated: a save that is
\* killed after its first rename, or cannot undo it, leaves the settings in a
\* file that no command reads.
FailureLeavesTheFileUsable ==
    step = "idle" /\ Loads(kept) => Loads(target)
=============================================================================
