------------------------------ MODULE SettingsStore ------------------------------
(* JournaledUserSettingsStore over EspIdfNvsSettingsStorage: a journal of two  *)
(* slots, kept as one NVS blob with an image of it in memory.  A save is cut   *)
(* into the calls between which power may be lost.                             *)
(*                                                                             *)
(*   flash      the blob in NVS: what survives a power cut                     *)
(*   committed  committed_: what read() returns                                *)
(*   pending    pending_: the image write() prepares and commit() stores       *)
(*   ready      ready_: begin() succeeded since power came up                  *)
(*   saving     the save() in progress and the call it has reached             *)
(*   answer     what the last load() or save() returned                        *)
(*                                                                             *)
(* A record is its settings and its generation; its magic, version, size and   *)
(* CRC are what tells a Blank slot (erased, torn or decayed) from a record.    *)
EXTENDS Integers

CONSTANTS Settings,       \* valid user settings
          InvalidSettings,\* settings validateUserSettings() refuses
          NoSettings,     \* load() returned false
          Blank,          \* a slot that decodeRecord() refuses
          Half            \* generations are compared modulo 2 * Half (2^32)

ASSUME HalfAssumption == Half \in Nat /\ Half > 2
ASSUME StoreConstantsAssumption ==
    /\ NoSettings \notin Settings \cup InvalidSettings
    /\ Settings \cap InvalidSettings = {}
    /\ Blank \notin [settings : Settings, generation : 0..(2 * Half - 1)]

VARIABLES flash, committed, pending, dirty, ready, saving, answer
storeVars == <<flash, committed, pending, dirty, ready, saving, answer>>
-----------------------------------------------------------------------------
Slots == {0, 1}
Generations == 0..(2 * Half - 1)
Records == [settings : Settings, generation : Generations]
Images == [Slots -> Records \cup {Blank}]

Other(slot) == 1 - slot
NextGeneration(g) == IF g = 2 * Half - 1 THEN 0 ELSE g + 1

\* candidate - reference on unsigned integers, read back as a signed one.
Distance(candidate, reference) ==
    IF candidate >= reference THEN candidate - reference
                              ELSE candidate - reference + 2 * Half
GenerationIsNewer(candidate, reference) ==
    Distance(candidate, reference) \in 1..(Half - 1)

Valid(image, slot) == image[slot] # Blank

\* The slot load() selects, when one of them is valid.
Selected(image) ==
    IF /\ Valid(image, 1)
       /\ Valid(image, 0) => GenerationIsNewer(image[1].generation,
                                               image[0].generation)
    THEN 1 ELSE 0

\* What load() finds in an image.
Loadable(image) ==
    IF \E slot \in Slots : Valid(image, slot)
    THEN image[Selected(image)].settings
    ELSE NoSettings

\* The slot save() overwrites: never the one load() selects.
\* Mutant: the slot the last load selected is written in place.
OverwriteSelected(image) == Selected(image)
Target(image) ==
    IF \E slot \in Slots : Valid(image, slot) THEN Other(Selected(image)) ELSE 0
\* Mutant: every record is written with the first generation.
FirstGeneration(image) == 1
Generation(image) ==
    IF \E slot \in Slots : Valid(image, slot)
    THEN NextGeneration(image[Selected(image)].generation)
    ELSE 1

BlankImage == [slot \in Slots |-> Blank]
Write(image, slot, record) == [image EXCEPT ![slot] = record]

Idle == [call |-> "idle", settings |-> NoSettings, slot |-> 0, generation |-> 0]

NoAnswer == [op |-> "none", settings |-> NoSettings]
Loaded(v) == [op |-> "loaded", settings |-> v]
Saved(s) == [op |-> "saved", settings |-> s]
SaveFailed == [op |-> "save_failed", settings |-> NoSettings]
-----------------------------------------------------------------------------
\* begin(): the image is read from NVS, or left erased when the key does not
\* exist yet.
Begin ==
    /\ ~ready
    /\ committed' = flash
    /\ pending' = flash
    /\ dirty' = FALSE
    /\ ready' = TRUE
    /\ UNCHANGED <<flash, saving, answer>>

\* load(): both slots are read from committed_; a read fails only before begin().
Load ==
    /\ saving = Idle
    /\ answer' = IF ready THEN Loaded(Loadable(committed)) ELSE Loaded(NoSettings)
    /\ UNCHANGED <<flash, committed, pending, dirty, ready, saving>>

\* save(): the settings are refused, or no slot can be read.
RefuseSave(s) ==
    /\ saving = Idle
    /\ s \in InvalidSettings \/ ~ready
    /\ answer' = SaveFailed
    /\ UNCHANGED <<flash, committed, pending, dirty, ready, saving>>

RecordOf(save) == [settings |-> save.settings, generation |-> save.generation]

\* save(): both slots are read, the target and the generation are chosen and
\* write() puts the record in pending_; commit() finds the image dirty.
StartSave(s) ==
    /\ saving = Idle /\ ready
    /\ saving' = [call |-> "set_blob", settings |-> s,
                  slot |-> Target(committed), generation |-> Generation(committed)]
    /\ pending' = Write(pending, saving'.slot, RecordOf(saving'))
    /\ dirty' = TRUE
    /\ UNCHANGED <<flash, committed, ready, answer>>

\* External: what NVS holds once it has begun to replace the blob, and until
\* nvs_commit() succeeds: the old image, the new one, or the slot being written
\* left unreadable.
InterruptedFlash == {flash, pending, Write(flash, saving.slot, Blank)}

\* commit(): nvs_set_blob() succeeds, nvs_commit() is next.
SetBlob ==
    /\ saving.call = "set_blob"
    /\ flash' \in InterruptedFlash
    /\ saving' = [saving EXCEPT !.call = "nvs_commit"]
    /\ UNCHANGED <<committed, pending, dirty, ready, answer>>

\* commit(): nvs_set_blob() or nvs_commit() fails and save() returns false.
FailCommit ==
    /\ saving.call \in {"set_blob", "nvs_commit"}
    /\ flash' \in InterruptedFlash
    /\ pending' = committed
    /\ dirty' = FALSE
    /\ answer' = SaveFailed
    /\ saving' = Idle
    /\ UNCHANGED <<committed, ready>>

\* commit(): nvs_commit() succeeds.
NvsCommit ==
    /\ saving.call = "nvs_commit"
    /\ flash' = pending
    /\ committed' = pending
    /\ dirty' = FALSE
    /\ saving' = [saving EXCEPT !.call = "verify"]
    /\ UNCHANGED <<pending, ready, answer>>

\* save(): the record just written is read back and compared.
Verify ==
    /\ saving.call = "verify"
    /\ answer' = IF committed[saving.slot] = RecordOf(saving)
                 THEN Saved(saving.settings) ELSE SaveFailed
    /\ saving' = Idle
    /\ UNCHANGED <<flash, committed, pending, dirty, ready>>

\* Power is lost, in the middle of a save or not; begin() runs at the next start,
\* and when it fails the device serves without its storage until then.
PowerCut ==
    /\ ready
    /\ ready' = FALSE
    /\ dirty' = FALSE
    /\ committed' = BlankImage
    /\ pending' = BlankImage
    /\ saving' = Idle
    /\ answer' = NoAnswer
    /\ UNCHANGED flash

\* External: a record decays and its CRC no longer matches.  A decay while the
\* image is in memory is only seen at the next begin(): it is taken then.
Decay(slot) ==
    /\ ~ready
    /\ Valid(flash, slot)
    /\ flash' = Write(flash, slot, Blank)
    /\ UNCHANGED <<committed, pending, dirty, ready, saving, answer>>
-----------------------------------------------------------------------------
Init ==
    /\ flash = BlankImage
    /\ committed = BlankImage
    /\ pending = BlankImage
    /\ dirty = FALSE
    /\ ready = FALSE
    /\ saving = Idle
    /\ answer = NoAnswer

Next ==
    \/ Begin \/ Load \/ SetBlob \/ FailCommit \/ NvsCommit \/ Verify \/ PowerCut
    \/ \E s \in Settings : StartSave(s)
    \/ \E s \in Settings \cup InvalidSettings : RefuseSave(s)
    \/ \E slot \in Slots : Decay(slot)

Spec == Init /\ [][Next]_storeVars
-----------------------------------------------------------------------------
\* Two valid records are always one generation apart, so that comparing them
\* across the wrap is never ambiguous (settings_storage.cpp, generationIsNewer),
\* whatever saves failed, were cut or decayed in between.
OneApart(image) ==
    (\A slot \in Slots : Valid(image, slot)) =>
        \/ image[1].generation = NextGeneration(image[0].generation)
        \/ image[0].generation = NextGeneration(image[1].generation)
GenerationsAreAdjacent ==
    OneApart(flash) /\ OneApart(committed) /\ OneApart(pending)

\* Whatever a save does to the flash before it is acknowledged, the record the
\* last load selected is still there, byte for byte
\* (docs/settings-persistence.md: the previous generation stays available until
\* the new one is validated).
SelectedRecordIsDurable ==
    ready /\ Loadable(committed) # NoSettings =>
        flash[Selected(committed)] = committed[Selected(committed)]

\* The register that this journal implements: what load() finds in the image in
\* memory, what it would find in either image once begin() has run again, and
\* what it would find there without one of the records.
current == Loadable(IF ready THEN committed ELSE flash)
held == {current, Loadable(flash)}
fallback == {Loadable(Write(flash, slot, Blank)) : slot \in Slots} \ held
asked == saving.settings
Register == INSTANCE SettingsRegister
\* The journal keeps the promise of the register.
ImplementsRegister == Register!RegisterSpec
=============================================================================
