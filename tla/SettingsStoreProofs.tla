-------------------------- MODULE SettingsStoreProofs --------------------------
(* The journal of SettingsStore keeps the promise of SettingsRegister, for     *)
(* every set of settings and every width of the generation counter.            *)
(*                                                                             *)
(* The inductive invariant says what survives of an image at every call of a   *)
(* save: outside the slot being written the flash is the image in memory, and  *)
(* in that slot there is at worst a torn record or one of the next generation. *)
EXTENDS SettingsStore, TLAPS

Calls == {"set_blob", "nvs_commit", "verify"}
Saves == [call : Calls, settings : Settings, slot : Slots, generation : Generations]

\* Type invariant.
StoreTypeOK ==
    /\ flash \in Images
    /\ committed \in Images
    /\ pending \in Images
    /\ dirty \in BOOLEAN
    /\ ready \in BOOLEAN
    /\ saving \in Saves \cup {Idle}

\* Before begin() there is no image in memory and no save.
AsleepIsEmpty ==
    ~ready => saving = Idle /\ committed = BlankImage

\* The flash and the image in memory differ in the target of the next save at
\* most, by a torn record or by one of the next generation.
FlashAgrees ==
    ready =>
        /\ flash[Other(Target(committed))] = committed[Other(Target(committed))]
        /\ \/ flash[Target(committed)] \in {committed[Target(committed)], Blank}
           \/ flash[Target(committed)].generation = Generation(committed)

\* The image to store is the one in memory, with the record of the save.
PendingIsNext ==
    IF saving.call \in {"set_blob", "nvs_commit"}
    THEN /\ saving.slot = Target(committed)
         /\ saving.generation = Generation(committed)
         /\ pending = Write(committed, saving.slot, RecordOf(saving))
    ELSE pending = committed

\* Once stored, the record of the save is the one a load selects.
StoredIsCurrent ==
    saving.call = "verify" =>
        /\ flash = committed
        /\ committed[saving.slot] = RecordOf(saving)
        /\ Loadable(committed) = saving.settings

\* The inductive invariant.
StoreInv ==
    /\ StoreTypeOK
    /\ AsleepIsEmpty
    /\ FlashAgrees
    /\ PendingIsNext
    /\ StoredIsCurrent
    /\ OneApart(flash)
    /\ OneApart(committed)
-----------------------------------------------------------------------------
\* There are two slots, each the other of the other.
LEMMA TwoSlots ==
    ASSUME NEW slot \in Slots
    PROVE  /\ Other(slot) \in Slots
           /\ Other(slot) # slot
           /\ Other(Other(slot)) = slot
           /\ \A any \in Slots : any = slot \/ any = Other(slot)
BY DEF Slots, Other

\* Writing a slot of an image gives an image that differs there only.
LEMMA WriteInSlot ==
    ASSUME NEW image \in Images, NEW slot \in Slots,
           NEW record \in Records \cup {Blank}
    PROVE  /\ Write(image, slot, record) \in Images
           /\ Write(image, slot, record)[slot] = record
           /\ Write(image, slot, record)[Other(slot)] = image[Other(slot)]
BY TwoSlots DEF Write, Images

\* A record is not a blank slot.
LEMMA RecordsAreValid ==
    ASSUME NEW record \in Records
    PROVE  record # Blank
BY StoreConstantsAssumption DEF Records, Generations

\* The next generation is a generation, one step newer than this one, and this
\* one is not newer than it (generationIsNewer() across the wrap).
LEMMA NextIsNewer ==
    ASSUME NEW g \in Generations
    PROVE  /\ NextGeneration(g) \in Generations
           /\ GenerationIsNewer(NextGeneration(g), g)
           /\ ~GenerationIsNewer(g, NextGeneration(g))
BY HalfAssumption DEF Generations, NextGeneration, GenerationIsNewer, Distance

\* The selected slot holds a record when one of the slots does.
LEMMA SelectedIsValid ==
    ASSUME NEW image \in Images
    PROVE  /\ Selected(image) \in Slots
           /\ (\E slot \in Slots : Valid(image, slot)) => Valid(image, Selected(image))
BY DEF Selected, Slots, Valid

\* The target is not the selected slot, and outside it there is no record only
\* when the image holds none.
LEMMA TargetIsNotSelected ==
    ASSUME NEW image \in Images
    PROVE  /\ Target(image) \in Slots
           /\ Generation(image) \in Generations
           /\ Valid(image, Other(Target(image))) =>
                /\ Selected(image) = Other(Target(image))
                /\ Generation(image) =
                     NextGeneration(image[Other(Target(image))].generation)
           /\ ~Valid(image, Other(Target(image))) =>
                \A slot \in Slots : ~Valid(image, slot)
<1>1. CASE \E slot \in Slots : Valid(image, slot)
  <2>1. /\ Selected(image) \in Slots
        /\ Valid(image, Selected(image))
    BY <1>1, SelectedIsValid
  <2>2. /\ Target(image) = Other(Selected(image))
        /\ Generation(image) = NextGeneration(image[Selected(image)].generation)
    BY <1>1 DEF Target, Generation
  <2>3. image[Selected(image)] \in Records
    BY <2>1 DEF Images, Valid
  <2>4. Generation(image) \in Generations
    BY <2>2, <2>3, NextIsNewer DEF Records
  <2> QED
    BY <2>1, <2>2, <2>4, TwoSlots
<1>2. CASE ~\E slot \in Slots : Valid(image, slot)
  <2>1. Target(image) = 0 /\ Generation(image) = 1
    BY <1>2 DEF Target, Generation
  <2> QED
    BY <1>2, <2>1, HalfAssumption DEF Slots, Other, Generations
<1> QED
  BY <1>1, <1>2

\* With a slot left blank, a load finds the other one.
LEMMA LoadBesideBlank ==
    ASSUME NEW image \in Images, NEW slot \in Slots, image[slot] = Blank
    PROVE  Loadable(image) = IF Valid(image, Other(slot))
                             THEN image[Other(slot)].settings
                             ELSE NoSettings
BY DEF Loadable, Selected, Valid, Slots, Other

\* A record one generation after the other slot is the one a load finds.
LEMMA NewestIsLoaded ==
    ASSUME NEW image \in Images, NEW slot \in Slots, Valid(image, slot),
           Valid(image, Other(slot)) =>
               image[slot].generation = NextGeneration(image[Other(slot)].generation)
    PROVE  Loadable(image) = image[slot].settings
<1>1. Selected(image) = slot
  <2>1. CASE ~Valid(image, Other(slot))
    BY <2>1 DEF Selected, Slots, Other
  <2>2. CASE Valid(image, Other(slot))
    <3>1. image[Other(slot)].generation \in Generations
      BY <2>2, TwoSlots DEF Valid, Images, Records
    <3>2. /\ GenerationIsNewer(image[slot].generation, image[Other(slot)].generation)
          /\ ~GenerationIsNewer(image[Other(slot)].generation, image[slot].generation)
      BY <2>2, <3>1, NextIsNewer
    <3>3. CASE slot = 1
      BY <3>2, <3>3 DEF Selected, Other
    <3>4. CASE slot = 0
      BY <2>2, <3>2, <3>4 DEF Selected, Other
    <3> QED
      BY <3>3, <3>4 DEF Slots
  <2> QED
    BY <2>1, <2>2
<1> QED
  BY <1>1 DEF Loadable

\* What a load finds is what the slot outside the target holds.
LEMMA LoadOutsideTarget ==
    ASSUME NEW image \in Images
    PROVE  Loadable(image) = IF Valid(image, Other(Target(image)))
                             THEN image[Other(Target(image))].settings
                             ELSE NoSettings
BY TargetIsNotSelected, TwoSlots DEF Loadable

\* A blank slot leaves nothing to compare.
LEMMA BlankIsApart ==
    ASSUME NEW image \in Images, NEW slot \in Slots, image[slot] = Blank
    PROVE  OneApart(image)
BY DEF OneApart, Valid

\* An image that agrees with another outside its target, and holds the next
\* generation in it, is one generation apart, and a load finds that record.
LEMMA NextRecord ==
    ASSUME NEW image \in Images, NEW next \in Images,
           next[Other(Target(image))] = image[Other(Target(image))],
           Valid(next, Target(image)),
           next[Target(image)].generation = Generation(image)
    PROVE  /\ OneApart(next)
           /\ Loadable(next) = next[Target(image)].settings
<1> DEFINE t == Target(image)
<1>1. t \in Slots
  BY TargetIsNotSelected
<1>2. Valid(next, Other(t)) =>
         next[t].generation = NextGeneration(next[Other(t)].generation)
  BY TargetIsNotSelected DEF Valid
<1>3. OneApart(next)
  BY <1>1, <1>2 DEF OneApart, Slots, Other
<1>4. Loadable(next) = next[t].settings
  BY <1>1, <1>2, NewestIsLoaded
<1> QED
  BY <1>3, <1>4
-----------------------------------------------------------------------------
\* The record of a save, and where it goes.
LEMMA SavedRecord ==
    ASSUME StoreInv, saving.call \in {"set_blob", "nvs_commit"}
    PROVE  /\ saving \in Saves
           /\ ready
           /\ RecordOf(saving) \in Records
           /\ saving.slot = Target(committed)
           /\ pending \in Images
           /\ pending[Target(committed)] = RecordOf(saving)
           /\ pending[Other(Target(committed))] = committed[Other(Target(committed))]
           /\ OneApart(pending)
           /\ Loadable(pending) = saving.settings
<1>1. saving \in Saves /\ saving # Idle
  BY DEF StoreInv, StoreTypeOK, Idle
<1>2. ready
  BY <1>1 DEF StoreInv, AsleepIsEmpty
<1>3. RecordOf(saving) \in Records
  BY <1>1 DEF Saves, RecordOf, Records
<1>4. /\ saving.slot = Target(committed)
      /\ saving.generation = Generation(committed)
      /\ pending = Write(committed, saving.slot, RecordOf(saving))
  BY DEF StoreInv, PendingIsNext
<1>5. committed \in Images /\ pending \in Images
  BY DEF StoreInv, StoreTypeOK
<1>6. /\ pending[Target(committed)] = RecordOf(saving)
      /\ pending[Other(Target(committed))] = committed[Other(Target(committed))]
  <2>1. Target(committed) \in Slots
    BY <1>5, TargetIsNotSelected
  <2>2. pending = Write(committed, Target(committed), RecordOf(saving))
    BY <1>4
  <2> QED
    BY <1>3, <1>5, <2>1, <2>2, WriteInSlot
<1>7. /\ Valid(pending, Target(committed))
      /\ pending[Target(committed)].generation = Generation(committed)
      /\ pending[Target(committed)].settings = saving.settings
  BY <1>3, <1>4, <1>6, RecordsAreValid DEF Valid, RecordOf
<1> QED
  BY <1>1, <1>2, <1>3, <1>4, <1>5, <1>6, <1>7, NextRecord

\* Whatever commit() leaves in the flash, it agrees with the image in memory
\* outside the slot being written.
LEMMA InterruptedAgrees ==
    ASSUME StoreInv, saving.call \in {"set_blob", "nvs_commit"},
           NEW image \in InterruptedFlash
    PROVE  /\ image \in Images
           /\ image[Other(Target(committed))] = committed[Other(Target(committed))]
           /\ \/ image[Target(committed)] \in {committed[Target(committed)], Blank}
              \/ image[Target(committed)].generation = Generation(committed)
           /\ OneApart(image)
<1>1. /\ flash \in Images /\ committed \in Images
      /\ Target(committed) \in Slots
  BY TargetIsNotSelected DEF StoreInv, StoreTypeOK
<1>2. /\ ready /\ saving.slot = Target(committed)
  BY SavedRecord
<1>3. CASE image = flash
  BY <1>1, <1>2, <1>3 DEF StoreInv, FlashAgrees
<1>4. CASE image = pending
  <2>1. pending[Target(committed)].generation = Generation(committed)
    BY SavedRecord DEF RecordOf, StoreInv, PendingIsNext
  <2> QED
    BY <1>4, <2>1, SavedRecord
<1>5. CASE image = Write(flash, saving.slot, Blank)
  <2>1. /\ image \in Images
        /\ image[Target(committed)] = Blank
        /\ image[Other(Target(committed))] = flash[Other(Target(committed))]
    BY <1>1, <1>2, <1>5, WriteInSlot
  <2>2. OneApart(image)
    BY <1>1, <2>1, BlankIsApart
  <2> QED
    BY <1>2, <2>1, <2>2 DEF StoreInv, FlashAgrees
<1> QED
  BY <1>3, <1>4, <1>5 DEF InterruptedFlash

\* The blank image is an image.
LEMMA BlankImageIsImage ==
    BlankImage \in Images /\ OneApart(BlankImage)
BY DEF BlankImage, Images, OneApart, Valid, Slots

\* The initial states satisfy the invariant.
LEMMA StoreInvInit ==
    Init => StoreInv
<1> SUFFICES ASSUME Init PROVE StoreInv
  OBVIOUS
<1>1. StoreTypeOK /\ OneApart(flash) /\ OneApart(committed)
  BY BlankImageIsImage DEF Init, StoreTypeOK
<1> QED
  BY <1>1 DEF Init, StoreInv, AsleepIsEmpty, FlashAgrees, PendingIsNext,
              StoredIsCurrent, Idle

\* Every step preserves the invariant.
LEMMA StoreInvStep ==
    StoreInv /\ [Next]_storeVars => StoreInv'
<1> SUFFICES ASSUME StoreInv, [Next]_storeVars PROVE StoreInv'
  OBVIOUS
<1> USE DEF StoreInv
<1>0. /\ flash \in Images /\ committed \in Images /\ pending \in Images
      /\ Target(committed) \in Slots
  BY TargetIsNotSelected DEF StoreTypeOK
<1>1. CASE Begin
  <2>1. saving = Idle
    BY <1>1 DEF Begin, AsleepIsEmpty
  <2> QED
    BY <1>0, <1>1, <2>1 DEF Begin, StoreTypeOK, AsleepIsEmpty, FlashAgrees,
         PendingIsNext, StoredIsCurrent, Idle, OneApart, Valid, Target, Other,
         Selected
<1>2. CASE Load
  BY <1>2 DEF Load, StoreTypeOK, AsleepIsEmpty, FlashAgrees, PendingIsNext,
       StoredIsCurrent, RecordOf
<1>3. ASSUME NEW s \in Settings \cup InvalidSettings, RefuseSave(s)
      PROVE  StoreInv'
  BY <1>3 DEF RefuseSave, StoreTypeOK, AsleepIsEmpty, FlashAgrees, PendingIsNext,
       StoredIsCurrent, RecordOf
<1>4. ASSUME NEW s \in Settings, StartSave(s)
      PROVE  StoreInv'
  <2>1. /\ saving' \in Saves /\ saving'.call = "set_blob"
        /\ saving'.slot = Target(committed)
        /\ saving'.generation = Generation(committed)
    BY <1>0, <1>4, TargetIsNotSelected DEF StartSave, Saves, Calls
  <2>2. pending = committed
    BY <1>4 DEF StartSave, PendingIsNext, Idle
  <2>3. RecordOf(saving') \in Records
    BY <2>1 DEF Saves, RecordOf, Records
  <2>4. pending' \in Images
    BY <1>0, <1>4, <2>1, <2>3, WriteInSlot DEF StartSave
  <2>5. PendingIsNext'
    BY <1>4, <2>1, <2>2 DEF StartSave, PendingIsNext, RecordOf
  <2> QED
    BY <1>4, <2>1, <2>4, <2>5 DEF StartSave, StoreTypeOK, AsleepIsEmpty,
         FlashAgrees, StoredIsCurrent
<1>5. CASE SetBlob
  <2>1. /\ flash' \in Images /\ OneApart(flash')
        /\ FlashAgrees'
    BY <1>5, InterruptedAgrees DEF SetBlob, FlashAgrees
  <2>2. /\ saving \in Saves /\ ready
    BY <1>5, SavedRecord DEF SetBlob
  <2>3. /\ saving' \in Saves /\ saving'.call = "nvs_commit"
        /\ saving'.slot = saving.slot /\ saving'.generation = saving.generation
        /\ saving'.settings = saving.settings
    BY <1>5, <2>2 DEF SetBlob, Saves, Calls
  <2>4. PendingIsNext'
    BY <1>5, <2>3 DEF SetBlob, PendingIsNext, RecordOf
  <2> QED
    BY <1>5, <2>1, <2>2, <2>3, <2>4 DEF SetBlob, StoreTypeOK, AsleepIsEmpty,
         StoredIsCurrent
<1>6. CASE FailCommit
  <2>1. /\ flash' \in Images /\ OneApart(flash')
        /\ FlashAgrees'
    BY <1>6, InterruptedAgrees DEF FailCommit, FlashAgrees
  <2>2. ready
    BY <1>6, SavedRecord DEF FailCommit
  <2> QED
    BY <1>0, <1>6, <2>1, <2>2 DEF FailCommit, StoreTypeOK, AsleepIsEmpty,
         PendingIsNext, StoredIsCurrent, Idle
<1>7. CASE NvsCommit
  <2>1. /\ saving \in Saves /\ ready
        /\ pending[saving.slot] = RecordOf(saving)
        /\ OneApart(pending)
        /\ Loadable(pending) = saving.settings
    BY <1>7, SavedRecord DEF NvsCommit
  <2>2. /\ saving' \in Saves /\ saving'.call = "verify"
        /\ saving'.slot = saving.slot /\ RecordOf(saving') = RecordOf(saving)
        /\ saving'.settings = saving.settings
    BY <1>7, <2>1 DEF NvsCommit, Saves, Calls, RecordOf
  <2>3. StoreTypeOK' /\ AsleepIsEmpty' /\ PendingIsNext' /\ StoredIsCurrent'
    BY <1>0, <1>7, <2>1, <2>2 DEF NvsCommit, StoreTypeOK, AsleepIsEmpty,
         PendingIsNext, StoredIsCurrent
  <2>4. flash' = committed' /\ OneApart(flash')
    BY <1>7, <2>1 DEF NvsCommit
  <2> QED
    BY <2>3, <2>4 DEF FlashAgrees
<1>8. CASE Verify
  BY <1>0, <1>8 DEF Verify, StoreTypeOK, AsleepIsEmpty, FlashAgrees, PendingIsNext,
       StoredIsCurrent, Idle
<1>9. CASE PowerCut
  BY <1>0, <1>9, BlankImageIsImage DEF PowerCut, StoreTypeOK, AsleepIsEmpty,
       FlashAgrees, PendingIsNext, StoredIsCurrent, Idle
<1>10. ASSUME NEW slot \in Slots, Decay(slot)
       PROVE  StoreInv'
  <2>1. /\ flash' \in Images
        /\ OneApart(flash')
    BY <1>0, <1>10, WriteInSlot, BlankIsApart DEF Decay
  <2> QED
    BY <1>10, <2>1 DEF Decay, StoreTypeOK, AsleepIsEmpty, FlashAgrees,
         PendingIsNext, StoredIsCurrent, Idle
<1>11. CASE UNCHANGED storeVars
  BY <1>11 DEF storeVars, StoreTypeOK, AsleepIsEmpty, FlashAgrees, PendingIsNext,
       StoredIsCurrent, RecordOf
<1> QED
  BY <1>1, <1>2, <1>3, <1>4, <1>5, <1>6, <1>7, <1>8, <1>9, <1>10, <1>11 DEF Next

\* The invariant holds in every reachable state.
THEOREM StoreInvariant ==
    Spec => []StoreInv
BY StoreInvInit, StoreInvStep, PTL DEF Spec

\* Two valid records are one generation apart in every image, however many saves
\* failed, were cut or decayed (settings_storage.cpp, generationIsNewer).
THEOREM GenerationsStayAdjacent ==
    Spec => []GenerationsAreAdjacent
<1>1. StoreInv => GenerationsAreAdjacent
  <2> SUFFICES ASSUME StoreInv PROVE OneApart(pending)
    BY DEF GenerationsAreAdjacent, StoreInv
  <2>1. CASE saving.call \in {"set_blob", "nvs_commit"}
    BY <2>1, SavedRecord
  <2>2. CASE saving.call \notin {"set_blob", "nvs_commit"}
    BY <2>2 DEF StoreInv, PendingIsNext
  <2> QED
    BY <2>1, <2>2
<1> QED
  BY <1>1, StoreInvariant, PTL

\* The record that the last load selected stays in the flash until the next one
\* is acknowledged (docs/settings-persistence.md).
THEOREM SelectedRecordStays ==
    Spec => []SelectedRecordIsDurable
<1>1. StoreInv => SelectedRecordIsDurable
  <2> SUFFICES ASSUME StoreInv, ready, Loadable(committed) # NoSettings
               PROVE  flash[Selected(committed)] = committed[Selected(committed)]
    BY DEF SelectedRecordIsDurable
  <2>1. committed \in Images
    BY DEF StoreInv, StoreTypeOK
  <2>2. Valid(committed, Other(Target(committed)))
    BY <2>1, LoadOutsideTarget
  <2>3. Selected(committed) = Other(Target(committed))
    BY <2>1, <2>2, TargetIsNotSelected
  <2> QED
    BY <2>3 DEF StoreInv, FlashAgrees
<1> QED
  BY <1>1, StoreInvariant, PTL
-----------------------------------------------------------------------------
(* The refinement.                                                         *)

\* With both slots blank a load finds nothing.
LEMMA LoadBothBlank ==
    ASSUME NEW image \in Images, NEW slot \in Slots,
           image[slot] = Blank, image[Other(slot)] = Blank
    PROVE  Loadable(image) = NoSettings
BY LoadBesideBlank DEF Valid

\* An image without the record of its target loads what it loaded.
LEMMA LoadWithoutTarget ==
    ASSUME NEW image \in Images, NEW next \in Images,
           next[Target(image)] = Blank,
           next[Other(Target(image))] = image[Other(Target(image))]
    PROVE  Loadable(next) = Loadable(image)
<1>1. Target(image) \in Slots
  BY TargetIsNotSelected
<1>2. Loadable(next) = IF Valid(image, Other(Target(image)))
                       THEN image[Other(Target(image))].settings
                       ELSE NoSettings
  BY <1>1, LoadBesideBlank DEF Valid
<1> QED
  BY <1>2, LoadOutsideTarget

\* A blank slot of an image blanked again: the same image, or no record at all.
LEMMA LoadBlankedTwice ==
    ASSUME NEW image \in Images, NEW slot \in Slots, image[slot] = Blank,
           NEW again \in Slots
    PROVE  Loadable(Write(image, again, Blank)) \in {Loadable(image), NoSettings}
<1> DEFINE next == Write(image, again, Blank)
<1>1. next \in Images /\ next[again] = Blank /\ next[Other(again)] = image[Other(again)]
  BY WriteInSlot
<1>2. CASE again = slot
  <2>1. next[slot] = Blank /\ next[Other(slot)] = image[Other(slot)]
    BY <1>1, <1>2
  <2>2. Loadable(next) = Loadable(image)
    BY <1>1, <2>1, LoadBesideBlank DEF Valid
  <2> QED
    BY <2>2
<1>3. CASE again = Other(slot)
  <2>1. next[Other(again)] = Blank
    BY <1>1, <1>3, TwoSlots
  <2> QED
    BY <1>1, <2>1, LoadBothBlank
<1> QED
  BY <1>2, <1>3, TwoSlots

\* The image a save prepares loads its settings, the one in memory once its
\* record decays, and its settings again once the other record does.
LEMMA LoadPending ==
    ASSUME StoreInv, saving.call \in {"set_blob", "nvs_commit"}
    PROVE  /\ Loadable(pending) = saving.settings
           /\ \A slot \in Slots : Loadable(Write(pending, slot, Blank))
                                    \in {Loadable(committed), saving.settings}
<1> DEFINE t == Target(committed)
<1>1. /\ committed \in Images /\ pending \in Images /\ t \in Slots
      /\ RecordOf(saving) \in Records
      /\ pending[t] = RecordOf(saving)
      /\ pending[Other(t)] = committed[Other(t)]
      /\ Loadable(pending) = saving.settings
  BY SavedRecord, TargetIsNotSelected DEF StoreInv, StoreTypeOK
<1>2. Loadable(Write(pending, t, Blank)) = Loadable(committed)
  BY <1>1, WriteInSlot, LoadWithoutTarget
<1>3. Loadable(Write(pending, Other(t), Blank)) = saving.settings
  <2> DEFINE next == Write(pending, Other(t), Blank)
  <2>1. /\ next \in Images /\ next[Other(t)] = Blank /\ next[t] = RecordOf(saving)
        /\ Other(t) \in Slots /\ Other(Other(t)) = t
    BY <1>1, WriteInSlot, TwoSlots
  <2>2. Valid(next, Other(Other(t)))
    BY <1>1, <2>1, RecordsAreValid DEF Valid
  <2> QED
    BY <2>1, <2>2, LoadBesideBlank DEF RecordOf
<1> QED
  BY <1>1, <1>2, <1>3, TwoSlots

\* Whatever commit() leaves in the flash, the register is only touched.
LEMMA InterruptedTouches ==
    ASSUME StoreInv, saving.call \in {"set_blob", "nvs_commit"},
           flash' \in InterruptedFlash, UNCHANGED <<committed, ready>>
    PROVE  Register!Touch
<1> DEFINE t == Target(committed)
<1>1. /\ flash \in Images /\ committed \in Images /\ t \in Slots
      /\ saving \in Saves /\ ready /\ saving.slot = t
      /\ flash[Other(t)] = committed[Other(t)]
  BY SavedRecord, TargetIsNotSelected DEF StoreInv, StoreTypeOK, FlashAgrees
<1>2. /\ asked # NoSettings
      /\ current = Loadable(committed) /\ current' = current
  BY <1>1, StoreConstantsAssumption DEF asked, current, Saves
<1>3. CASE flash' = flash
  <2>1. held' = held /\ fallback' = fallback
    BY <1>2, <1>3 DEF held, fallback
  <2> QED
    BY <1>2, <2>1 DEF Register!Touch, held
<1>4. CASE flash' = pending
  <2>1. held' = {current, asked}
    BY <1>2, <1>4, LoadPending DEF held, asked
  <2>2. fallback' \subseteq {}
    BY <1>2, <1>4, <2>1, LoadPending DEF fallback, asked
  <2> QED
    BY <1>2, <2>1, <2>2 DEF Register!Touch, held
<1>5. CASE flash' = Write(flash, t, Blank)
  <2>1. /\ flash' \in Images /\ flash'[t] = Blank
        /\ flash'[Other(t)] = committed[Other(t)]
    BY <1>1, <1>5, WriteInSlot
  <2>2. Loadable(flash') = current
    BY <1>1, <1>2, <2>1, LoadWithoutTarget
  <2>3. held' = {current}
    BY <1>2, <2>2 DEF held
  <2>4. \A slot \in Slots : Loadable(Write(flash', slot, Blank)) \in {current, NoSettings}
    BY <1>1, <2>1, <2>2, LoadBlankedTwice
  <2>5. fallback' \subseteq {NoSettings}
    BY <2>3, <2>4 DEF fallback
  <2> QED
    BY <1>2, <2>3, <2>5 DEF Register!Touch, held
<1> QED
  BY <1>1, <1>3, <1>4, <1>5 DEF InterruptedFlash

\* The journal starts as an empty register.
LEMMA JournalInit ==
    Init => Register!RegisterInit
<1> SUFFICES ASSUME Init PROVE Register!RegisterInit
  OBVIOUS
<1>1. flash \in Images /\ flash = BlankImage /\ ~ready
  BY BlankImageIsImage DEF Init
<1>2. \A slot \in Slots : flash[slot] = Blank
  BY <1>1 DEF BlankImage
<1>3. 0 \in Slots /\ Other(0) \in Slots
  BY DEF Slots, Other
<1>4. Loadable(flash) = NoSettings
  BY <1>1, <1>2, <1>3, LoadBothBlank
<1>5. current = NoSettings /\ held = {NoSettings}
  BY <1>1, <1>4 DEF current, held
<1>6. \A slot \in Slots : Loadable(Write(flash, slot, Blank)) = NoSettings
  BY <1>1, <1>2, <1>4, LoadBlankedTwice
<1>7. fallback = {}
  BY <1>5, <1>6 DEF fallback
<1>8. asked = NoSettings /\ answer = Register!NoAnswer
  BY DEF Init, asked, Idle, NoAnswer, Register!NoAnswer
<1> QED
  BY <1>5, <1>7, <1>8 DEF Register!RegisterInit

\* Every step of the journal is one of the register, or changes nothing of it.
LEMMA JournalStep ==
    StoreInv /\ StoreInv' /\ [Next]_storeVars
        => [Register!RegisterNext]_(Register!registerVars)
<1> SUFFICES ASSUME StoreInv, StoreInv', [Next]_storeVars
             PROVE  [Register!RegisterNext]_(Register!registerVars)
  OBVIOUS
<1> USE DEF Register!RegisterNext
<1>0. flash \in Images /\ committed \in Images
  BY DEF StoreInv, StoreTypeOK
<1>1. CASE Begin
  <2>1. current' = current
    BY <1>1 DEF Begin, current
  <2>2. held' = held /\ fallback' = fallback
    BY <1>1, <2>1 DEF Begin, held, fallback
  <2> QED
    BY <1>1, <2>1, <2>2 DEF Begin, asked, Register!registerVars
<1>2. CASE Load
  <2>1. UNCHANGED <<current, held, fallback, asked>> /\ asked = NoSettings
    BY <1>2 DEF Load, current, held, fallback, asked, Idle
  <2>2. CASE ready
    BY <1>2, <2>1, <2>2 DEF Load, current, Loaded, Register!Load, Register!Loaded
  <2>3. CASE ~ready
    BY <1>2, <2>1, <2>3 DEF Load, Loaded, Register!Unavailable, Register!Loaded
  <2> QED
    BY <2>2, <2>3
<1>3. ASSUME NEW s \in Settings \cup InvalidSettings, RefuseSave(s)
      PROVE  Register!RegisterNext
  <2>1. UNCHANGED <<current, held, fallback, asked>> /\ asked = NoSettings
    BY <1>3 DEF RefuseSave, current, held, fallback, asked, Idle
  <2> QED
    BY <1>3, <2>1 DEF RefuseSave, SaveFailed, Register!Refuse, Register!SaveFailed
<1>4. ASSUME NEW s \in Settings, StartSave(s)
      PROVE  Register!RegisterNext
  <2>1. UNCHANGED <<current, held, fallback>>
    BY <1>4 DEF StartSave, current, held, fallback
  <2>2. asked = NoSettings /\ asked' = s
    BY <1>4 DEF StartSave, asked, Idle
  <2>3. Register!Start(s)
    BY <1>4, <2>1, <2>2 DEF StartSave, Register!Start
  <2> QED
    BY <2>3
<1>5. CASE SetBlob
  <2>1. Register!Touch
    BY <1>5, InterruptedTouches DEF SetBlob
  <2>2. asked' = asked
    BY <1>5, SavedRecord DEF SetBlob, asked, Saves
  <2> QED
    BY <1>5, <2>1, <2>2 DEF SetBlob, Register!Attempt
<1>6. CASE FailCommit
  <2>1. Register!Touch
    BY <1>6, InterruptedTouches DEF FailCommit
  <2> QED
    BY <1>6, <2>1 DEF FailCommit, Register!Fail, asked, Idle, SaveFailed,
         Register!SaveFailed
<1>7. CASE NvsCommit
  <2>1. /\ ready /\ saving \in Saves /\ asked # NoSettings
        /\ current = Loadable(committed)
    BY <1>7, SavedRecord, StoreConstantsAssumption
       DEF NvsCommit, Saves, current, asked
  <2>2. current' = asked /\ held' = {asked} /\ asked' = asked
    BY <1>7, <2>1, LoadPending DEF NvsCommit, current, held, asked, Saves
  <2>3. fallback' \subseteq {current}
    BY <1>7, <2>1, <2>2, LoadPending DEF NvsCommit, fallback, asked
  <2> QED
    BY <1>7, <2>1, <2>2, <2>3 DEF NvsCommit, Register!Commit
<1>8. CASE Verify
  <2>1. saving \in Saves /\ ready
    BY <1>8 DEF Verify, StoreInv, StoreTypeOK, AsleepIsEmpty, Idle
  <2>2. /\ asked # NoSettings
        /\ current = asked
        /\ held = {asked}
        /\ answer' = Saved(asked)
    BY <1>8, <2>1, StoreConstantsAssumption
       DEF Verify, StoreInv, StoredIsCurrent, Saves, asked, current, held
  <2>3. UNCHANGED <<current, held, fallback>> /\ asked' = NoSettings
    BY <1>8 DEF Verify, current, held, fallback, asked, Idle
  <2> QED
    BY <2>2, <2>3 DEF Register!Acknowledge, Saved, Register!Saved
<1>9. CASE PowerCut
  <2>1. current' = Loadable(flash) /\ held' = {Loadable(flash)}
    BY <1>9 DEF PowerCut, current, held
  <2>2. fallback' \subseteq fallback \cup held
    BY <1>9, <2>1 DEF PowerCut, fallback, held
  <2>3. asked' = NoSettings /\ answer' = Register!NoAnswer
    BY <1>9 DEF PowerCut, asked, Idle, NoAnswer, Register!NoAnswer
  <2> QED
    BY <2>1, <2>2, <2>3 DEF Register!PowerCut, held
<1>10. ASSUME NEW slot \in Slots, Decay(slot)
       PROVE  Register!RegisterNext
  <2>1. /\ flash' \in Images /\ flash'[slot] = Blank
        /\ current' = Loadable(flash') /\ held' = {Loadable(flash')}
        /\ UNCHANGED <<asked, answer>>
    BY <1>0, <1>10, WriteInSlot DEF Decay, current, held, asked
  <2>2. current' \in held \cup fallback
    BY <1>10, <2>1 DEF Decay, fallback
  <2>3. fallback' \subseteq {NoSettings}
    BY <2>1, LoadBlankedTwice DEF fallback
  <2> QED
    BY <2>1, <2>2, <2>3 DEF Register!Decay
<1>11. CASE UNCHANGED storeVars
  BY <1>11 DEF storeVars, Register!registerVars, current, held, fallback, asked
<1> QED
  BY <1>1, <1>2, <1>3, <1>4, <1>5, <1>6, <1>7, <1>8, <1>9, <1>10, <1>11 DEF Next

\* The journal of slots, cut at any call and decayed in any slot, keeps the
\* promise of the register (settings_storage.cpp, load and save).
THEOREM JournalImplementsRegister ==
    Spec => ImplementsRegister
BY JournalInit, JournalStep, StoreInvariant, PTL
   DEF Spec, ImplementsRegister, Register!RegisterSpec
=============================================================================
