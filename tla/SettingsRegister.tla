---------------------------- MODULE SettingsRegister ----------------------------
(* What JournaledUserSettingsStore promises to the settings service, said      *)
(* without slots, generations, images or flash: a register that keeps the last *)
(* acknowledged settings across power cuts, and that one decayed record sets   *)
(* back by one save at most.                                                   *)
(*                                                                             *)
(*   current   what a load returns until the next save or power cut            *)
(*   held      what a load may return after a power cut                        *)
(*   fallback  what one decayed record may bring back instead                  *)
(*   asked     the settings of the save in progress, if any                    *)
(*   answer    the answer of the last load or save                             *)
EXTENDS Naturals

CONSTANTS Settings,       \* the valid user settings
          NoSettings      \* load() returns false: nothing valid is stored

VARIABLES current, held, fallback, asked, answer
registerVars == <<current, held, fallback, asked, answer>>

Contents == Settings \cup {NoSettings}

NoAnswer == [op |-> "none", settings |-> NoSettings]
Loaded(v) == [op |-> "loaded", settings |-> v]
Saved(s) == [op |-> "saved", settings |-> s]
SaveFailed == [op |-> "save_failed", settings |-> NoSettings]

RegisterInit ==
    /\ current = NoSettings
    /\ held = {NoSettings}
    /\ fallback = {}
    /\ asked = NoSettings
    /\ answer = NoAnswer

\* Two loads in a row return the same settings.
Load ==
    /\ asked = NoSettings
    /\ answer' = Loaded(current)
    /\ UNCHANGED <<current, held, fallback, asked>>

\* A save is refused at once, or it starts.
Refuse ==
    /\ asked = NoSettings
    /\ answer' = SaveFailed
    /\ UNCHANGED <<current, held, fallback, asked>>
Start(s) ==
    /\ asked = NoSettings
    /\ asked' = s
    /\ UNCHANGED <<current, held, fallback, answer>>

\* A save in progress may leave its settings to be found after a power cut, but
\* the current ones can be found too; the record it overwrites no longer backs
\* the register up.
Touch ==
    /\ asked # NoSettings
    /\ current \in held'
    /\ held' \subseteq held \cup {asked}
    /\ fallback' \subseteq fallback \cup {NoSettings}
    /\ UNCHANGED current
Attempt == Touch /\ UNCHANGED <<asked, answer>>

\* A save that fails may have touched the register: its settings may yet be found.
Fail == Touch /\ asked' = NoSettings /\ answer' = SaveFailed

\* The save takes effect: its settings and nothing else, backed up by what was
\* current before.
Commit ==
    /\ asked # NoSettings
    /\ current' = asked
    /\ held' = {asked}
    /\ fallback' \subseteq {current}
    /\ UNCHANGED <<asked, answer>>

\* A save is acknowledged only when its settings are the only ones held.
Acknowledge ==
    /\ asked # NoSettings
    /\ current = asked
    /\ held = {asked}
    /\ answer' = Saved(asked)
    /\ asked' = NoSettings
    /\ UNCHANGED <<current, held, fallback>>

\* Power is lost: what is found after it is settled.
PowerCut ==
    /\ current' \in held
    /\ held' = {current'}
    /\ fallback' \subseteq fallback \cup held
    /\ asked' = NoSettings
    /\ answer' = NoAnswer

\* One record decays: the register falls back, and nothing is left behind it.
Decay ==
    /\ current' \in held \cup fallback
    /\ held' = {current'}
    /\ fallback' \subseteq {NoSettings}
    /\ UNCHANGED <<asked, answer>>

\* Without its storage the register answers nothing, whatever it holds.
Unavailable ==
    /\ answer' = Loaded(NoSettings)
    /\ UNCHANGED <<current, held, fallback, asked>>

RegisterNext ==
    \/ Load \/ Refuse \/ Attempt \/ Fail \/ Commit \/ Acknowledge
    \/ PowerCut \/ Decay \/ Unavailable
    \/ \E s \in Settings : Start(s)

RegisterSpec == RegisterInit /\ [][RegisterNext]_registerVars
=============================================================================
