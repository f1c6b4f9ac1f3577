----------------------------- MODULE Appearance -----------------------------
(***************************************************************************)
(* How the web client looks: the settings in localStorage, which the tabs  *)
(* share, the random look in each tab's sessionStorage, the script that    *)
(* paints before React runs, and the provider that takes over from it      *)
(* (src/web/src/lib/settings.ts, components/SettingsProvider.tsx,          *)
(* components/SettingsDialog.tsx).                                         *)
(*                                                                         *)
(* A drift stands for its direction, speed and spin, which are treated     *)
(* alike, and `rest' for the text size and the remote images.              *)
(***************************************************************************)
EXTENDS Naturals

CONSTANTS
    Tab,
    Theme,
    Pattern,  \* the patterns but Plain
    Plain,
    Drift,    \* direction, speed and spin
    Gentle,   \* those of Drift that the random look takes
    Default,  \* DEFAULT_SETTINGS
    Older,    \* what earlier versions may have stored
    Broken,   \* stored text that is no JSON
    Missing,  \* no stored value
    Unknown,  \* a stored field with no value that is known
    Quilt,    \* the pattern that became the clouds
    Clouds

ASSUME GentleAssumption == Gentle \subseteq Drift

VARIABLES
    stored,  \* localStorage: the settings
    kept,    \* per tab, sessionStorage: the random look
    works,   \* does storage take what is written?
    reduced, \* does the system ask for reduced motion?
    tab,     \* what each tab has in memory and on screen
    alone    \* history: tabs since whose last change no other changed storage

appearanceVars == <<stored, kept, works, reduced, tab, alone>>

RandomLook == [theme : Theme, pattern : Pattern, drift : Gentle]
Settings == [theme : Theme, pattern : Pattern \cup {Plain}, drift : Drift,
             motion : BOOLEAN, drifting : BOOLEAN, rest : BOOLEAN, shuffle : BOOLEAN]
LOOK_FIELDS == {"theme", "pattern", "drift"}

(* The attributes of the document root.                                    *)
Root == [theme : Theme, pattern : Pattern \cup {Plain}, motion : BOOLEAN, drift : BOOLEAN,
         rest : BOOLEAN]

ASSUME DefaultAssumption ==
    Default \in Settings /\ Default.shuffle /\ Default.motion /\ Default.drifting
ASSUME QuiltAssumption == Quilt \notin Pattern \cup {Plain}
ASSUME StorageAssumption ==
    Missing \notin Settings \cup RandomLook \cup Root /\ Broken \notin Settings

-----------------------------------------------------------------------------
(* settings.ts.                                                            *)

OneOf(S, value, fallback) == IF value \in S THEN value ELSE fallback
StoredPattern(p) == IF p = Quilt THEN Clouds ELSE p

(* Mutant: a stored theme is taken as it is.                               *)
ParseSettingsUnchecked(raw) ==
    IF raw \in {Missing, Broken} THEN Default
    ELSE [f \in DOMAIN raw |->
            CASE f = "theme" -> raw.theme
              [] f = "pattern" -> OneOf(Pattern \cup {Plain}, StoredPattern(raw.pattern), Default.pattern)
              [] f = "drift" -> OneOf(Drift, raw.drift, Default.drift)
              [] f = "shuffle" -> OneOf(BOOLEAN, raw.shuffle, FALSE)
              [] OTHER -> OneOf(BOOLEAN, raw[f], Default[f])]

(* Field by field; who saved settings before there was a random look has   *)
(* chosen one.                                                             *)
ParseSettings(raw) ==
    IF raw \in {Missing, Broken} THEN Default
    ELSE [theme |-> OneOf(Theme, raw.theme, Default.theme),
          pattern |-> OneOf(Pattern \cup {Plain}, StoredPattern(raw.pattern), Default.pattern),
          drift |-> OneOf(Drift, raw.drift, Default.drift),
          motion |-> OneOf(BOOLEAN, raw.motion, Default.motion),
          drifting |-> OneOf(BOOLEAN, raw.drifting, Default.drifting),
          rest |-> OneOf(BOOLEAN, raw.rest, Default.rest),
          shuffle |-> OneOf(BOOLEAN, raw.shuffle, FALSE)]

LookOf(s) == [f \in LOOK_FIELDS |-> s[f]]

EffectiveLook(s, shuffled) == IF s.shuffle /\ shuffled # Missing THEN shuffled ELSE LookOf(s)

DriftBlocker(s, rm, pattern) ==
    IF rm \/ ~s.motion THEN "motion" ELSE IF pattern = Plain THEN "pattern" ELSE "none"

ApplySettings(s, rm, look) ==
    [theme |-> look.theme, pattern |-> look.pattern, motion |-> s.motion /\ ~rm,
     drift |-> s.drifting /\ DriftBlocker(s, rm, look.pattern) = "none", rest |-> s.rest]

(* Mutant: shuffling only where it was asked for.                          *)
ScriptShufflesAsked(raw) == raw # Missing /\ OneOf(BOOLEAN, raw.shuffle, FALSE)

ScriptShuffles(raw) == raw = Missing \/ OneOf(BOOLEAN, raw.shuffle, FALSE)

(* NO_FLASH_SCRIPT, but for a stored text that is no JSON.                 *)
ScriptRoot(raw, rm, look) ==
    LET s == IF raw = Missing THEN Default ELSE raw
        pattern == IF ScriptShuffles(raw) THEN look.pattern
                   ELSE OneOf(Pattern \cup {Plain}, StoredPattern(s.pattern), Default.pattern)
        motion == s.motion # FALSE /\ ~rm
    IN [theme |-> IF ScriptShuffles(raw) THEN look.theme ELSE OneOf(Theme, s.theme, Default.theme),
        pattern |-> pattern, motion |-> motion,
        drift |-> s.drifting # FALSE /\ motion /\ pattern # Plain,
        rest |-> OneOf(BOOLEAN, s.rest, Default.rest)]

-----------------------------------------------------------------------------
Closed == [pc |-> "closed", settings |-> Default, shuffled |-> Missing, root |-> Missing,
           read |-> Missing]

AppearanceInit ==
    /\ stored \in Older \cup {Missing, Broken}
    /\ kept = [t \in Tab |-> Missing]
    /\ works \in BOOLEAN
    /\ reduced \in BOOLEAN
    /\ tab = [t \in Tab |-> Closed]
    /\ alone = Tab

Keep(t, look) == kept' = IF works THEN [kept EXCEPT ![t] = look] ELSE kept

(* A page is loaded: the script runs before the first paint.               *)
Paint(t) ==
    /\ \E look \in IF stored # Broken /\ ScriptShuffles(stored)
                   THEN IF kept[t] # Missing THEN {kept[t]} ELSE RandomLook
                   ELSE {Missing} :
        /\ IF look # Missing THEN Keep(t, look) ELSE kept' = kept
        /\ tab' = [tab EXCEPT ![t] = [Closed EXCEPT !.pc = "painted", !.read = <<stored, reduced>>,
                                        !.root = IF stored = Broken THEN Missing
                                                 ELSE ScriptRoot(stored, reduced, look)]]
    /\ UNCHANGED <<stored, works, reduced, alone>>

Showing(t) == EffectiveLook(tab[t].settings, tab[t].shuffled)

(* The effect of SettingsProvider, and the settings it applies.            *)
Mount(t) ==
    /\ tab[t].pc = "painted"
    /\ LET loaded == ParseSettings(stored)
       IN \E look \in IF ~loaded.shuffle THEN {Missing}
                      ELSE IF kept[t] # Missing THEN {kept[t]} ELSE RandomLook :
            /\ IF look # Missing THEN Keep(t, look) ELSE kept' = kept
            /\ tab' = [tab EXCEPT ![t] = [@ EXCEPT !.pc = "ready", !.read = Missing, !.settings = loaded, !.shuffled = look,
                                            !.root = ApplySettings(loaded, reduced, EffectiveLook(loaded, look))]]
    /\ alone' = alone \cup {t}
    /\ UNCHANGED <<stored, works, reduced>>

Closes(t) ==
    /\ tab[t].pc # "closed"
    /\ tab' = [tab EXCEPT ![t] = Closed]
    /\ kept' = [kept EXCEPT ![t] = Missing]
    /\ alone' = alone \cup {t}
    /\ UNCHANGED <<stored, works, reduced>>

-----------------------------------------------------------------------------
(* update and reshuffle.                                                   *)

Patched(s, patch) == [f \in DOMAIN s |-> IF f \in DOMAIN patch THEN patch[f] ELSE s[f]]

(* Mutant: the surprise ends, and the saved look comes back.               *)
NextSettingsUnfrozen(s, showing, patch) ==
    IF s.shuffle /\ "shuffle" \notin DOMAIN patch /\ DOMAIN patch \cap LOOK_FIELDS # {}
    THEN [Patched(s, patch) EXCEPT !.shuffle = FALSE]
    ELSE Patched(s, patch)

(* Leaving the random look freezes what is on screen first.                *)
NextSettings(s, showing, patch) ==
    LET choseLook == DOMAIN patch \cap LOOK_FIELDS # {}
        leaving == s.shuffle /\ IF "shuffle" \in DOMAIN patch THEN ~patch.shuffle ELSE choseLook
    IN IF leaving THEN [Patched(Patched(s, showing), patch) EXCEPT !.shuffle = FALSE]
                  ELSE Patched(s, patch)

(* saveSettings writes all that this tab knows.                            *)
Update(t, patch) ==
    LET s == NextSettings(tab[t].settings, Showing(t), patch)
        fresh == "shuffle" \in DOMAIN patch /\ patch.shuffle
    IN
    /\ stored' = IF works THEN s ELSE stored
    /\ \E look \in IF fresh THEN RandomLook ELSE {tab[t].shuffled} :
        /\ IF fresh THEN Keep(t, look) ELSE kept' = kept
        /\ tab' = [tab EXCEPT ![t].settings = s, ![t].shuffled = look,
                              ![t].root = ApplySettings(s, reduced, EffectiveLook(s, look))]
    /\ alone' = IF stored' = stored THEN alone ELSE {t}
    /\ UNCHANGED <<works, reduced>>

(* What the dialog offers: another value than it shows, and a control that *)
(* is blocked is disabled.                                                 *)
Patches(t) ==
    LET s == tab[t].settings
        look == Showing(t)
        blocked == DriftBlocker(s, reduced, look.pattern) # "none"
    IN {[theme |-> x] : x \in Theme \ {look.theme}}
         \cup {[pattern |-> x] : x \in (Pattern \cup {Plain}) \ {look.pattern}}
         \cup {[drift |-> x] : x \in IF blocked THEN {} ELSE Drift \ {look.drift}}
         \cup {[drifting |-> x] : x \in IF blocked THEN {} ELSE {~s.drifting}}
         \cup {[motion |-> x] : x \in IF reduced THEN {} ELSE {~s.motion}}
         \cup {[rest |-> ~s.rest], [shuffle |-> ~s.shuffle]}

Choose(t) ==
    /\ tab[t].pc = "ready"
    /\ \E patch \in Patches(t) : Update(t, patch)

(* Mutant: the new look is not saved.                                      *)
ReshuffleUnsaved(t) ==
    /\ tab[t].pc = "ready" /\ tab[t].settings.shuffle
    /\ \E look \in RandomLook :
        tab' = [tab EXCEPT ![t].shuffled = look,
                           ![t].root = ApplySettings(tab[t].settings, reduced, EffectiveLook(tab[t].settings, look))]
    /\ UNCHANGED <<stored, kept, works, reduced, alone>>

(* "Shuffle now": any look, hardly ever the same.                          *)
Reshuffle(t) ==
    /\ tab[t].pc = "ready" /\ tab[t].settings.shuffle
    /\ \E look \in RandomLook :
        /\ Keep(t, look)
        /\ tab' = [tab EXCEPT ![t].shuffled = look,
                              ![t].root = ApplySettings(tab[t].settings, reduced, EffectiveLook(tab[t].settings, look))]
    /\ UNCHANGED <<stored, works, reduced, alone>>

(* Every tab's media query tells it.                                       *)
ReducedMotionChanges ==
    /\ reduced' = ~reduced
    /\ tab' = [t \in Tab |->
                 IF tab[t].pc # "ready" THEN tab[t]
                 ELSE [tab[t] EXCEPT !.root = ApplySettings(tab[t].settings, reduced', Showing(t))]]
    /\ UNCHANGED <<stored, kept, works, alone>>

AppearanceNext ==
    \/ ReducedMotionChanges
    \/ \E t \in Tab : Paint(t) \/ Mount(t) \/ Closes(t) \/ Choose(t) \/ Reshuffle(t)

AppearanceSpec == AppearanceInit /\ [][AppearanceNext]_appearanceVars
-----------------------------------------------------------------------------
(* Whatever was stored, what is in memory and on screen is of the known    *)
(* values (parseSettings, parseLook).                                      *)
AppearanceTypeOK ==
    /\ stored \in Settings \cup Older \cup {Missing, Broken}
    /\ kept \in [Tab -> RandomLook \cup {Missing}]
    /\ works \in BOOLEAN /\ reduced \in BOOLEAN
    /\ alone \subseteq Tab
    /\ \A t \in Tab :
        /\ tab[t].pc \in {"closed", "painted", "ready"}
        /\ tab[t].settings \in Settings
        /\ tab[t].shuffled \in RandomLook \cup {Missing}
        /\ tab[t].root \in Root \cup {Missing}
        /\ tab[t].pc = "ready" => tab[t].root # Missing

(* The provider takes over from the script without a flash: unless what    *)
(* both read has changed in between, or could not be read or kept, the     *)
(* document root is already what the settings make of it (the comment on   *)
(* NO_FLASH_SCRIPT, "never flashes the defaults").                         *)
TakesOver ==
    \A t \in Tab :
        tab[t].pc = "painted" /\ tab'[t].pc = "ready" /\ works
          /\ stored # Broken /\ tab[t].read = <<stored, reduced>>
        => tab'[t].root = tab[t].root

(* No step that takes over from the script repaints the root.              *)
FirstPaintIsFinal == [][TakesOver]_appearanceVars

(* A reload shows what is on screen now, the random look included, unless  *)
(* another tab has saved since ("so reloads do not reshuffle").            *)
ReloadKeepsLook ==
    works => \A t \in alone :
        tab[t].pc = "ready" =>
            /\ ParseSettings(stored) = tab[t].settings
            /\ tab[t].settings.shuffle => kept[t] = tab[t].shuffled /\ kept[t] # Missing

(* Picking one part of the look, or ending the random one, leaves the rest *)
(* of what is on screen as it was (update: "freezes everything on screen   *)
(* first").                                                                *)
KeepsTheRest ==
    \A t \in Tab :
        tab[t].pc = "ready" /\ tab'[t].pc = "ready" /\ tab'[t].settings # tab[t].settings
          /\ (tab'[t].settings.shuffle => tab[t].settings.shuffle)
        => \E f \in LOOK_FIELDS : \A g \in LOOK_FIELDS \ {f} : Showing(t)'[g] = Showing(t)[g]

(* No step of the dialog changes more of the look than was picked.         *)
PickKeepsTheRest == [][KeepsTheRest]_appearanceVars
=============================================================================
