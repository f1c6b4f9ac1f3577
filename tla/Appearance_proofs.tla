-------------------------- MODULE Appearance_proofs --------------------------
(***************************************************************************)
(* Proofs about Appearance, for any number of tabs, themes, patterns and   *)
(* drifts, and whatever earlier versions may have stored.                  *)
(***************************************************************************)
EXTENDS Appearance, TLAPS

-----------------------------------------------------------------------------
(* The functions of settings.ts                                            *)

LEMMA DefaultFacts ==
    /\ Default \in Settings /\ Default.theme \in Theme /\ Default.pattern \in Pattern \cup {Plain}
    /\ Default.drift \in Drift /\ Default.rest \in BOOLEAN
    /\ Default.motion = TRUE /\ Default.drifting = TRUE /\ Default.shuffle = TRUE
BY DefaultAssumption DEF Settings

(* Whatever was stored, what is loaded has known values.                   *)
LEMMA ParseTyped ==
    ASSUME NEW raw
    PROVE  ParseSettings(raw) \in Settings
<1>1. CASE raw \in {Missing, Broken}
  BY <1>1, DefaultFacts DEF ParseSettings
<1>2. CASE raw \notin {Missing, Broken}
  <2>1. /\ OneOf(Theme, raw.theme, Default.theme) \in Theme
        /\ OneOf(Pattern \cup {Plain}, StoredPattern(raw.pattern), Default.pattern) \in Pattern \cup {Plain}
        /\ OneOf(Drift, raw.drift, Default.drift) \in Drift
        /\ OneOf(BOOLEAN, raw.motion, Default.motion) \in BOOLEAN
        /\ OneOf(BOOLEAN, raw.drifting, Default.drifting) \in BOOLEAN
        /\ OneOf(BOOLEAN, raw.rest, Default.rest) \in BOOLEAN
        /\ OneOf(BOOLEAN, raw.shuffle, FALSE) \in BOOLEAN
    BY DefaultFacts DEF OneOf
  <2> QED  BY <1>2, <2>1 DEF ParseSettings, Settings
<1> QED  BY <1>1, <1>2

(* What this version stored is loaded as it is.                            *)
LEMMA ParseKnown ==
    ASSUME NEW s \in Settings
    PROVE  ParseSettings(s) = s
<1>1. s \notin {Missing, Broken}
  BY StorageAssumption
<1>2. /\ OneOf(Theme, s.theme, Default.theme) = s.theme
      /\ OneOf(Pattern \cup {Plain}, StoredPattern(s.pattern), Default.pattern) = s.pattern
      /\ OneOf(Drift, s.drift, Default.drift) = s.drift
      /\ OneOf(BOOLEAN, s.motion, Default.motion) = s.motion
      /\ OneOf(BOOLEAN, s.drifting, Default.drifting) = s.drifting
      /\ OneOf(BOOLEAN, s.rest, Default.rest) = s.rest
      /\ OneOf(BOOLEAN, s.shuffle, FALSE) = s.shuffle
  BY QuiltAssumption DEF OneOf, StoredPattern, Settings
<1>3. s = [theme |-> s.theme, pattern |-> s.pattern, drift |-> s.drift, motion |-> s.motion,
           drifting |-> s.drifting, rest |-> s.rest, shuffle |-> s.shuffle]
  BY DEF Settings
<1> QED  BY <1>1, <1>2, <1>3 DEF ParseSettings

LEMMA LookTyped ==
    ASSUME NEW s \in Settings, NEW shuffled \in RandomLook \cup {Missing}
    PROVE  LET look == EffectiveLook(s, shuffled)
           IN look.theme \in Theme /\ look.pattern \in Pattern \cup {Plain}
<1>1. LookOf(s)["theme"] = s.theme /\ LookOf(s)["pattern"] = s.pattern
  BY DEF LookOf, LOOK_FIELDS
<1> QED  BY <1>1 DEF EffectiveLook, Settings, RandomLook

LEMMA ApplyTyped ==
    ASSUME NEW s \in Settings, NEW rm \in BOOLEAN, NEW look,
           look.theme \in Theme, look.pattern \in Pattern \cup {Plain}
    PROVE  ApplySettings(s, rm, look) \in Root
<1>1. s.rest \in BOOLEAN
  BY DEF Settings
<1>2. (s.motion /\ ~rm) \in BOOLEAN
      /\ (s.drifting /\ DriftBlocker(s, rm, look.pattern) = "none") \in BOOLEAN
  OBVIOUS
<1> QED  BY <1>1, <1>2 DEF ApplySettings, Root

(* A field that is on by default is on unless it was stored as off.        *)
LEMMA OnUnlessOff ==
    ASSUME NEW value
    PROVE  OneOf(BOOLEAN, value, TRUE) = (value # FALSE)
BY DEF OneOf

(* The script and the provider make the same of the same storage.          *)
LEMMA ScriptAgrees ==
    ASSUME NEW raw, raw # Broken, NEW rm \in BOOLEAN, NEW look,
           ScriptShuffles(raw) => look \in RandomLook
    PROVE  LET loaded == ParseSettings(raw)
               shuffled == IF loaded.shuffle THEN look ELSE Missing
           IN /\ loaded.shuffle <=> ScriptShuffles(raw)
              /\ ApplySettings(loaded, rm, EffectiveLook(loaded, shuffled)) = ScriptRoot(raw, rm, look)
<1> DEFINE loaded == ParseSettings(raw)
           shuffled == IF loaded.shuffle THEN look ELSE Missing
           seen == EffectiveLook(loaded, shuffled)
           s == IF raw = Missing THEN Default ELSE raw
<1>1. /\ loaded.theme = OneOf(Theme, s.theme, Default.theme)
      /\ loaded.pattern = OneOf(Pattern \cup {Plain}, StoredPattern(s.pattern), Default.pattern)
      /\ loaded.motion = (s.motion # FALSE) /\ loaded.drifting = (s.drifting # FALSE)
      /\ loaded.rest = OneOf(BOOLEAN, s.rest, Default.rest)
      /\ loaded.shuffle = IF raw = Missing THEN TRUE ELSE OneOf(BOOLEAN, raw.shuffle, FALSE)
  <2>1. CASE raw = Missing
    <3>1. loaded = Default /\ s = Default
      BY <2>1 DEF ParseSettings
    <3>2. /\ OneOf(Theme, Default.theme, Default.theme) = Default.theme
          /\ OneOf(Pattern \cup {Plain}, StoredPattern(Default.pattern), Default.pattern) = Default.pattern
          /\ OneOf(BOOLEAN, Default.rest, Default.rest) = Default.rest
      BY QuiltAssumption, DefaultFacts DEF OneOf, StoredPattern
    <3> QED  BY <2>1, <3>1, <3>2, DefaultFacts
  <2>2. CASE raw # Missing
    <3>1. loaded = [theme |-> OneOf(Theme, raw.theme, Default.theme),
                    pattern |-> OneOf(Pattern \cup {Plain}, StoredPattern(raw.pattern), Default.pattern),
                    drift |-> OneOf(Drift, raw.drift, Default.drift),
                    motion |-> OneOf(BOOLEAN, raw.motion, Default.motion),
                    drifting |-> OneOf(BOOLEAN, raw.drifting, Default.drifting),
                    rest |-> OneOf(BOOLEAN, raw.rest, Default.rest),
                    shuffle |-> OneOf(BOOLEAN, raw.shuffle, FALSE)]
      BY <2>2 DEF ParseSettings
    <3>2. s = raw
      BY <2>2
    <3> HIDE DEF loaded, s
    <3>3. /\ loaded.theme = OneOf(Theme, raw.theme, Default.theme)
          /\ loaded.pattern = OneOf(Pattern \cup {Plain}, StoredPattern(raw.pattern), Default.pattern)
          /\ loaded.motion = OneOf(BOOLEAN, raw.motion, Default.motion)
          /\ loaded.drifting = OneOf(BOOLEAN, raw.drifting, Default.drifting)
          /\ loaded.rest = OneOf(BOOLEAN, raw.rest, Default.rest)
          /\ loaded.shuffle = OneOf(BOOLEAN, raw.shuffle, FALSE)
      BY <3>1
    <3>4. OneOf(BOOLEAN, raw.motion, Default.motion) = (raw.motion # FALSE)
      BY DefaultFacts, OnUnlessOff
    <3>5. OneOf(BOOLEAN, raw.drifting, Default.drifting) = (raw.drifting # FALSE)
      BY DefaultFacts, OnUnlessOff
    <3> QED  BY <2>2, <3>2, <3>3, <3>4, <3>5
  <2> QED  BY <2>1, <2>2
<1>2. loaded \in Settings /\ loaded.shuffle \in BOOLEAN
  BY ParseTyped DEF Settings
<1> HIDE DEF loaded, s
<1>3. loaded.shuffle <=> ScriptShuffles(raw)
  BY <1>1, <1>2 DEF ScriptShuffles
<1>4. seen.theme = IF ScriptShuffles(raw) THEN look.theme ELSE loaded.theme
  <2>1. LookOf(loaded)["theme"] = loaded.theme
    BY DEF LookOf, LOOK_FIELDS
  <2> QED  BY <1>3, <2>1, StorageAssumption DEF EffectiveLook
<1>5. seen.pattern = IF ScriptShuffles(raw) THEN look.pattern ELSE loaded.pattern
  <2>1. LookOf(loaded)["pattern"] = loaded.pattern
    BY DEF LookOf, LOOK_FIELDS
  <2> QED  BY <1>3, <2>1, StorageAssumption DEF EffectiveLook
<1> HIDE DEF seen, shuffled
<1>6. DriftBlocker(loaded, rm, seen.pattern) = "none" <=> ~rm /\ loaded.motion /\ seen.pattern # Plain
  BY DEF DriftBlocker
<1> DEFINE motion == s.motion # FALSE /\ ~rm
           drift == s.drifting # FALSE /\ motion /\ seen.pattern # Plain
<1>7. ApplySettings(loaded, rm, seen)
        = [theme |-> seen.theme, pattern |-> seen.pattern, motion |-> motion, drift |-> drift,
           rest |-> loaded.rest]
  <2>1. (loaded.motion /\ ~rm) = motion
    BY <1>1
  <2>2. (loaded.drifting /\ DriftBlocker(loaded, rm, seen.pattern) = "none") = drift
    BY <1>1, <1>6
  <2> QED  BY <2>1, <2>2 DEF ApplySettings
<1>8. ScriptRoot(raw, rm, look)
        = [theme |-> seen.theme, pattern |-> seen.pattern, motion |-> motion, drift |-> drift,
           rest |-> loaded.rest]
  BY <1>1, <1>4, <1>5 DEF ScriptRoot, s
<1> QED  BY <1>3, <1>7, <1>8 DEF loaded, seen, shuffled

-----------------------------------------------------------------------------
(* The inductive invariant                                                 *)

Storage == Settings \cup Older \cup {Missing, Broken}

TabRecord ==
    [pc : {"closed", "painted", "ready"}, settings : Settings, shuffled : RandomLook \cup {Missing},
     root : Root \cup {Missing}, read : (Storage \X BOOLEAN) \cup {Missing}]

AppearanceTypes ==
    /\ stored \in Storage
    /\ kept \in [Tab -> RandomLook \cup {Missing}]
    /\ works \in BOOLEAN /\ reduced \in BOOLEAN
    /\ tab \in [Tab -> TabRecord]
    /\ alone \subseteq Tab

(* Painted and not taken over: on screen is what the script made of what   *)
(* it read, with the look it kept.                                         *)
PaintedFrom(r, raw, rm, look, keeps) ==
    /\ r.read = <<raw, rm>>
    /\ raw # Broken /\ keeps =>
         /\ r.root = ScriptRoot(raw, rm, look)
         /\ ScriptShuffles(raw) => look # Missing

PaintInv ==
    \A t \in Tab : tab[t].pc = "painted" =>
        \E raw \in Storage, rm \in BOOLEAN : PaintedFrom(tab[t], raw, rm, kept[t], works)

(* Taken over: a tab with the random look has one, the one it keeps.       *)
TabReady(r, look, keeps) ==
    r.pc = "ready" =>
        /\ r.root # Missing
        /\ r.settings.shuffle => r.shuffled # Missing /\ (keeps => look = r.shuffled)

ReadyInv == \A t \in Tab : TabReady(tab[t], kept[t], works)

(* Storage parses to what the tab has.                                     *)
AloneInv ==
    works => \A t \in alone : tab[t].pc = "ready" => ParseSettings(stored) = tab[t].settings

AppearanceInv == AppearanceTypes /\ PaintInv /\ ReadyInv /\ AloneInv

LEMMA AppearanceFacts == AppearanceInv => AppearanceTypeOK /\ ReloadKeepsLook
<1> SUFFICES ASSUME AppearanceInv PROVE AppearanceTypeOK /\ ReloadKeepsLook
  OBVIOUS
<1> USE DEF AppearanceInv
<1>1. \A t \in Tab :
        /\ tab[t].pc \in {"closed", "painted", "ready"}
        /\ tab[t].settings \in Settings
        /\ tab[t].shuffled \in RandomLook \cup {Missing}
        /\ tab[t].root \in Root \cup {Missing}
  BY DEF AppearanceTypes, TabRecord
<1>2. AppearanceTypeOK
  BY <1>1 DEF AppearanceTypeOK, AppearanceTypes, Storage, ReadyInv, TabReady
<1>3. ReloadKeepsLook
  BY DEF ReloadKeepsLook, AloneInv, ReadyInv, TabReady, AppearanceTypes
<1> QED  BY <1>2, <1>3

(* One tab changes.                                                        *)
LEMMA OneTabInv ==
    ASSUME AppearanceInv, NEW t \in Tab, NEW r \in TabRecord, tab' = [tab EXCEPT ![t] = r],
           stored' \in Storage, UNCHANGED <<works, reduced>>,
           kept' \in [Tab -> RandomLook \cup {Missing}], \A u \in Tab \ {t} : kept'[u] = kept[u],
           r.pc = "painted" =>
             \E raw \in Storage, rm \in BOOLEAN : PaintedFrom(r, raw, rm, kept'[t], works),
           TabReady(r, kept'[t], works),
           alone' \subseteq alone \cup {t}, stored' # stored => alone' \subseteq {t},
           works /\ t \in alone' /\ r.pc = "ready" => ParseSettings(stored') = r.settings
    PROVE  AppearanceInv'
<1> USE DEF AppearanceInv
<1>1. tab'[t] = r /\ \A u \in Tab \ {t} : tab'[u] = tab[u]
  BY DEF AppearanceTypes
<1>2. AppearanceTypes'
  BY DEF AppearanceTypes, Storage
<1>3. PaintInv'
  <2> SUFFICES ASSUME NEW u \in Tab, tab'[u].pc = "painted"
               PROVE  \E raw \in Storage, rm \in BOOLEAN : PaintedFrom(tab'[u], raw, rm, kept'[u], works)
    BY DEF PaintInv
  <2>1. CASE u = t
    BY <1>1, <2>1
  <2>2. CASE u # t
    BY <1>1, <2>2 DEF PaintInv
  <2> QED  BY <2>1, <2>2
<1>4. ReadyInv'
  <2> SUFFICES ASSUME NEW u \in Tab PROVE TabReady(tab'[u], kept'[u], works)
    BY DEF ReadyInv
  <2> QED  BY <1>1 DEF ReadyInv
<1>5. AloneInv'
  <2> SUFFICES ASSUME works, NEW u \in alone', tab'[u].pc = "ready"
               PROVE  ParseSettings(stored') = tab'[u].settings
    BY DEF AloneInv
  <2>1. CASE u = t
    BY <1>1, <2>1
  <2>2. CASE u # t
    <3>1. u \in alone /\ u \in Tab /\ tab'[u] = tab[u] /\ stored' = stored
      BY <1>1, <2>2 DEF AppearanceTypes
    <3> QED  BY <3>1 DEF AloneInv
  <2> QED  BY <2>1, <2>2
<1> QED  BY <1>2, <1>3, <1>4, <1>5


-----------------------------------------------------------------------------
(* The steps                                                               *)

LEMMA KeepFacts ==
    ASSUME AppearanceTypes, NEW t \in Tab, NEW look \in RandomLook \cup {Missing},
           \/ look # Missing /\ Keep(t, look)
           \/ kept' = kept
    PROVE  /\ kept' \in [Tab -> RandomLook \cup {Missing}] /\ \A u \in Tab \ {t} : kept'[u] = kept[u]
           /\ kept' = kept \/ (works => kept'[t] = look)
BY DEF AppearanceTypes, Keep

LEMMA ClosedFacts ==
    /\ Closed \in TabRecord /\ Closed.pc = "closed" /\ Closed.settings = Default
    /\ Closed.shuffled = Missing /\ Closed.root = Missing /\ Closed.read = Missing
BY DefaultFacts DEF Closed, TabRecord

(* What the script paints is of the known values.                          *)
LEMMA ScriptTyped ==
    ASSUME NEW raw, raw # Broken, NEW rm \in BOOLEAN, NEW look,
           ScriptShuffles(raw) => look \in RandomLook
    PROVE  ScriptRoot(raw, rm, look) \in Root
<1> DEFINE loaded == ParseSettings(raw)
           shuffled == IF loaded.shuffle THEN look ELSE Missing
<1>1. /\ loaded.shuffle <=> ScriptShuffles(raw)
      /\ ApplySettings(loaded, rm, EffectiveLook(loaded, shuffled)) = ScriptRoot(raw, rm, look)
  BY ScriptAgrees
<1>2. loaded \in Settings /\ shuffled \in RandomLook \cup {Missing}
  BY <1>1, ParseTyped
<1> HIDE DEF loaded, shuffled
<1>3. EffectiveLook(loaded, shuffled).theme \in Theme
      /\ EffectiveLook(loaded, shuffled).pattern \in Pattern \cup {Plain}
  BY <1>2, LookTyped
<1> QED  BY <1>1, <1>2, <1>3, ApplyTyped

LEMMA PaintStep == ASSUME AppearanceInv, NEW t \in Tab, Paint(t) PROVE AppearanceInv'
<1>1. AppearanceTypes /\ stored \in Storage /\ reduced \in BOOLEAN /\ alone \subseteq Tab
  BY DEF AppearanceInv, AppearanceTypes
<1>2. PICK look \in IF stored # Broken /\ ScriptShuffles(stored)
                    THEN IF kept[t] # Missing THEN {kept[t]} ELSE RandomLook
                    ELSE {Missing} :
        /\ IF look # Missing THEN Keep(t, look) ELSE kept' = kept
        /\ tab' = [tab EXCEPT ![t] = [Closed EXCEPT !.pc = "painted", !.read = <<stored, reduced>>,
                                        !.root = IF stored = Broken THEN Missing
                                                 ELSE ScriptRoot(stored, reduced, look)]]
  BY DEF Paint
<1> DEFINE root == IF stored = Broken THEN Missing ELSE ScriptRoot(stored, reduced, look)
           r == [Closed EXCEPT !.pc = "painted", !.read = <<stored, reduced>>, !.root = root]
<1>3. /\ look \in RandomLook \cup {Missing}
      /\ stored # Broken /\ ScriptShuffles(stored) => look \in RandomLook /\ look # Missing
      /\ ~(stored # Broken /\ ScriptShuffles(stored)) => look = Missing
  BY <1>1, <1>2, StorageAssumption DEF AppearanceTypes
<1>4. /\ kept' \in [Tab -> RandomLook \cup {Missing}] /\ \A u \in Tab \ {t} : kept'[u] = kept[u]
      /\ kept' = kept \/ (works => kept'[t] = look)
  BY <1>1, <1>2, <1>3, KeepFacts
<1>5. look # Missing /\ works => kept'[t] = look
  BY <1>1, <1>2 DEF Keep, AppearanceTypes
<1>6. root \in Root \cup {Missing}
  BY <1>1, <1>3, ScriptTyped
<1>7. stored # Broken /\ works => root = ScriptRoot(stored, reduced, kept'[t])
  <2>1. CASE stored # Broken /\ ScriptShuffles(stored)
    BY <1>3, <1>5, <2>1
  <2>2. CASE stored # Broken /\ ~ScriptShuffles(stored)
    BY <2>2 DEF ScriptRoot
  <2> QED  BY <2>1, <2>2
<1> HIDE DEF root
<1>8. /\ r \in TabRecord /\ r.pc = "painted" /\ r.read = <<stored, reduced>> /\ r.root = root
  BY <1>1, <1>6, ClosedFacts DEF TabRecord
<1>9. tab' = [tab EXCEPT ![t] = r]
  BY <1>2 DEF root
<1> HIDE DEF r
<1>10. PaintedFrom(r, stored, reduced, kept'[t], works)
  BY <1>3, <1>5, <1>7, <1>8 DEF PaintedFrom
<1>11. TabReady(r, kept'[t], works)
  BY <1>8 DEF TabReady
<1>12. UNCHANGED <<stored, works, reduced, alone>>
  BY DEF Paint
<1>13. r.pc = "painted" => \E raw \in Storage, rm \in BOOLEAN : PaintedFrom(r, raw, rm, kept'[t], works)
  BY <1>1, <1>10
<1> QED  BY <1>1, <1>4, <1>8, <1>9, <1>11, <1>12, <1>13, OneTabInv

LEMMA ClosesStep == ASSUME AppearanceInv, NEW t \in Tab, Closes(t) PROVE AppearanceInv'
<1>1. AppearanceTypes /\ stored \in Storage
  BY DEF AppearanceInv, AppearanceTypes
<1>2. /\ kept' \in [Tab -> RandomLook \cup {Missing}] /\ \A u \in Tab \ {t} : kept'[u] = kept[u]
  BY <1>1 DEF Closes, AppearanceTypes
<1>3. Closed \in TabRecord /\ Closed.pc = "closed" /\ TabReady(Closed, kept'[t], works)
  BY ClosedFacts DEF TabReady
<1>4. /\ tab' = [tab EXCEPT ![t] = Closed] /\ UNCHANGED <<stored, works, reduced>>
      /\ alone' = alone \cup {t}
  BY DEF Closes
<1> QED  BY <1>1, <1>2, <1>3, <1>4, OneTabInv

(* The provider takes over: what it applies, and that it is what the       *)
(* script painted of the same storage.                                     *)
LEMMA MountFacts ==
    ASSUME AppearanceInv, NEW t \in Tab, Mount(t)
    PROVE  /\ AppearanceInv'
           /\ works /\ stored # Broken /\ tab[t].read = <<stored, reduced>> => tab'[t].root = tab[t].root
<1> DEFINE loaded == ParseSettings(stored)
<1>1. /\ AppearanceTypes /\ stored \in Storage /\ reduced \in BOOLEAN /\ alone \subseteq Tab
      /\ tab[t] \in TabRecord /\ tab[t].pc = "painted" /\ loaded \in Settings
      /\ tab \in [Tab -> TabRecord]
  BY ParseTyped DEF AppearanceInv, AppearanceTypes, Mount
<1>2. PICK look \in IF ~loaded.shuffle THEN {Missing}
                    ELSE IF kept[t] # Missing THEN {kept[t]} ELSE RandomLook :
        /\ IF look # Missing THEN Keep(t, look) ELSE kept' = kept
        /\ tab' = [tab EXCEPT ![t] =
                     [@ EXCEPT !.pc = "ready", !.read = Missing, !.settings = loaded, !.shuffled = look,
                               !.root = ApplySettings(loaded, reduced, EffectiveLook(loaded, look))]]
  BY DEF Mount
<1> DEFINE root == ApplySettings(loaded, reduced, EffectiveLook(loaded, look))
           r == [tab[t] EXCEPT !.pc = "ready", !.read = Missing, !.settings = loaded, !.shuffled = look,
                               !.root = root]
<1> HIDE DEF loaded
<1>3. /\ look \in RandomLook \cup {Missing}
      /\ loaded.shuffle => look \in RandomLook /\ look # Missing
      /\ loaded.shuffle /\ kept[t] # Missing => look = kept[t]
      /\ ~loaded.shuffle => look = Missing
  BY <1>1, <1>2, StorageAssumption DEF AppearanceTypes
<1>4. /\ kept' \in [Tab -> RandomLook \cup {Missing}] /\ \A u \in Tab \ {t} : kept'[u] = kept[u]
      /\ kept' = kept \/ (works => kept'[t] = look)
  BY <1>1, <1>2, <1>3, KeepFacts
<1>5. look # Missing /\ works => kept'[t] = look
  BY <1>1, <1>2 DEF Keep, AppearanceTypes
<1>6. root \in Root /\ root # Missing
  <2>1. EffectiveLook(loaded, look).theme \in Theme
        /\ EffectiveLook(loaded, look).pattern \in Pattern \cup {Plain}
    BY <1>1, <1>3, LookTyped
  <2>2. root \in Root
    BY <1>1, <2>1, ApplyTyped
  <2> QED  BY <2>2, StorageAssumption
<1>7. works /\ stored # Broken /\ tab[t].read = <<stored, reduced>> => root = tab[t].root
  <2> SUFFICES ASSUME works, stored # Broken, tab[t].read = <<stored, reduced>> PROVE root = tab[t].root
    OBVIOUS
  <2>1. PICK raw \in Storage, rm \in BOOLEAN : PaintedFrom(tab[t], raw, rm, kept[t], works)
    BY <1>1 DEF AppearanceInv, PaintInv
  <2>2. raw = stored /\ rm = reduced
    BY <2>1 DEF PaintedFrom
  <2>3. /\ tab[t].root = ScriptRoot(stored, reduced, kept[t])
        /\ ScriptShuffles(stored) => kept[t] # Missing
    BY <2>1, <2>2 DEF PaintedFrom
  <2>4. ScriptShuffles(stored) => kept[t] \in RandomLook
    BY <1>1, <2>3 DEF AppearanceTypes
  <2>5. /\ loaded.shuffle <=> ScriptShuffles(stored)
        /\ ApplySettings(loaded, reduced, EffectiveLook(loaded, IF loaded.shuffle THEN kept[t] ELSE Missing))
             = ScriptRoot(stored, reduced, kept[t])
    BY <1>1, <2>4, ScriptAgrees DEF loaded
  <2>6. look = IF loaded.shuffle THEN kept[t] ELSE Missing
    BY <1>3, <2>3, <2>5
  <2> QED  BY <2>3, <2>5, <2>6
<1> HIDE DEF root
<1>8. /\ r \in TabRecord /\ r.pc = "ready" /\ r.settings = loaded /\ r.shuffled = look /\ r.root = root
  BY <1>1, <1>3, <1>6 DEF TabRecord
<1>9. tab' = [tab EXCEPT ![t] = r]
  BY <1>1, <1>2 DEF root
<1> HIDE DEF r
<1>10. TabReady(r, kept'[t], works)
  BY <1>3, <1>5, <1>6, <1>8 DEF TabReady
<1>11. UNCHANGED <<stored, works, reduced>> /\ alone' = alone \cup {t}
  BY DEF Mount
<1>12. works /\ t \in alone' /\ r.pc = "ready" => ParseSettings(stored') = r.settings
  BY <1>8, <1>11 DEF loaded
<1>13. AppearanceInv'
  BY <1>1, <1>4, <1>8, <1>9, <1>10, <1>11, <1>12, OneTabInv
<1>14. tab'[t].root = root
  BY <1>1, <1>8, <1>9
<1> QED  BY <1>7, <1>13, <1>14


-----------------------------------------------------------------------------
(* What the dialog changes                                                 *)

SETTING_FIELDS == LOOK_FIELDS \cup {"motion", "drifting", "rest", "shuffle"}

(* A patch whose fields have known values.                                 *)
Knows(patch) ==
    /\ DOMAIN patch \subseteq SETTING_FIELDS
    /\ "theme" \in DOMAIN patch => patch["theme"] \in Theme
    /\ "pattern" \in DOMAIN patch => patch["pattern"] \in Pattern \cup {Plain}
    /\ "drift" \in DOMAIN patch => patch["drift"] \in Drift
    /\ \A f \in {"motion", "drifting", "rest", "shuffle"} : f \in DOMAIN patch => patch[f] \in BOOLEAN

LEMMA PatchedFacts ==
    ASSUME NEW s \in Settings, NEW patch, Knows(patch)
    PROVE  /\ Patched(s, patch) \in Settings
           /\ \A f \in SETTING_FIELDS :
                 Patched(s, patch)[f] = IF f \in DOMAIN patch THEN patch[f] ELSE s[f]
<1>1. DOMAIN s = SETTING_FIELDS
  BY DEF Settings, SETTING_FIELDS, LOOK_FIELDS
<1> DEFINE n == Patched(s, patch)
<1>2. n = [f \in SETTING_FIELDS |-> IF f \in DOMAIN patch THEN patch[f] ELSE s[f]]
  BY <1>1 DEF Patched
<1>3. \A f \in SETTING_FIELDS : n[f] = IF f \in DOMAIN patch THEN patch[f] ELSE s[f]
  BY <1>2
<1>4. /\ n["theme"] \in Theme /\ n["pattern"] \in Pattern \cup {Plain} /\ n["drift"] \in Drift
      /\ n["motion"] \in BOOLEAN /\ n["drifting"] \in BOOLEAN /\ n["rest"] \in BOOLEAN
      /\ n["shuffle"] \in BOOLEAN
  BY <1>3 DEF Knows, Settings, SETTING_FIELDS, LOOK_FIELDS
<1>5. n = [theme |-> n["theme"], pattern |-> n["pattern"], drift |-> n["drift"],
           motion |-> n["motion"], drifting |-> n["drifting"], rest |-> n["rest"],
           shuffle |-> n["shuffle"]]
  BY <1>2 DEF SETTING_FIELDS, LOOK_FIELDS
<1> HIDE DEF n
<1>6. n \in Settings
  BY <1>4, <1>5 DEF Settings
<1> QED  BY <1>3, <1>6 DEF n

LEMMA LookFacts ==
    ASSUME NEW s \in Settings, NEW shuffled \in RandomLook \cup {Missing}
    PROVE  LET look == EffectiveLook(s, shuffled)
           IN DOMAIN look = LOOK_FIELDS /\ Knows(look)
<1>1. DOMAIN LookOf(s) = LOOK_FIELDS /\ Knows(LookOf(s))
  BY DEF LookOf, LOOK_FIELDS, SETTING_FIELDS, Knows, Settings
<1>2. ASSUME shuffled \in RandomLook PROVE DOMAIN shuffled = LOOK_FIELDS /\ Knows(shuffled)
  BY <1>2, GentleAssumption DEF RandomLook, LOOK_FIELDS, SETTING_FIELDS, Knows
<1> QED  BY <1>1, <1>2 DEF EffectiveLook

(* One field at a time.                                                    *)
LEMMA PatchFacts ==
    ASSUME NEW t \in Tab, tab[t] \in TabRecord, NEW patch \in Patches(t)
    PROVE  /\ Knows(patch)
           /\ \E f \in SETTING_FIELDS : DOMAIN patch = {f}
           /\ "shuffle" \in DOMAIN patch /\ patch["shuffle"] => ~tab[t].settings.shuffle
<1> DEFINE s == tab[t].settings
<1>1. s.drifting \in BOOLEAN /\ s.motion \in BOOLEAN /\ s.rest \in BOOLEAN /\ s.shuffle \in BOOLEAN
  BY DEF TabRecord, Settings
<1>2. \/ \E x \in Theme : patch = [theme |-> x]
      \/ \E x \in Pattern \cup {Plain} : patch = [pattern |-> x]
      \/ \E x \in Drift : patch = [drift |-> x]
      \/ \E x \in BOOLEAN : patch = [drifting |-> x]
      \/ \E x \in BOOLEAN : patch = [motion |-> x]
      \/ patch = [rest |-> ~s.rest]
      \/ patch = [shuffle |-> ~s.shuffle]
  BY <1>1 DEF Patches
<1>3. CASE \E x \in Theme : patch = [theme |-> x]
  BY <1>3 DEF Knows, SETTING_FIELDS, LOOK_FIELDS
<1>4. CASE \E x \in Pattern \cup {Plain} : patch = [pattern |-> x]
  BY <1>4 DEF Knows, SETTING_FIELDS, LOOK_FIELDS
<1>5. CASE \E x \in Drift : patch = [drift |-> x]
  BY <1>5 DEF Knows, SETTING_FIELDS, LOOK_FIELDS
<1>6. CASE \E x \in BOOLEAN : patch = [drifting |-> x]
  BY <1>6 DEF Knows, SETTING_FIELDS, LOOK_FIELDS
<1>7. CASE \E x \in BOOLEAN : patch = [motion |-> x]
  BY <1>7 DEF Knows, SETTING_FIELDS, LOOK_FIELDS
<1>8. CASE patch = [rest |-> ~s.rest]
  BY <1>8 DEF Knows, SETTING_FIELDS, LOOK_FIELDS
<1>9. CASE patch = [shuffle |-> ~s.shuffle]
  <2>1. PICK x \in BOOLEAN : x = ~s.shuffle
    BY <1>1
  <2>2. patch = [shuffle |-> x]
    BY <1>9, <2>1
  <2>3. patch["shuffle"] = x /\ (x => ~s.shuffle)
    BY <2>1, <2>2
  <2>4. Knows(patch) /\ \E f \in SETTING_FIELDS : DOMAIN patch = {f}
    BY <2>2 DEF Knows, SETTING_FIELDS, LOOK_FIELDS
  <2> QED  BY <2>3, <2>4
<1> QED  BY <1>2, <1>3, <1>4, <1>5, <1>6, <1>7, <1>8, <1>9


(* What is on screen stays but for the field that was picked, unless a     *)
(* random look is asked for.                                               *)
LEMMA NextFacts ==
    ASSUME NEW s \in Settings, NEW shuffled \in RandomLook \cup {Missing},
           s.shuffle => shuffled # Missing,
           NEW patch, Knows(patch), NEW f \in SETTING_FIELDS, DOMAIN patch = {f}
    PROVE  LET showing == EffectiveLook(s, shuffled)
               n == NextSettings(s, showing, patch)
               fresh == "shuffle" \in DOMAIN patch /\ patch.shuffle
           IN /\ n \in Settings
              /\ fresh => n.shuffle
              /\ ~fresh => /\ n.shuffle => s.shuffle
                           /\ \A g \in LOOK_FIELDS \ {f} : EffectiveLook(n, shuffled)[g] = showing[g]
<1> DEFINE showing == EffectiveLook(s, shuffled)
           n == NextSettings(s, showing, patch)
           fresh == "shuffle" \in DOMAIN patch /\ patch.shuffle
           leaving == s.shuffle /\ IF "shuffle" \in DOMAIN patch THEN ~patch.shuffle
                                   ELSE DOMAIN patch \cap LOOK_FIELDS # {}
           frozen == Patched(s, showing)
           picked == Patched(frozen, patch)
           plain == Patched(s, patch)
<1>1. n = IF leaving THEN [picked EXCEPT !.shuffle = FALSE] ELSE plain
  BY DEF NextSettings
<1>2. DOMAIN showing = LOOK_FIELDS /\ Knows(showing)
  BY LookFacts
<1>3. /\ frozen \in Settings
      /\ \A g \in SETTING_FIELDS : frozen[g] = IF g \in LOOK_FIELDS THEN showing[g] ELSE s[g]
  BY <1>2, PatchedFacts
<1>4. /\ picked \in Settings
      /\ \A g \in SETTING_FIELDS : picked[g] = IF g = f THEN patch[g] ELSE frozen[g]
  BY <1>3, PatchedFacts
<1>5. /\ plain \in Settings
      /\ \A g \in SETTING_FIELDS : plain[g] = IF g = f THEN patch[g] ELSE s[g]
  BY PatchedFacts
<1>6. \A g \in LOOK_FIELDS : LookOf(n)[g] = n[g] /\ LookOf(s)[g] = s[g]
  BY DEF LookOf
<1>7. LOOK_FIELDS \subseteq SETTING_FIELDS /\ "shuffle" \in SETTING_FIELDS /\ "shuffle" \notin LOOK_FIELDS
  BY DEF LOOK_FIELDS, SETTING_FIELDS
<1>8. s.shuffle \in BOOLEAN /\ ("shuffle" \in DOMAIN patch => patch["shuffle"] \in BOOLEAN)
  BY DEF Knows, Settings
<1>9. showing = IF s.shuffle THEN shuffled ELSE LookOf(s)
  BY DEF EffectiveLook
<1>10. EffectiveLook(n, shuffled) = IF n.shuffle /\ shuffled # Missing THEN shuffled ELSE LookOf(n)
  BY DEF EffectiveLook
<1> HIDE DEF showing, n, frozen, picked, plain
<1>11. CASE leaving
  <2>1. /\ n \in Settings /\ n.shuffle = FALSE
        /\ \A g \in LOOK_FIELDS : n[g] = picked[g]
    <3>1. n = [picked EXCEPT !.shuffle = FALSE]
      BY <1>1, <1>11
    <3>2. n \in Settings /\ n.shuffle = FALSE
      BY <1>4, <3>1 DEF Settings
    <3>3. n.theme = picked.theme /\ n.pattern = picked.pattern /\ n.drift = picked.drift
      BY <1>4, <3>1 DEF Settings
    <3> QED  BY <3>2, <3>3 DEF LOOK_FIELDS
  <2>2. \A g \in LOOK_FIELDS \ {f} : n[g] = showing[g]
    BY <1>3, <1>4, <1>7, <2>1
  <2>3. ~fresh
    BY <1>8, <1>11
  <2> QED  BY <1>6, <1>10, <2>1, <2>2, <2>3 DEF showing, n
<1>12. CASE ~leaving
  <2>1. n = plain /\ n \in Settings
    BY <1>1, <1>5, <1>12
  <2>2. n.shuffle = IF f = "shuffle" THEN patch["shuffle"] ELSE s.shuffle
    BY <1>5, <1>7, <2>1
  <2>3. fresh => n.shuffle
    BY <2>2
  <2>4. ASSUME ~fresh, s.shuffle PROVE n.shuffle /\ EffectiveLook(n, shuffled) = showing
    <3>1. f # "shuffle" /\ f \notin LOOK_FIELDS
      BY <1>8, <1>12, <2>4
    <3> QED  BY <1>9, <1>10, <2>2, <2>4, <3>1
  <2>5. ASSUME ~fresh, ~s.shuffle
        PROVE  ~n.shuffle /\ \A g \in LOOK_FIELDS \ {f} : EffectiveLook(n, shuffled)[g] = showing[g]
    <3>1. ~n.shuffle
      BY <2>2, <2>5
    <3> QED  BY <1>5, <1>6, <1>7, <1>9, <1>10, <2>1, <2>5, <3>1
  <2> QED  BY <1>8, <2>1, <2>3, <2>4, <2>5 DEF showing, n
<1> QED  BY <1>11, <1>12


(* One part of the look is picked, at most.                                *)
PicksOne(t) ==
    \E f \in LOOK_FIELDS : \A g \in LOOK_FIELDS \ {f} : Showing(t)'[g] = Showing(t)[g]

LEMMA ChooseStep ==
    ASSUME AppearanceInv, NEW t \in Tab, Choose(t)
    PROVE  /\ AppearanceInv'
           /\ \A u \in Tab \ {t} : tab'[u] = tab[u]
           /\ (tab'[t].settings.shuffle => tab[t].settings.shuffle) => PicksOne(t)
<1> DEFINE s == tab[t].settings
           shuffled == tab[t].shuffled
           showing == EffectiveLook(s, shuffled)
<1>1. /\ AppearanceTypes /\ stored \in Storage /\ reduced \in BOOLEAN /\ alone \subseteq Tab
      /\ tab \in [Tab -> TabRecord] /\ tab[t] \in TabRecord /\ tab[t].pc = "ready"
      /\ TabReady(tab[t], kept[t], works)
  BY DEF AppearanceInv, AppearanceTypes, ReadyInv, Choose
<1>2. PICK patch \in Patches(t) : Update(t, patch)
  BY DEF Choose
<1>3. PICK f \in SETTING_FIELDS : DOMAIN patch = {f}
  BY <1>1, PatchFacts
<1>4. Knows(patch) /\ ("shuffle" \in DOMAIN patch /\ patch["shuffle"] => ~s.shuffle)
  BY <1>1, PatchFacts
<1>5. s \in Settings /\ shuffled \in RandomLook \cup {Missing} /\ s.shuffle \in BOOLEAN
  BY <1>1 DEF TabRecord, Settings
<1>6. s.shuffle => shuffled # Missing /\ (works => kept[t] = shuffled)
  BY <1>1 DEF TabReady
<1> DEFINE n == NextSettings(s, showing, patch)
           fresh == "shuffle" \in DOMAIN patch /\ patch.shuffle
<1>7. PICK look \in IF fresh THEN RandomLook ELSE {shuffled} :
        /\ IF fresh THEN Keep(t, look) ELSE kept' = kept
        /\ tab' = [tab EXCEPT ![t].settings = n, ![t].shuffled = look,
                              ![t].root = ApplySettings(n, reduced, EffectiveLook(n, look))]
  BY <1>2 DEF Update, Showing
<1>8. /\ stored' = (IF works THEN n ELSE stored) /\ UNCHANGED <<works, reduced>>
      /\ alone' = IF stored' = stored THEN alone ELSE {t}
  BY <1>2 DEF Update, Showing
<1>9. /\ n \in Settings
      /\ fresh => n.shuffle
      /\ ~fresh => /\ n.shuffle => s.shuffle
                   /\ \A g \in LOOK_FIELDS \ {f} : EffectiveLook(n, shuffled)[g] = showing[g]
  BY <1>3, <1>4, <1>5, <1>6, NextFacts
<1> HIDE DEF n, showing, s, shuffled
<1>10. /\ look \in RandomLook \cup {Missing} /\ (fresh => look # Missing) /\ (~fresh => look = shuffled)
  BY <1>5, <1>7, StorageAssumption
<1>11. /\ kept' \in [Tab -> RandomLook \cup {Missing}] /\ \A u \in Tab \ {t} : kept'[u] = kept[u]
       /\ kept' = kept \/ (works => kept'[t] = look)
  BY <1>1, <1>7, <1>10, KeepFacts
<1>12. /\ fresh /\ works => kept'[t] = look
       /\ ~fresh => kept'[t] = kept[t]
  BY <1>1, <1>7 DEF Keep, AppearanceTypes
<1> DEFINE root == ApplySettings(n, reduced, EffectiveLook(n, look))
           r == [tab[t] EXCEPT !.settings = n, !.shuffled = look, !.root = root]
<1>13. root \in Root /\ root # Missing
  <2>1. EffectiveLook(n, look).theme \in Theme
        /\ EffectiveLook(n, look).pattern \in Pattern \cup {Plain}
    BY <1>9, <1>10, LookTyped
  <2>2. root \in Root
    BY <1>1, <1>9, <2>1, ApplyTyped
  <2> QED  BY <2>2, StorageAssumption
<1>14. tab' = [tab EXCEPT ![t] = r]
  BY <1>1, <1>7
<1> HIDE DEF root
<1>15. r \in TabRecord /\ r.pc = "ready" /\ r.settings = n /\ r.shuffled = look /\ r.root = root
  BY <1>1, <1>9, <1>10, <1>13 DEF TabRecord
<1> HIDE DEF r
<1>16. TabReady(r, kept'[t], works)
  BY <1>6, <1>9, <1>10, <1>12, <1>13, <1>15 DEF TabReady
<1>17. stored' \in Storage /\ (works => stored' = n /\ ParseSettings(stored') = r.settings)
  BY <1>1, <1>8, <1>9, <1>15, ParseKnown DEF Storage
<1>18. AppearanceInv'
  <2>1. alone' \subseteq alone \cup {t} /\ (stored' # stored => alone' \subseteq {t})
    BY <1>8
  <2>2. UNCHANGED <<works, reduced>>
    BY <1>8
  <2> QED  BY <1>11, <1>14, <1>15, <1>16, <1>17, <2>1, <2>2, OneTabInv
<1>19. tab'[t] = r /\ \A u \in Tab \ {t} : tab'[u] = tab[u]
  BY <1>1, <1>14
<1>20. ASSUME tab'[t].settings.shuffle => s.shuffle PROVE PicksOne(t)
  <2>1. ~fresh
    BY <1>4, <1>9, <1>15, <1>19, <1>20
  <2>2. \A g \in LOOK_FIELDS \ {f} : Showing(t)'[g] = Showing(t)[g]
    BY <1>9, <1>10, <1>15, <1>19, <2>1 DEF Showing, showing, s, shuffled
  <2>3. \E h \in LOOK_FIELDS : LOOK_FIELDS \ {h} \subseteq LOOK_FIELDS \ {f}
    BY DEF LOOK_FIELDS
  <2> QED  BY <2>2, <2>3 DEF PicksOne
<1> QED  BY <1>18, <1>19, <1>20 DEF s

LEMMA ReshuffleStep ==
    ASSUME AppearanceInv, NEW t \in Tab, Reshuffle(t)
    PROVE  AppearanceInv' /\ \A u \in Tab : tab'[u].settings = tab[u].settings
<1> DEFINE s == tab[t].settings
<1>1. /\ AppearanceTypes /\ stored \in Storage /\ reduced \in BOOLEAN
      /\ tab \in [Tab -> TabRecord] /\ tab[t] \in TabRecord /\ tab[t].pc = "ready" /\ s \in Settings
  BY DEF AppearanceInv, AppearanceTypes, Reshuffle, TabRecord
<1>2. PICK look \in RandomLook :
        /\ Keep(t, look)
        /\ tab' = [tab EXCEPT ![t].shuffled = look,
                              ![t].root = ApplySettings(s, reduced, EffectiveLook(s, look))]
  BY DEF Reshuffle
<1> DEFINE root == ApplySettings(s, reduced, EffectiveLook(s, look))
           r == [tab[t] EXCEPT !.shuffled = look, !.root = root]
<1>3. look # Missing
  BY StorageAssumption
<1>4. /\ kept' \in [Tab -> RandomLook \cup {Missing}] /\ \A u \in Tab \ {t} : kept'[u] = kept[u]
      /\ works => kept'[t] = look
  BY <1>1, <1>2 DEF Keep, AppearanceTypes
<1>5. root \in Root /\ root # Missing
  <2>1. EffectiveLook(s, look).theme \in Theme
        /\ EffectiveLook(s, look).pattern \in Pattern \cup {Plain}
    BY <1>1, LookTyped
  <2>2. root \in Root
    BY <1>1, <2>1, ApplyTyped
  <2> QED  BY <2>2, StorageAssumption
<1>6. tab' = [tab EXCEPT ![t] = r]
  BY <1>1, <1>2
<1> HIDE DEF root
<1>7. r \in TabRecord /\ r.pc = "ready" /\ r.settings = s /\ r.shuffled = look /\ r.root = root
  BY <1>1, <1>5 DEF TabRecord
<1> HIDE DEF r
<1>8. TabReady(r, kept'[t], works)
  BY <1>3, <1>4, <1>5, <1>7 DEF TabReady
<1>9. UNCHANGED <<stored, works, reduced>> /\ alone' = alone
  BY DEF Reshuffle
<1>10. works /\ t \in alone' /\ r.pc = "ready" => ParseSettings(stored') = r.settings
  BY <1>1, <1>7, <1>9 DEF AppearanceInv, AloneInv
<1>11. AppearanceInv'
  BY <1>1, <1>4, <1>6, <1>7, <1>8, <1>9, <1>10, OneTabInv
<1>12. \A u \in Tab : tab'[u].settings = tab[u].settings
  BY <1>1, <1>6, <1>7
<1> QED  BY <1>11, <1>12


LEMMA ReducedMotionStep ==
    ASSUME AppearanceInv, ReducedMotionChanges
    PROVE  /\ AppearanceInv'
           /\ \A u \in Tab : tab'[u].settings = tab[u].settings /\ tab'[u].pc = tab[u].pc
<1>1. /\ AppearanceTypes /\ PaintInv /\ ReadyInv /\ AloneInv
      /\ UNCHANGED <<stored, kept, works, alone>> /\ reduced' \in BOOLEAN
  BY DEF AppearanceInv, AppearanceTypes, ReducedMotionChanges
<1>2. ASSUME NEW u \in Tab
      PROVE  /\ tab'[u] \in TabRecord /\ tab'[u].pc = tab[u].pc
             /\ tab'[u].settings = tab[u].settings /\ tab'[u].shuffled = tab[u].shuffled
             /\ tab[u].pc # "ready" => tab'[u] = tab[u]
             /\ tab[u].pc = "ready" => tab'[u].root # Missing
  <2> DEFINE root == ApplySettings(tab[u].settings, reduced', Showing(u))
             r == [tab[u] EXCEPT !.root = root]
  <2>1. tab[u] \in TabRecord /\ tab[u].settings \in Settings /\ tab[u].shuffled \in RandomLook \cup {Missing}
    BY <1>1 DEF AppearanceTypes, TabRecord
  <2>2. tab'[u] = IF tab[u].pc # "ready" THEN tab[u] ELSE r
    BY DEF ReducedMotionChanges
  <2>3. root \in Root
    BY <1>1, <2>1, LookTyped, ApplyTyped DEF Showing
  <2> HIDE DEF root
  <2>4. /\ r \in TabRecord /\ r.pc = tab[u].pc /\ r.settings = tab[u].settings
        /\ r.shuffled = tab[u].shuffled /\ r.root = root
    BY <2>1, <2>3 DEF TabRecord
  <2> HIDE DEF r
  <2> QED  BY <2>1, <2>2, <2>3, <2>4, StorageAssumption
<1>3. AppearanceTypes'
  <2>1. tab' \in [Tab -> TabRecord]
    <3>1. tab' = [u \in Tab |-> tab'[u]]
      BY DEF ReducedMotionChanges
    <3> QED  BY <1>2, <3>1
  <2> QED  BY <1>1, <2>1 DEF AppearanceTypes, Storage
<1>4. PaintInv'
  <2> SUFFICES ASSUME NEW u \in Tab, tab'[u].pc = "painted"
               PROVE  \E raw \in Storage, rm \in BOOLEAN : PaintedFrom(tab'[u], raw, rm, kept'[u], works')
    BY DEF PaintInv
  <2> QED  BY <1>1, <1>2 DEF PaintInv
<1>5. ReadyInv'
  <2> SUFFICES ASSUME NEW u \in Tab PROVE TabReady(tab'[u], kept'[u], works')
    BY DEF ReadyInv
  <2> QED  BY <1>1, <1>2 DEF ReadyInv, TabReady
<1>6. AloneInv'
  <2> SUFFICES ASSUME works', NEW u \in alone', tab'[u].pc = "ready"
               PROVE  ParseSettings(stored') = tab'[u].settings
    BY DEF AloneInv
  <2> QED  BY <1>1, <1>2 DEF AloneInv, AppearanceTypes
<1> QED  BY <1>2, <1>3, <1>4, <1>5, <1>6 DEF AppearanceInv

LEMMA AppearanceInitInv == AppearanceInit => AppearanceInv
<1> SUFFICES ASSUME AppearanceInit PROVE AppearanceInv
  OBVIOUS
<1>1. AppearanceTypes
  BY ClosedFacts DEF AppearanceInit, AppearanceTypes, Storage
<1>2. PaintInv /\ ReadyInv /\ AloneInv
  BY ClosedFacts DEF AppearanceInit, PaintInv, ReadyInv, TabReady, AloneInv
<1> QED  BY <1>1, <1>2 DEF AppearanceInv

LEMMA AppearanceStep ==
    AppearanceInv /\ [AppearanceNext]_appearanceVars
      => AppearanceInv' /\ (TakesOver \/ UNCHANGED appearanceVars)
                        /\ (KeepsTheRest \/ UNCHANGED appearanceVars)
<1> SUFFICES ASSUME AppearanceInv, [AppearanceNext]_appearanceVars
             PROVE  /\ AppearanceInv' /\ (TakesOver \/ UNCHANGED appearanceVars)
                    /\ (KeepsTheRest \/ UNCHANGED appearanceVars)
  OBVIOUS
<1>0. AppearanceTypes /\ tab \in [Tab -> TabRecord]
  BY DEF AppearanceInv, AppearanceTypes
<1>1. CASE UNCHANGED appearanceVars
  <2>1. AppearanceInv'
    BY <1>1 DEF appearanceVars, AppearanceInv, AppearanceTypes, PaintInv, ReadyInv, AloneInv, Storage
  <2> QED  BY <1>1, <2>1
<1>2. CASE ReducedMotionChanges
  BY <1>2, ReducedMotionStep DEF TakesOver, KeepsTheRest
<1>3. ASSUME NEW t \in Tab, Paint(t) PROVE AppearanceInv' /\ TakesOver /\ KeepsTheRest
  <2>1. \A u \in Tab : tab'[u] = tab[u] \/ tab'[u].pc = "painted"
    BY <1>0, <1>3, ClosedFacts DEF Paint, TabRecord
  <2> QED  BY <1>3, <2>1, PaintStep DEF TakesOver, KeepsTheRest
<1>4. ASSUME NEW t \in Tab, Mount(t) PROVE AppearanceInv' /\ TakesOver /\ KeepsTheRest
  <2>1. \A u \in Tab \ {t} : tab'[u] = tab[u]
    BY <1>0, <1>4 DEF Mount
  <2>2. tab[t].pc = "painted"
    BY <1>4 DEF Mount
  <2> QED  BY <1>4, <2>1, <2>2, MountFacts DEF TakesOver, KeepsTheRest
<1>5. ASSUME NEW t \in Tab, Closes(t) PROVE AppearanceInv' /\ TakesOver /\ KeepsTheRest
  <2>1. \A u \in Tab : tab'[u] = tab[u] \/ tab'[u].pc = "closed"
    BY <1>0, <1>5, ClosedFacts DEF Closes
  <2> QED  BY <1>5, <2>1, ClosesStep DEF TakesOver, KeepsTheRest
<1>6. ASSUME NEW t \in Tab, Choose(t) PROVE AppearanceInv' /\ TakesOver /\ KeepsTheRest
  <2>1. tab[t].pc = "ready"
    BY <1>6 DEF Choose
  <2> QED  BY <1>6, <2>1, ChooseStep DEF TakesOver, KeepsTheRest, PicksOne
<1>7. ASSUME NEW t \in Tab, Reshuffle(t) PROVE AppearanceInv' /\ TakesOver /\ KeepsTheRest
  <2>1. \A u \in Tab \ {t} : tab'[u] = tab[u]
    BY <1>0, <1>7 DEF Reshuffle
  <2>2. tab[t].pc = "ready"
    BY <1>7 DEF Reshuffle
  <2> QED  BY <1>7, <2>1, <2>2, ReshuffleStep DEF TakesOver, KeepsTheRest
<1> QED  BY <1>1, <1>2, <1>3, <1>4, <1>5, <1>6, <1>7 DEF AppearanceNext

(* The inductive invariant holds in every behaviour.                       *)
THEOREM AppearanceInvariant == AppearanceSpec => []AppearanceInv
BY AppearanceInitInv, AppearanceStep, PTL DEF AppearanceSpec

(* Whatever was stored, what is in memory and on screen is of the known    *)
(* values (settings.ts, parseSettings and parseLook).                      *)
THEOREM AppearanceTypeCorrect == AppearanceSpec => []AppearanceTypeOK
BY AppearanceFacts, AppearanceInvariant, PTL

(* A reload shows what is on screen, the random look included              *)
(* (SettingsProvider.tsx; settings.ts, loadLook).                          *)
THEOREM ReloadKeepsLookTheorem == AppearanceSpec => []ReloadKeepsLook
BY AppearanceFacts, AppearanceInvariant, PTL

(* The provider takes over without a flash (settings.ts, NO_FLASH_SCRIPT   *)
(* against parseSettings and applySettings).                               *)
THEOREM FirstPaintIsFinalTheorem == AppearanceSpec => FirstPaintIsFinal
<1>1. AppearanceInv /\ [AppearanceNext]_appearanceVars => [TakesOver]_appearanceVars
  BY AppearanceStep
<1> QED  BY <1>1, AppearanceInvariant, PTL DEF AppearanceSpec, FirstPaintIsFinal

(* Picking one part of the look leaves the rest of it                      *)
(* (SettingsProvider.tsx, update).                                         *)
THEOREM PickKeepsTheRestTheorem == AppearanceSpec => PickKeepsTheRest
<1>1. AppearanceInv /\ [AppearanceNext]_appearanceVars => [KeepsTheRest]_appearanceVars
  BY AppearanceStep
<1> QED  BY <1>1, AppearanceInvariant, PTL DEF AppearanceSpec, PickKeepsTheRest


=============================================================================
