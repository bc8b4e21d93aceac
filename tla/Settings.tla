------------------------------ MODULE Settings ------------------------------
(***************************************************************************)
(* settings.toml and the API key: AppSettings of config/mod.rs, the secret  *)
(* store of secrets.rs, the settings dialog and save_settings of            *)
(* settings.rs, the theme rows of pages/plugins.rs and what build_ui reads  *)
(* of them when the program starts.                                         *)
(*                                                                          *)
(* All of it runs on the GTK thread, so a handler meets no other handler,   *)
(* but the program can stop between its steps.  A save is atomic: the file  *)
(* is written under another name and renamed.  Of the settings there are    *)
(* the theme, one path that stands for all other rows, and the legacy key.  *)
(* The build has its default features, the secret store among them.         *)
(***************************************************************************)
EXTENDS Naturals

CONSTANTS
  UserThemes,    \* the ids of themes in the themes directory
  Paths,         \* values of the other rows
  Keys, OldKey,  \* API keys; the one an earlier version wrote to the file
  MaxActs,       \* bound on what the user does
  Unset, Absent, Broken

ASSUME SettingsAssumption ==
  /\ OldKey \in Keys /\ MaxActs \in Nat
  /\ Unset \notin Paths \cup Keys /\ Absent # Broken

DialogThemes == {"auto", "dark"}
PageThemes == {"nord"} \cup UserThemes
Themes == DialogThemes \cup PageThemes
AllSettings == [theme : Themes, path : Paths \cup {Unset}, legacy : Keys \cup {Unset}]
Default == [theme |-> "auto", path |-> Unset, legacy |-> Unset]

\* A user theme is saved as custom:<id>, so none is taken for a built-in one.
ASSUME ThemesAssumption == UserThemes \cap (DialogThemes \cup {"nord"}) = {}
ASSUME FileAssumption == \A x \in {Unset, Absent, Broken} : x \notin AllSettings

VARIABLES
  file,       \* settings.toml
  keyring,    \* the key in the secret store
  themes,     \* the user themes on disk
  themeRows,  \* those the theme page has a row of, which captures the style
  running,
  applied,    \* the theme the window has
  dialog,     \* the settings the open dialog shares among its rows
  todo,       \* what the handler has still to save, and which choice it is of
  chosen,     \* of each row the values the user must reckon with
  acts

settings == <<file, keyring, themes, themeRows, running, applied, dialog, todo, chosen>>

NoSave == [why |-> "nothing", what |-> Default]

SettingsInit ==
  /\ file \in {Absent, Broken, [Default EXCEPT !.legacy = OldKey]}
  /\ keyring = Unset /\ themes = UserThemes /\ themeRows = {} /\ running = FALSE
  /\ applied = "auto" /\ dialog = Unset /\ todo = NoSave
  /\ chosen = [theme |-> {"auto"}, path |-> {Unset},
               key |-> {IF file \in {Absent, Broken} THEN Unset ELSE OldKey}]
  /\ acts = 0

\* AppSettings::load_or_default, and unwrap_or_default of every caller but one.
Loaded == IF file \in {Absent, Broken} THEN Default ELSE file

\* get_nexus_api_key, else the legacy key.
ApiKey == IF keyring # Unset THEN keyring ELSE Loaded.legacy

\* A theme whose file is gone looks like the default.
Look(t) == IF t \in UserThemes \ themes THEN "auto" ELSE t

Start ==
  /\ ~ running /\ running' = TRUE
  /\ applied' = Look(Loaded.theme) /\ themeRows' = themes
  /\ UNCHANGED <<file, keyring, themes, dialog, todo, chosen, acts>>

Free == running /\ todo = NoSave
User == Free /\ acts < MaxActs /\ acts' = acts + 1
Save(why, what) == todo' = [why |-> why, what |-> what]

\* From the choice on the user may meet the new value or, if it is not saved, an
\* earlier one.
Choose(row, value) == chosen' = [chosen EXCEPT ![row] = @ \cup {value}]

\* The Apply buttons of the theme rows, also of a row whose theme is gone: nothing
\* is saved to a broken file.
ApplyTheme(t) ==
  /\ User /\ dialog = Unset /\ t \in {"nord"} \cup themeRows
  /\ applied' = t /\ Choose("theme", t)
  /\ IF file = Broken THEN UNCHANGED todo
     ELSE Save("theme", [Loaded EXCEPT !.theme = t])
  /\ UNCHANGED <<file, keyring, themes, themeRows, running, dialog>>

\* delete_theme_files, of a row: the saved theme falls back to the default.
DeleteTheme(t) ==
  /\ User /\ dialog = Unset /\ t \in themeRows
  /\ themes' \in {themes, themes \ {t}}
  /\ IF file # Broken /\ Loaded.theme = t
       THEN /\ Save("theme", [Loaded EXCEPT !.theme = "auto"])
            /\ applied' = "auto" /\ Choose("theme", "auto")
       ELSE UNCHANGED <<todo, applied, chosen>>
  /\ UNCHANGED <<file, keyring, themeRows, running, dialog>>

\* The page is built anew, from a snapshot that may be older than a deletion.
ShowThemes ==
  /\ Free /\ themeRows # themes
  /\ \E rows \in SUBSET themeRows : themes \subseteq rows /\ themeRows' = rows
  /\ UNCHANGED <<file, keyring, themes, running, applied, dialog, todo, chosen, acts>>

(***************************************************************************)
(* The dialog, which is modal.                                              *)
(***************************************************************************)
OpenDialog ==
  /\ User /\ dialog = Unset
  /\ dialog' = Loaded
  /\ IF Loaded.legacy = Unset THEN UNCHANGED todo
     ELSE Save("move", [Loaded EXCEPT !.legacy = Unset])
  /\ UNCHANGED <<file, keyring, themes, themeRows, running, applied, chosen>>

\* Mutant of MoveKey: the file is cleared although the store has refused.
MoveKeyAnyway ==
  /\ todo.why = "move"
  /\ keyring' \in {keyring, dialog.legacy} /\ todo' = [todo EXCEPT !.why = "clear"]
  /\ UNCHANGED <<file, themes, themeRows, running, applied, dialog, chosen, acts>>

\* migrate_key_from_toml: first the secret store, which may refuse.
MoveKey ==
  /\ todo.why = "move"
  /\ \/ keyring' = dialog.legacy /\ todo' = [todo EXCEPT !.why = "clear"]
     \/ todo' = NoSave /\ UNCHANGED keyring
  /\ UNCHANGED <<file, themes, themeRows, running, applied, dialog, chosen, acts>>

Saving == todo.why \notin {"nothing", "move"}

\* Then the file, and when that is done the copy in the dialog.  What the save was
\* for is in force from now on.
Saved ==
  /\ Saving /\ file' = todo.what /\ todo' = NoSave
  /\ dialog' = IF todo.why = "clear" THEN [dialog EXCEPT !.legacy = Unset] ELSE dialog
  /\ chosen' = [row \in DOMAIN chosen |->
       IF row # todo.why THEN chosen[row]
       ELSE {IF row = "key" THEN keyring ELSE todo.what[row]}]
  /\ UNCHANGED <<keyring, themes, themeRows, running, applied, acts>>

\* save_settings logs the error and goes on.
SaveFails ==
  /\ Saving /\ todo' = NoSave
  /\ UNCHANGED <<file, keyring, themes, themeRows, running, applied, dialog, chosen, acts>>

ChangeTheme(t) ==
  /\ User /\ dialog # Unset
  /\ dialog' = [dialog EXCEPT !.theme = t] /\ Save("theme", dialog')
  /\ applied' = t /\ Choose("theme", t)
  /\ UNCHANGED <<file, keyring, themes, themeRows, running>>

ChangePath(p) ==
  /\ User /\ dialog # Unset
  /\ dialog' = [dialog EXCEPT !.path = p] /\ Save("path", dialog')
  /\ Choose("path", p)
  /\ UNCHANGED <<file, keyring, themes, themeRows, running, applied>>

\* The legacy key goes, whether or not the secret store has taken the new one: a
\* user whose key is refused may be left with none.  What the store has taken is
\* the key, but a legacy key still in the file will be moved over it if it stays.
ApplyKey(k) ==
  /\ User /\ dialog # Unset
  /\ dialog' = [dialog EXCEPT !.legacy = Unset]
  /\ \/ /\ keyring' = k /\ Save("key", dialog')
        /\ chosen' = [chosen EXCEPT !.key = {k} \cup ({Loaded.legacy} \ {Unset})]
     \/ /\ Save("rest", dialog') /\ Choose("key", Unset)
        /\ UNCHANGED keyring
  /\ UNCHANGED <<file, themes, themeRows, running, applied>>

CloseDialog ==
  /\ Free /\ dialog # Unset /\ dialog' = Unset
  /\ UNCHANGED <<file, keyring, themes, themeRows, running, applied, todo, chosen, acts>>

\* The program ends, in the middle of a handler too.
Quit ==
  /\ running /\ running' = FALSE
  /\ dialog' = Unset /\ todo' = NoSave /\ themeRows' = {}
  /\ UNCHANGED <<file, keyring, themes, applied, chosen, acts>>

SettingsNext ==
  \/ Start \/ Quit \/ OpenDialog \/ MoveKey \/ Saved \/ SaveFails \/ CloseDialog
  \/ ShowThemes
  \/ \E t \in PageThemes : ApplyTheme(t)
  \/ \E t \in UserThemes : DeleteTheme(t)
  \/ \E t \in DialogThemes : ChangeTheme(t)
  \/ \E p \in Paths \cup {Unset} : ChangePath(p)
  \/ \E k \in Keys : ApplyKey(k)

SettingsSpec == SettingsInit /\ [][SettingsNext]_<<settings, acts>>

-----------------------------------------------------------------------------
SettingsTypeOK ==
  /\ file \in AllSettings \cup {Absent, Broken} /\ keyring \in Keys \cup {Unset}
  /\ themes \subseteq UserThemes /\ themeRows \subseteq UserThemes /\ applied \in Themes
  /\ dialog \in AllSettings \cup {Unset} /\ todo.what \in AllSettings
  /\ chosen \in [theme : SUBSET Themes, path : SUBSET (Paths \cup {Unset}),
                 key : SUBSET (Keys \cup {Unset})]
  /\ acts \in 0 .. MaxActs

\* The key the program would use now is one the user must reckon with: the one
\* given last, or an earlier one while the file has not taken the change.  At no
\* moment is it gone, whatever step of the move to the secret store fails and
\* wherever in it the program ends.
KeyIsUsers == ApiKey \in chosen.key

\* The dialog, the theme page and the move of the key all write the whole file:
\* none undoes what another has saved, and a save that fails or never comes
\* leaves one of the values chosen since the last that was saved.
OthersKept == Loaded.theme \in chosen.theme /\ Loaded.path \in chosen.path

\* The window looks like a theme that was chosen, or like the default when the file
\* of that theme is gone.
LooksAsSaved ==
  running => applied \in chosen.theme \cup {Look(t) : t \in chosen.theme}

\* What the user has set last is in force: the theme, the path, the look, the key.
SettingsKept == SettingsTypeOK /\ OthersKept /\ LooksAsSaved /\ KeyIsUsers
=============================================================================
