------------------------------ MODULE Settings ------------------------------
(***************************************************************************)
(* The settings, in the table and in force (save_settings,                 *)
(* save_advanced_config and reset_advanced_config in commands.rs; the      *)
(* runtime's copy in proxy.rs).  Load settings are written one by one; a   *)
(* save of the advanced ones reads them all, lays the patch over them and  *)
(* writes them all, and a reset deletes them all.  Some are in force as    *)
(* soon as they are saved, the port and the limits only after a restart.   *)
(***************************************************************************)
EXTENDS Naturals, FiniteSets

CONSTANTS
  Clients,     \* commands under way at a time
  Values,      \* what a setting may be
  Default,     \* what it is unless it was saved
  MaxCommands  \* bound: commands issued


LoadKeys == {"algorithm"}
PolicyKeys == {"policy", "auth"}
BootKeys == {"port", "limits"}
AdvancedKeys == PolicyKeys \union BootKeys
SettingKeys == LoadKeys \union AdvancedKeys

Unset == "unset"
Unheld == "unheld"

ASSUME SettingsAssumption ==
  /\ Default \in Values /\ Unset \notin Values
  /\ Unheld \notin Clients
  /\ MaxCommands \in Nat

VARIABLES
  stored,     \* the table, defaults included
  effective,  \* RuntimeSettings, the limits, and the address listened on
  guard,      \* settings_update_lock
  command,    \* the commands under way
  issued,     \* bound: commands issued
  wanted,     \* history: every setting as the last command that named it,
              \* and was stored, made it
  restartTold, \* history: a command since the last start asked for a restart
  torn        \* history: since then a reset failed behind its deletion

historyVars == << wanted, restartTold, torn >>
settingsVars == << stored, effective, guard, command, issued, historyVars >>

NoCommand == [pc |-> "idle", kind |-> "load", patch |-> [k \in SettingKeys |-> Unset],
         current |-> [k \in SettingKeys |-> Default]]

SettingsInit ==
  /\ stored = [k \in SettingKeys |-> Default]
  /\ effective = stored
  /\ guard = Unheld
  /\ command = [c \in Clients |-> NoCommand]
  /\ issued = 0
  /\ wanted = stored
  /\ restartTold = FALSE /\ torn = FALSE

\* A patch sets some of the keys.
Patches(keys) ==
  {patch \in [SettingKeys -> Values \union {Unset}] :
     /\ \E k \in keys : patch[k] # Unset
     /\ \A k \in SettingKeys \ keys : patch[k] = Unset}

Patched(settings, patch) ==
  [k \in SettingKeys |-> IF patch[k] = Unset THEN settings[k] ELSE patch[k]]

Reset(settings) ==
  [k \in SettingKeys |-> IF k \in AdvancedKeys THEN Default ELSE settings[k]]

-----------------------------------------------------------------------------
Issue(c) ==
  /\ command[c].pc = "idle"
  /\ issued < MaxCommands
  /\ issued' = issued + 1
  /\ \/ \E patch \in Patches(LoadKeys) :
          command' = [command EXCEPT ![c].pc = "called", ![c].kind = "load",
                                     ![c].patch = patch]
     \/ \E patch \in Patches(AdvancedKeys) :
          command' = [command EXCEPT ![c].pc = "called", ![c].kind = "save",
                                     ![c].patch = patch]
     \/ command' = [command EXCEPT ![c].pc = "called", ![c].kind = "reset"]
  /\ UNCHANGED << stored, effective, guard, historyVars >>

\* settings_update_guard
GuardFree == guard = Unheld

\* The guard is taken before the settings are read.
Take(c) ==
  /\ command[c].pc = "called"
  /\ GuardFree
  /\ guard' = c
  /\ command' = [command EXCEPT ![c].pc = "writing", ![c].current = stored]
  /\ UNCHANGED << stored, effective, issued, historyVars >>

\* The patch is refused or the transaction fails: the guard is dropped.
GiveBack(c) ==
  /\ command[c].pc = "writing"
  /\ command' = [command EXCEPT ![c] = NoCommand]
  /\ guard' = Unheld
  /\ UNCHANGED << stored, effective, issued, historyVars >>

\* Mutant: a save writes the defaults for what the patch does not name.
WrittenOverDefaults(c) ==
  Patched([k \in SettingKeys |-> IF k \in AdvancedKeys THEN Default ELSE stored[k]],
          command[c].patch)

\* What the command leaves in the table: load settings are written alone.
Written(c) ==
  CASE command[c].kind = "load"  -> Patched(stored, command[c].patch)
    [] command[c].kind = "save"  ->
         [k \in SettingKeys |-> IF k \in AdvancedKeys
                                THEN Patched(command[c].current,
                                             command[c].patch)[k]
                                ELSE stored[k]]
    [] command[c].kind = "reset" -> Reset(stored)

Write(c) ==
  /\ command[c].pc = "writing"
  /\ stored' = Written(c)
  /\ wanted' = IF command[c].kind = "reset" THEN Reset(wanted)
               ELSE Patched(wanted, command[c].patch)
  /\ command' = [command EXCEPT ![c].pc = "applying"]
  /\ UNCHANGED << effective, guard, issued, restartTold, torn >>

\* A reset reads the table again before it applies it, and that fails: the
\* settings are reset, the runtime's are not, and no restart is asked for.
FailToReload(c) ==
  /\ command[c].pc = "applying" /\ command[c].kind = "reset"
  /\ command' = [command EXCEPT ![c] = NoCommand]
  /\ guard' = Unheld
  /\ torn' = TRUE
  /\ UNCHANGED << stored, effective, issued, wanted, restartTold >>

\* Mutant: a save takes the defaults for what the patch does not name.
GivenAlone(c) ==
  Patched([k \in SettingKeys |-> Default], command[c].patch)

\* What update_load_settings or update_advanced_config is given.
Given(c) ==
  IF command[c].kind = "reset" THEN stored
  ELSE Patched(command[c].current, command[c].patch)

\* The algorithm is the runtime's own, whatever the advanced settings are.
KeysOf(kind) == IF kind = "load" THEN LoadKeys ELSE PolicyKeys

Apply(c) ==
  /\ command[c].pc = "applying"
  /\ effective' = [k \in SettingKeys |-> IF k \in KeysOf(command[c].kind)
                                         THEN Given(c)[k] ELSE effective[k]]
  /\ command' = [command EXCEPT ![c].pc = "answering"]
  /\ UNCHANGED << stored, guard, issued, historyVars >>

\* What this command changed of what is read at the start only.
ChangedAtBoot(c) == \E k \in BootKeys : command[c].current[k] # stored[k]

\* Mutant: the limits in force are looked at, and nothing else.
LimitsDiffer(c) == stored["limits"] # effective["limits"]

\* restart_required, or the limits in force are not the stored ones.  A save
\* of load settings says nothing of a restart.
RestartRequired(c) ==
  /\ command[c].kind # "load"
  /\ ChangedAtBoot(c) \/ stored["limits"] # effective["limits"]

Answer(c) ==
  /\ command[c].pc = "answering"
  /\ restartTold' = (restartTold \/ RestartRequired(c))
  /\ command' = [command EXCEPT ![c] = NoCommand]
  /\ guard' = Unheld
  /\ UNCHANGED << stored, effective, issued, wanted, torn >>

\* The program ends wherever it is and starts anew (AppState::bootstrap).
Restart ==
  /\ effective' = stored
  /\ guard' = Unheld
  /\ command' = [c \in Clients |-> NoCommand]
  /\ restartTold' = FALSE /\ torn' = FALSE
  /\ UNCHANGED << stored, issued, wanted >>

SettingsNext ==
  \/ \E c \in Clients :
       \/ Issue(c) \/ Take(c) \/ GiveBack(c) \/ Write(c)
       \/ FailToReload(c) \/ Apply(c) \/ Answer(c)
  \/ Restart

SettingsSpec == SettingsInit /\ [][SettingsNext]_settingsVars

-----------------------------------------------------------------------------
SettingsTypeOK ==
  /\ stored \in [SettingKeys -> Values]
  /\ effective \in [SettingKeys -> Values]
  /\ wanted \in [SettingKeys -> Values]
  /\ guard \in Clients \union {Unheld}
  /\ command \in [Clients ->
       [pc : {"idle", "called", "writing", "applying", "answering"},
        kind : {"load", "save", "reset"},
        patch : [SettingKeys -> Values \union {Unset}],
        current : [SettingKeys -> Values]]]
  /\ issued \in 0..MaxCommands
  /\ restartTold \in BOOLEAN /\ torn \in BOOLEAN

(* Each save of the advanced settings writes all of them, and each reaches *)
(* the runtime in a step of its own: with no save under way what is in     *)
(* force is what is stored, whichever saves, resets, refusals and restarts *)
(* there were, and in whatever order they came; a reset that failed half   *)
(* way excepted.                                                           *)
EffectiveFollowsStored ==
  guard = Unheld /\ ~torn =>
    \A k \in SettingKeys \ BootKeys : effective[k] = stored[k]

(* No save undoes what another one set: every setting is what the last     *)
(* command that named it, and was stored, made it.                         *)
NoSettingLost == stored = wanted

(* A command says whether a restart is due from what it changed itself and *)
(* from the limits in force: with no save under way, settings that wait    *)
(* for a restart have been announced by one of them since the start; a     *)
(* reset that failed half way excepted.                                    *)
RestartIsTold ==
  guard = Unheld /\ ~torn /\ (\E k \in BootKeys : effective[k] # stored[k])
    => restartTold

(* What the user set is stored, and in force or announced as waiting.      *)
SettingsAreKept == NoSettingLost /\ EffectiveFollowsStored /\ RestartIsTold
=============================================================================
