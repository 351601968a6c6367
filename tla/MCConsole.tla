----------------------------- MODULE MCConsole -----------------------------
(***************************************************************************)
(* The console with one of its pages open: a list, a playground, the       *)
(* two-factor card or the settings.  A page that is not open has one       *)
(* initial state, in which nothing happens.                                *)
(***************************************************************************)
EXTENDS AdminLists, Playgrounds, SecondFactor, SettingsPage

CONSTANT OpenPages
VARIABLE open

consoleVars == <<open, listVars, playVars, factorVars, settingsVars>>

ConsoleInit ==
    /\ open \in OpenPages
    /\ ListInit /\ (open # "list" => list = "rules" /\ rows = [r \in Rows |-> "never"])
    /\ PlayInit /\ (open # "playground" => site = "public")
    /\ FactorInit
    /\ SettingsInit /\ (open # "settings" => stored = [k \in Keys |-> CHOOSE v \in Values : TRUE])

ConsoleNext ==
    /\ UNCHANGED open
    /\ \/ open = "list" /\ ListNext /\ UNCHANGED <<playVars, factorVars, settingsVars>>
       \/ open = "playground" /\ PlayNext /\ UNCHANGED <<listVars, factorVars, settingsVars>>
       \/ open = "profile" /\ FactorNext /\ UNCHANGED <<listVars, playVars, settingsVars>>
       \/ open = "settings" /\ SettingsNext /\ UNCHANGED <<listVars, playVars, factorVars>>

ConsoleSpec == ConsoleInit /\ [][ConsoleNext]_consoleVars /\ ListFairness
=============================================================================
