---------------------------- MODULE SettingsPage ----------------------------
(***************************************************************************)
(* The settings page: general settings, whose inputs are bound to the      *)
(* fetched values, and the webhook card, a form filled from them that is   *)
(* saved as a whole, key by key on the server, while other admins write,   *)
(* and handlers whose answer was lost.                                     *)
(***************************************************************************)
EXTENDS Integers

CONSTANTS
    KeyCount,       \* 4 keys of the webhook card, written in this order
    Values,
    SaveIds,        \* bound: handlers of the page's own saves at work together
    MaxEdits        \* bound: keys typed, saves, refetches, writes of others, failures

ASSUME SettingsAssumption == KeyCount \in Nat \ {0} /\ Values # {} /\ SaveIds # {}

VARIABLES
    stored,     \* the settings of the organization
    settings,   \* the data of the query, and its fetch
    inputs,     \* what the webhook card shows
    save,       \* the save the card waits for
    handler,    \* the handlers of saves: the values sent, and the keys written
    over,       \* keys somebody else wrote after this save did, or would
    edits

settingsVars == <<stored, settings, inputs, save, handler, over, edits>>

-----------------------------------------------------------------------------
Keys == 1 .. KeyCount
NoValues == <<>>
NoSave == [stage |-> "none", of |-> NoValues, id |-> CHOOSE i \in SaveIds : TRUE]
NoHandler == [of |-> NoValues, done |-> 0]
Loaded == settings.data # NoValues
Edited == edits < MaxEdits /\ edits' = edits + 1
FetchingAfresh(s) == [data |-> NoValues, stage |-> "asked", next |-> NoValues]
\* The data on view stays until the answer comes.
Fetching(s) == [s EXCEPT !.stage = "asked", !.next = NoValues]

\* A browser that is online again fetches what is stale.
Refetch ==
    /\ settings.stage = "idle" /\ Edited
    /\ settings' = Fetching(settings)
    /\ UNCHANGED <<stored, inputs, save, handler, over>>

GetAll ==
    /\ settings.stage = "asked"
    /\ \/ settings' = [settings EXCEPT !.stage = "answered", !.next = stored] /\ UNCHANGED edits
       \/ settings' = [settings EXCEPT !.stage = "idle"] /\ Edited
    /\ UNCHANGED <<stored, inputs, save, handler, over>>

\* Data that equals the old is the old: the effect that fills the form runs on
\* new data only, over what was typed.
Filled ==
    /\ settings.stage = "answered"
    /\ settings' = [data |-> settings.next, stage |-> "idle", next |-> NoValues]
    /\ inputs' = IF settings.next = settings.data THEN inputs ELSE settings.next
    /\ UNCHANGED <<stored, save, handler, over, edits>>

\* An input of the card.
Type(k) ==
    /\ Loaded /\ Edited
    /\ \E v \in Values : inputs' = [inputs EXCEPT ![k] = v]
    /\ UNCHANGED <<stored, settings, save, handler, over>>

\* A key stroke or a switch of the general settings sends PUT /settings/{key},
\* which no route takes: the input keeps the value that was fetched.
TypeGeneral ==
    /\ Loaded /\ Edited
    /\ UNCHANGED <<stored, settings, inputs, save, handler, over>>

Save(i) ==
    /\ Loaded /\ save.stage = "none" /\ handler[i] = NoHandler /\ Edited
    /\ save' = [stage |-> "sent", of |-> inputs, id |-> i]
    /\ handler' = [handler EXCEPT ![i] = [of |-> inputs, done |-> 0]]
    /\ over' = {}
    /\ UNCHANGED <<stored, settings, inputs>>

Awaited(i) == save.stage = "sent" /\ save.id = i
Writing(i) == handler[i] # NoHandler
NextKey(i) == handler[i].done + 1
\* The loop goes on, or the handler is done and answers.
GoOn(i) ==
    IF NextKey(i) < KeyCount
    THEN handler' = [handler EXCEPT ![i].done = @ + 1] /\ UNCHANGED save
    ELSE /\ handler' = [handler EXCEPT ![i] = NoHandler]
         /\ save' = IF Awaited(i) THEN [save EXCEPT !.stage = "ok"] ELSE save

\* repo.set commits each key by itself.
SetKey(i) ==
    /\ Writing(i) /\ GoOn(i)
    /\ stored' = [stored EXCEPT ![NextKey(i)] = handler[i].of[NextKey(i)]]
    /\ over' = IF Awaited(i) THEN over \ {NextKey(i)} ELSE over \cup {NextKey(i)}
    /\ UNCHANGED <<settings, inputs, edits>>

SkipKey(i) ==
    /\ Writing(i) /\ GoOn(i) /\ Edited
    /\ UNCHANGED <<stored, settings, inputs, over>>
\* A commit fails, and what was committed stays.
FailKey(i) ==
    /\ Writing(i) /\ Edited
    /\ handler' = [handler EXCEPT ![i] = NoHandler]
    /\ save' = IF Awaited(i) THEN [save EXCEPT !.stage = "error"] ELSE save
    /\ UNCHANGED <<stored, settings, inputs, over>>

\* The connection is lost, and the handler, if there still is one, goes on.
LoseSave ==
    /\ save.stage \in {"sent", "ok"} /\ Edited
    /\ save' = [save EXCEPT !.stage = "error"]
    /\ UNCHANGED <<stored, settings, inputs, handler, over>>

\* Only a save that succeeded fetches the settings anew.
SaveEnds ==
    /\ save.stage \in {"ok", "error"}
    /\ save' = NoSave
    /\ settings' = IF save.stage = "ok" THEN Fetching(settings) ELSE settings
    /\ UNCHANGED <<stored, inputs, handler, over, edits>>

OtherAdmin(k) ==
    /\ Edited
    /\ \E v \in Values : stored' = [stored EXCEPT ![k] = v]
    /\ over' = over \cup {k}
    /\ UNCHANGED <<settings, inputs, save, handler>>

SettingsInit ==
    /\ stored \in [Keys -> Values]
    /\ settings = Fetching([data |-> NoValues, stage |-> "idle", next |-> NoValues])
    /\ inputs = NoValues
    /\ save = NoSave
    /\ handler = [i \in SaveIds |-> NoHandler] /\ over = {}
    /\ edits = 0

SettingsNext ==
    \/ Refetch \/ GetAll \/ Filled \/ TypeGeneral \/ LoseSave \/ SaveEnds
    \/ \E i \in SaveIds : Save(i) \/ SetKey(i) \/ FailKey(i)
    \/ \E k \in Keys : Type(k) \/ OtherAdmin(k)

SettingsSpec == SettingsInit /\ [][SettingsNext]_settingsVars

-----------------------------------------------------------------------------
(* Properties.                                                             *)

\* Every variable has its type, and the form is there with the data.
SettingsTypeOK ==
    /\ stored \in [Keys -> Values] /\ over \subseteq Keys
    /\ {settings.data, settings.next, inputs, save.of} \subseteq [Keys -> Values] \cup {NoValues}
    /\ (inputs # NoValues) = Loaded
    /\ save.id \in SaveIds /\ (save.stage # "none" => save.of # NoValues)
    /\ \A i \in SaveIds :
         Writing(i) => handler[i].of \in [Keys -> Values] /\ handler[i].done \in 0 .. KeyCount - 1

\* "Webhook settings saved" means that every key has the value that was on the form
\* at the click, unless another admin, or the handler of an earlier save whose answer
\* was lost, wrote it after: a key that could not be stored is never passed over
\* (save, settings/page.tsx; the loop of update_settings).
SavedAsClicked ==
    save.stage = "ok" => \A k \in Keys \ over : stored[k] = save.of[k]

=============================================================================
