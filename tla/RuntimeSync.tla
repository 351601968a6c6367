---------------------------- MODULE RuntimeSync ----------------------------
(***************************************************************************)
(* The runtime state the engine enforces (block list, allow list, mode,    *)
(* built-in and custom rules) is a copy, in the memory of one process, of  *)
(* tables that admin handlers write.  RuntimeSyncService.sync_once makes   *)
(* the copy.  It is run at start-up, by a periodic loop and at the end of  *)
(* most admin handlers, without a lock: every await in it is a point where *)
(* another task may run.  The model has one step per database statement    *)
(* and one per publication into memory.                                    *)
(***************************************************************************)
EXTENDS Naturals, FiniteSets

CONSTANTS
    Orgs,         \* organizations
    DefaultOrg,   \* the row named "Default Organization"
    NoOrg,        \* the empty default-organization cache
    Ips,          \* addresses
    Names,        \* names of rules; unique per organization
    Builtins,     \* the names in BUILTIN_RULES
    Handlers,     \* admin requests that may be in flight together
    Sys,          \* the start-up task, later the periodic loop
    BootMode,     \* WAF_MODE of the environment
    Ops,          \* kinds of admin operation this instance performs
    ModeValues,   \* values an admin may store under waf_mode
    Duration,     \* lifetime of a temporary block, in ticks
    MaxTime, MaxWrites, MaxFaults, MaxRestarts   \* bounds of the model

ValidModes == {"detection", "prevention"}
OpKinds == {"block", "unblock", "allow", "disallow", "mode", "settings",
            "createRule", "setRule", "renameRule", "deleteRule"}

ASSUME DefaultOrgAssumption == DefaultOrg \in Orgs /\ NoOrg \notin Orgs
ASSUME RulesAssumption == Builtins \subseteq Names
ASSUME TasksAssumption == Sys \notin Handlers
ASSUME ModeAssumption ==
    BootMode \in ValidModes /\ ModeValues \subseteq ValidModes \cup {"other"}
ASSUME OpsAssumption == Ops \subseteq OpKinds
ASSUME BoundsAssumption ==
    /\ Duration \in Nat \ {0}
    /\ MaxTime \in Nat /\ MaxWrites \in Nat
    /\ MaxFaults \in Nat /\ MaxRestarts \in Nat

VARIABLES
    blockRows,   \* table blocked_ips, by organization and address
    allowRows,   \* table allowed_ips, by organization
    modeRow,     \* table waf_settings, key waf_mode, by organization
    ruleRows,    \* table rules, by organization and name
    now,         \* the clock
    blockedMem,  \* BlockList.BLOCKED_IPS
    allowedMem,  \* AllowList.ALLOWED_IPS without the constant "::1"
    modeMem,     \* waf_mode
    builtinMem,  \* builtin_rules: "unknown" is a name the dict lacks
    customMem,   \* custom_rules: names of the compiled rules
    orgCache,    \* tenant_service._default_org_id
    phase,       \* "starting" until the startup event has returned
    loopOn,      \* runtime_sync.start() has been called
    task,        \* where each task is and its local variables
    writes, faults, restarts,   \* budget spent so far
    \* History variables, for the properties only:
    seen,        \* the values of Target since the process began
    allowsSeen,  \* the values of the default organization's allow list since
    modesSeen,   \* the values of its mode row since
    customsSeen  \* the values of CustomTarget since

db == <<blockRows, allowRows, modeRow, ruleRows>>
mem == <<blockedMem, allowedMem, modeMem, builtinMem, customMem>>
ctl == <<phase, loopOn>>
budget == <<writes, faults, restarts>>
history == <<seen, allowsSeen, modesSeen, customsSeen>>
vars == <<db, now, mem, orgCache, ctl, task, budget, history>>

-----------------------------------------------------------------------------
(* Rows.                                                                   *)

Absent == [kind |-> "absent", until |-> 0]
Permanent == [kind |-> "permanent", until |-> 0]
NoExpiry == [kind |-> "unexpiring", until |-> 0]  \* temporary, no expires_at
Until(t) == [kind |-> "until", until |-> t]
BlockRow == [kind : {"absent", "permanent", "unexpiring", "until"}, until : Nat]

\* What sync_once puts into the block list.
Enforceable(row, t) ==
    \/ row.kind = "permanent"
    \/ row.kind = "until" /\ row.until > t

Expired(row, t) == row.kind = "until" /\ row.until <= t

ModeRow == ValidModes \cup {"other", "unset"}   \* "unset": no row

RuleRow == [kind : {"absent", "builtin", "custom"},
            on : BOOLEAN,
            regex : BOOLEAN]        \* the pattern is not empty and compiles
NoRule == [kind |-> "absent", on |-> FALSE, regex |-> FALSE]
SeededRule == [kind |-> "builtin", on |-> TRUE, regex |-> FALSE]

RuleState == {"unknown", "on", "off"}
BuiltinState(row) ==
    IF row.kind # "builtin" THEN "unknown" ELSE IF row.on THEN "on" ELSE "off"

\* The lists of the default organization as the tables have them now.
Target == {ip \in Ips : Enforceable(blockRows[DefaultOrg][ip], now)}
BuiltinTarget == [n \in Names |-> BuiltinState(ruleRows[DefaultOrg][n])]
CustomTarget == {n \in Names : LET r == ruleRows[DefaultOrg][n]
                               IN  r.kind = "custom" /\ r.on /\ r.regex}

-----------------------------------------------------------------------------
(* Tasks.                                                                  *)

Tasks == Handlers \cup {Sys}
Stages == {"idle", "setMode", "audit", "resolve", "blocked", "allowed", "mode",
           "publishMode", "builtin", "seed", "reread", "publishBuiltin",
           "custom", "publishCustom", "apply", "select", "delete"}
\* The statements inside the try block of sync_once.
TryStages == {"blocked", "allowed", "mode", "builtin", "seed", "reread", "custom"}

Unknown == [n \in Names |-> "unknown"]
IdleTask == [at |-> "idle", org |-> NoOrg, mode |-> "unset",
             blocked |-> {}, allowed |-> {}, builtin |-> Unknown,
             custom |-> {}, expired |-> {}]
TaskType == [at : Stages, org : Orgs \cup {NoOrg},
             mode : ModeRow,
             blocked : SUBSET Ips, allowed : SUBSET Ips,
             builtin : [Names -> RuleState], custom : SUBSET Names,
             expired : SUBSET (Ips \X BlockRow)]

Put(t, r) == task' = [task EXCEPT ![t] = r]
Goto(t, stage) == Put(t, [task[t] EXCEPT !.at = stage])

\* sync_once asks for the default organization first; a cached answer costs
\* no statement.
PassStart == IF orgCache = NoOrg THEN "resolve" ELSE "blocked"
BeginPass(t) == Put(t, [IdleTask EXCEPT !.at = PassStart])

\* sync_once returned: a handler answers, the startup event goes on to start
\* the loop, the loop sleeps.
Finish(t) ==
    /\ Put(t, IdleTask)
    /\ IF t = Sys /\ phase = "starting"
       THEN phase' = "serving" /\ loopOn' = TRUE
       ELSE UNCHANGED ctl

\* sync_once raised: a handler answers 500, the startup event skips start(),
\* the loop prints the error and sleeps.
Raise(t) ==
    /\ Put(t, IdleTask)
    /\ IF t = Sys /\ phase = "starting"
       THEN phase' = "serving" /\ UNCHANGED loopOn
       ELSE UNCHANGED ctl

SpendFault == faults < MaxFaults /\ faults' = faults + 1 /\ UNCHANGED <<writes, restarts>>

-----------------------------------------------------------------------------
(* One pass of sync_once.                                                  *)

Resolve(t) ==
    /\ task[t].at = "resolve"
    /\ orgCache' = DefaultOrg
    /\ Goto(t, "blocked")
    /\ UNCHANGED <<db, now, mem, ctl, budget>>

\* get_default_org_id fails open to None and the pass is skipped.
ResolveFails(t) ==
    /\ task[t].at = "resolve"
    /\ SpendFault
    /\ Finish(t)
    /\ UNCHANGED <<db, now, mem, orgCache>>

KeepBlocked(t, ips) ==
    /\ task[t].at = "blocked"
    /\ Put(t, [task[t] EXCEPT !.at = "allowed", !.blocked = ips])
    /\ UNCHANGED <<db, now, allowedMem, modeMem, builtinMem, customMem,
                   orgCache, ctl, budget>>

\* Mutants: no test of the expiry; no test of the organization; the list in
\* memory is emptied first.
ReadBlockedNoExpiry(t) ==
    /\ KeepBlocked(t, {ip \in Ips : blockRows[DefaultOrg][ip] # Absent})
    /\ UNCHANGED blockedMem
ReadBlockedAnyOrg(t) ==
    /\ KeepBlocked(t, {ip \in Ips : \E o \in Orgs : Enforceable(blockRows[o][ip], now)})
    /\ UNCHANGED blockedMem
ReadBlockedClearing(t) == KeepBlocked(t, Target) /\ blockedMem' = {}

ReadBlocked(t) == KeepBlocked(t, Target) /\ UNCHANGED blockedMem

ReadAllowed(t) ==
    /\ task[t].at = "allowed"
    /\ Put(t, [task[t] EXCEPT !.at = "mode", !.allowed = allowRows[DefaultOrg]])
    /\ UNCHANGED <<db, now, mem, orgCache, ctl, budget>>

ReadMode(t) ==
    /\ task[t].at = "mode"
    /\ Put(t, [task[t] EXCEPT !.at = "publishMode", !.mode = modeRow[DefaultOrg]])
    /\ UNCHANGED <<db, now, mem, orgCache, ctl, budget>>

\* WAFMode.set ignores what is not a mode.
ModeAfterSet(m) == IF m \in ValidModes THEN m ELSE modeMem

LeaveMode(t, mode) ==
    /\ task[t].at = "publishMode"
    /\ modeMem' = mode
    /\ Goto(t, "builtin")
    /\ UNCHANGED <<db, now, blockedMem, allowedMem, builtinMem, customMem,
                   orgCache, ctl, budget>>

\* Mutants: no test of the value; a change towards prevention only.
PublishModeUnchecked(t) == LeaveMode(t, task[t].mode)
PublishModeUpOnly(t) ==
    LeaveMode(t, IF task[t].mode = "prevention" THEN task[t].mode ELSE modeMem)

PublishMode(t) == LeaveMode(t, ModeAfterSet(task[t].mode))

ReadBuiltin(t) ==
    /\ task[t].at = "builtin"
    /\ Put(t, [task[t] EXCEPT !.at = "seed", !.builtin = BuiltinTarget])
    /\ UNCHANGED <<db, now, mem, orgCache, ctl, budget>>

Missing(t) == {n \in Builtins : task[t].builtin[n] = "unknown"}
\* uq_rules_organization_name: the names to seed that some row now holds.
Conflicts(t) == {n \in Missing(t) : ruleRows[DefaultOrg][n].kind # "absent"}

\* The commit of the seeded rows.
Seed(t) ==
    /\ task[t].at = "seed"
    /\ Conflicts(t) = {}
    /\ ruleRows' = [ruleRows EXCEPT ![DefaultOrg] =
                      [n \in Names |-> IF n \in Missing(t) THEN SeededRule ELSE @[n]]]
    /\ Goto(t, "reread")
    /\ UNCHANGED <<blockRows, allowRows, modeRow, now, mem, orgCache, ctl, budget>>

\* The unique constraint refuses a seeded row: the pass leaves the try block.
SeedConflict(t) ==
    /\ task[t].at = "seed"
    /\ Conflicts(t) # {}
    /\ Goto(t, "apply")
    /\ UNCHANGED <<db, now, mem, orgCache, ctl, budget>>

\* The session keeps the rows of the first read (expire_on_commit=False), so
\* the second read adds only the rows this pass seeded.
Reread(t) ==
    /\ task[t].at = "reread"
    /\ Put(t, [task[t] EXCEPT !.at = "publishBuiltin", !.builtin =
              [n \in Names |-> IF n \in Missing(t) THEN BuiltinTarget[n] ELSE @[n]]])
    /\ UNCHANGED <<db, now, mem, orgCache, ctl, budget>>

PublishBuiltin(t) ==
    /\ task[t].at = "publishBuiltin"
    /\ builtinMem' = task[t].builtin
    /\ Goto(t, "custom")
    /\ UNCHANGED <<db, now, blockedMem, allowedMem, modeMem, customMem,
                   orgCache, ctl, budget>>

ReadCustom(t) ==
    /\ task[t].at = "custom"
    /\ Put(t, [task[t] EXCEPT !.at = "publishCustom", !.custom = CustomTarget])
    /\ UNCHANGED <<db, now, mem, orgCache, ctl, budget>>

LoadCustom(t, rules) ==
    /\ task[t].at = "publishCustom"
    /\ customMem' = rules
    /\ Goto(t, "apply")
    /\ UNCHANGED <<db, now, blockedMem, allowedMem, modeMem, builtinMem,
                   orgCache, ctl, budget>>

\* Mutant: adds to the loaded rules instead of replacing them.
PublishCustomAdding(t) == LoadCustom(t, customMem \cup task[t].custom)

PublishCustom(t) == LoadCustom(t, task[t].custom)

\* A statement of the try block fails: what was read so far is published.
StatementFails(t) ==
    /\ task[t].at \in TryStages
    /\ SpendFault
    /\ Goto(t, "apply")
    /\ UNCHANGED <<db, now, mem, orgCache, ctl>>

SetLists(t, blocked, allowed) ==
    /\ task[t].at = "apply"
    /\ blockedMem' = blocked
    /\ allowedMem' = allowed
    /\ Goto(t, "select")
    /\ UNCHANGED <<db, now, modeMem, builtinMem, customMem, orgCache, ctl, budget>>

\* Mutant: adds to the lists instead of replacing them.
ApplyAdding(t) ==
    SetLists(t, blockedMem \cup task[t].blocked, allowedMem \cup task[t].allowed)

Apply(t) == SetLists(t, task[t].blocked, task[t].allowed)

\* _purge_expired: select, then delete by primary key and commit.
SelectExpired(t) ==
    LET rows == blockRows[DefaultOrg]
        expired == {<<ip, rows[ip]>> : ip \in {i \in Ips : Expired(rows[i], now)}}
    IN  /\ task[t].at = "select"
        /\ IF expired = {}
           THEN Finish(t)
           ELSE /\ Put(t, [task[t] EXCEPT !.at = "delete", !.expired = expired])
                /\ UNCHANGED ctl
        /\ UNCHANGED <<db, now, mem, orgCache, budget>>

DeleteRows(t, ips) ==
    /\ task[t].at = "delete"
    /\ blockRows' = [blockRows EXCEPT ![DefaultOrg] =
                       [ip \in Ips |-> IF ip \in ips THEN Absent ELSE @[ip]]]
    /\ Finish(t)
    /\ UNCHANGED <<allowRows, modeRow, ruleRows, now, mem, orgCache, budget>>

\* Mutant: deletes by address instead of by row.
DeleteByAddress(t) == DeleteRows(t, {ip \in Ips : \E e \in task[t].expired : e[1] = ip})

\* A row added since the select is another row.
DeleteExpired(t) ==
    DeleteRows(t, {ip \in Ips : <<ip, blockRows[DefaultOrg][ip]>> \in task[t].expired})

\* The purge has no try block of its own.
PurgeFails(t) ==
    /\ task[t].at \in {"select", "delete"}
    /\ SpendFault
    /\ Raise(t)
    /\ UNCHANGED <<db, now, mem, orgCache>>

PassStep(t) ==
    \/ Resolve(t) \/ ReadBlocked(t) \/ ReadAllowed(t) \/ ReadMode(t)
    \/ PublishMode(t) \/ ReadBuiltin(t) \/ Seed(t) \/ SeedConflict(t)
    \/ Reread(t) \/ PublishBuiltin(t) \/ ReadCustom(t) \/ PublishCustom(t)
    \/ Apply(t) \/ SelectExpired(t) \/ DeleteExpired(t)

PassFault(t) == ResolveFails(t) \/ StatementFails(t) \/ PurgeFails(t)

\* _run_loop: the sleep is over.
LoopWakes ==
    /\ loopOn /\ task[Sys].at = "idle"
    /\ BeginPass(Sys)
    /\ UNCHANGED <<db, now, mem, orgCache, ctl, budget>>

-----------------------------------------------------------------------------
(* Admin handlers.  The first step is the commit of the operation; a       *)
(* request the handler refuses (409, 404, 400, a unique-constraint error)  *)
(* changes nothing and is left out.                                        *)

Commit(h, op) ==
    /\ op \in Ops
    /\ phase = "serving" /\ task[h].at = "idle"
    /\ writes < MaxWrites
    /\ writes' = writes + 1
    /\ UNCHANGED <<now, mem, orgCache, ctl, faults, restarts>>

AddBlocked(h, o, ip, row) ==
    /\ Commit(h, "block")
    /\ blockRows[o][ip] = Absent
    /\ blockRows' = [blockRows EXCEPT ![o][ip] = row]
    /\ Goto(h, "audit")
    /\ UNCHANGED <<allowRows, modeRow, ruleRows>>

RemoveBlocked(h, o, ip) ==
    /\ Commit(h, "unblock")
    /\ blockRows[o][ip] # Absent
    /\ blockRows' = [blockRows EXCEPT ![o][ip] = Absent]
    /\ Goto(h, "audit")
    /\ UNCHANGED <<allowRows, modeRow, ruleRows>>

AddAllowed(h, o, ip) ==
    /\ Commit(h, "allow")
    /\ ip \notin allowRows[o]
    /\ allowRows' = [allowRows EXCEPT ![o] = @ \cup {ip}]
    /\ Goto(h, "audit")
    /\ UNCHANGED <<blockRows, modeRow, ruleRows>>

RemoveAllowed(h, o, ip) ==
    /\ Commit(h, "disallow")
    /\ ip \in allowRows[o]
    /\ allowRows' = [allowRows EXCEPT ![o] = @ \ {ip}]
    /\ Goto(h, "audit")
    /\ UNCHANGED <<blockRows, modeRow, ruleRows>>

CreateRule(h, o, n, on, regex) ==
    /\ Commit(h, "createRule")
    /\ ruleRows[o][n].kind = "absent"
    /\ ruleRows' = [ruleRows EXCEPT ![o][n] =
                      [kind |-> "custom", on |-> on, regex |-> regex]]
    /\ Goto(h, "audit")
    /\ UNCHANGED <<blockRows, allowRows, modeRow>>

\* update_rule with enabled or a pattern, and toggle_rule, whose new value
\* is the negation of a value read in an earlier statement.
SetRule(h, o, n, on, regex) ==
    /\ Commit(h, "setRule")
    /\ ruleRows[o][n].kind # "absent"
    /\ ruleRows' = [ruleRows EXCEPT ![o][n] =
                      [kind |-> ruleRows[o][n].kind, on |-> on, regex |-> regex]]
    /\ Goto(h, "audit")
    /\ UNCHANGED <<blockRows, allowRows, modeRow>>

\* update_rule with a name; built-in rows are not exempt.
RenameRule(h, o, n, m) ==
    /\ Commit(h, "renameRule")
    /\ ruleRows[o][n].kind # "absent" /\ ruleRows[o][m].kind = "absent"
    /\ ruleRows' = [ruleRows EXCEPT ![o][m] = ruleRows[o][n], ![o][n] = NoRule]
    /\ Goto(h, "audit")
    /\ UNCHANGED <<blockRows, allowRows, modeRow>>

DeleteRule(h, o, n) ==
    /\ Commit(h, "deleteRule")
    /\ ruleRows[o][n].kind = "custom"
    /\ ruleRows' = [ruleRows EXCEPT ![o][n] = NoRule]
    /\ Goto(h, "audit")
    /\ UNCHANGED <<blockRows, allowRows, modeRow>>

\* update_settings stores any value, and neither publishes it nor syncs.
UpdateSettings(h, o, value) ==
    /\ Commit(h, "settings")
    /\ modeRow' = [modeRow EXCEPT ![o] = value]
    /\ UNCHANGED <<blockRows, allowRows, ruleRows, task>>

\* update_mode stores the mode, then publishes it itself.
UpdateMode(h, o, m) ==
    /\ Commit(h, "mode")
    /\ modeRow' = [modeRow EXCEPT ![o] = m]
    /\ Put(h, [IdleTask EXCEPT !.at = "setMode", !.org = o, !.mode = m])
    /\ UNCHANGED <<blockRows, allowRows, ruleRows>>

EndUpdateMode(h, mode) ==
    /\ task[h].at = "setMode"
    /\ orgCache' = DefaultOrg
    /\ modeMem' = mode
    /\ Put(h, IdleTask)
    /\ UNCHANGED <<db, now, blockedMem, allowedMem, builtinMem, customMem, ctl, budget>>

\* Mutant: no comparison of the organizations.
SetModeMemAnyOrg(h) == EndUpdateMode(h, ModeAfterSet(task[h].mode))

SetModeMem(h) ==
    EndUpdateMode(h, IF task[h].org = DefaultOrg THEN ModeAfterSet(task[h].mode) ELSE modeMem)

\* The default organization was not cached and cannot be read.
SetModeFails(h) ==
    /\ task[h].at = "setMode"
    /\ orgCache = NoOrg
    /\ SpendFault
    /\ Put(h, IdleTask)
    /\ UNCHANGED <<db, now, mem, orgCache, ctl>>

\* The audit row is written in a session of its own, then sync_once runs.
Audit(h) ==
    /\ task[h].at = "audit"
    /\ BeginPass(h)
    /\ UNCHANGED <<db, now, mem, orgCache, ctl, budget>>

\* Its failure skips the sync of an operation that is already committed.
AuditFails(h) ==
    /\ task[h].at = "audit"
    /\ SpendFault
    /\ Put(h, IdleTask)
    /\ UNCHANGED <<db, now, mem, orgCache, ctl>>

Request(h) == \E o \in Orgs :
    \/ \E ip \in Ips :
         \/ \E row \in {Permanent, NoExpiry, Until(now + Duration)} : AddBlocked(h, o, ip, row)
         \/ RemoveBlocked(h, o, ip)
         \/ AddAllowed(h, o, ip)
         \/ RemoveAllowed(h, o, ip)
    \/ \E n \in Names :
         \/ \E on, regex \in BOOLEAN : CreateRule(h, o, n, on, regex)
         \/ \E on, regex \in BOOLEAN : SetRule(h, o, n, on, regex)
         \/ \E m \in Names : RenameRule(h, o, n, m)
         \/ DeleteRule(h, o, n)
    \/ \E m \in ModeValues : UpdateSettings(h, o, m)
    \/ \E m \in ValidModes : UpdateMode(h, o, m)

HandlerStep(h) == SetModeMem(h) \/ Audit(h)
HandlerFault(h) == SetModeFails(h) \/ AuditFails(h)

-----------------------------------------------------------------------------

Tick ==
    /\ now < MaxTime
    /\ now' = now + 1
    /\ UNCHANGED <<db, mem, orgCache, ctl, task, budget>>

BootTasks ==
    [t \in Tasks |-> IF t = Sys THEN [IdleTask EXCEPT !.at = "resolve"] ELSE IdleTask]

Init ==
    /\ blockRows \in [Orgs -> [Ips -> {Absent, Permanent, Until(Duration)}]]
    /\ allowRows = [o \in Orgs |-> {}]
    /\ modeRow = [o \in Orgs |-> "unset"]
    /\ ruleRows = [o \in Orgs |-> [n \in Names |-> NoRule]]
    /\ now = 0
    /\ blockedMem = {} /\ allowedMem = {} /\ modeMem = BootMode
    /\ builtinMem = Unknown /\ customMem = {}
    /\ orgCache = NoOrg /\ phase = "starting" /\ loopOn = FALSE
    /\ task = BootTasks
    /\ writes = 0 /\ faults = 0 /\ restarts = 0
    /\ seen = {Target} /\ allowsSeen = {allowRows[DefaultOrg]}
    /\ modesSeen = {modeRow[DefaultOrg]} /\ customsSeen = {CustomTarget}

\* The process dies anywhere and starts again; only the tables survive.
Restart ==
    /\ restarts < MaxRestarts
    /\ restarts' = restarts + 1
    /\ blockedMem' = {} /\ allowedMem' = {} /\ modeMem' = BootMode
    /\ builtinMem' = Unknown /\ customMem' = {}
    /\ orgCache' = NoOrg /\ phase' = "starting" /\ loopOn' = FALSE
    /\ task' = BootTasks
    /\ seen' = {Target} /\ allowsSeen' = {allowRows[DefaultOrg]}
    /\ modesSeen' = {modeRow[DefaultOrg]} /\ customsSeen' = {CustomTarget}
    /\ UNCHANGED <<db, now, writes, faults>>

SysStep == LoopWakes \/ PassStep(Sys)
HandlerRuns(h) == HandlerStep(h) \/ PassStep(h)

Step ==
    \/ SysStep \/ PassFault(Sys) \/ Tick
    \/ \E h \in Handlers :
         Request(h) \/ HandlerRuns(h) \/ HandlerFault(h) \/ PassFault(h)

History ==
    /\ seen' = seen \cup {Target'}
    /\ allowsSeen' = allowsSeen \cup {allowRows'[DefaultOrg]}
    /\ modesSeen' = modesSeen \cup {modeRow'[DefaultOrg]}
    /\ customsSeen' = customsSeen \cup {CustomTarget'}

Next == (Step /\ History) \/ Restart

\* Tasks that have begun go on, the loop wakes up and time passes; no
\* request, failure or crash has to happen.
Fairness ==
    /\ WF_vars(SysStep /\ History)
    /\ \A h \in Handlers : WF_vars(HandlerRuns(h) /\ History)
    /\ WF_vars(Tick /\ History)

Spec == Init /\ [][Next]_vars
FairSpec == Spec /\ Fairness

-----------------------------------------------------------------------------
(* Properties.                                                             *)

TypeTables ==
    /\ blockRows \in [Orgs -> [Ips -> BlockRow]]
    /\ allowRows \in [Orgs -> SUBSET Ips]
    /\ modeRow \in [Orgs -> ModeRow]
    /\ ruleRows \in [Orgs -> [Names -> RuleRow]]
    /\ now \in Nat
TypeMemory ==
    /\ blockedMem \in SUBSET Ips /\ allowedMem \in SUBSET Ips
    /\ modeMem \in ValidModes
    /\ builtinMem \in [Names -> RuleState] /\ customMem \in SUBSET Names
    /\ orgCache \in {NoOrg, DefaultOrg}
TypeControl ==
    /\ phase \in {"starting", "serving"} /\ loopOn \in BOOLEAN
    /\ task \in [Tasks -> TaskType]
    /\ writes \in Nat /\ faults \in Nat /\ restarts \in Nat
TypeHistory ==
    /\ seen \in SUBSET SUBSET Ips /\ allowsSeen \in SUBSET SUBSET Ips
    /\ customsSeen \in SUBSET SUBSET Names
    /\ modesSeen \in SUBSET ModeRow

TypeOK == TypeTables /\ TypeMemory /\ TypeControl /\ TypeHistory

\* An enforced address was blocked in the default organization's table at
\* some moment since the process started: sync_once invents no entry, mixes
\* no other organization's rows in, and keeps none across a restart.
NoStrayBlock == \A ip \in blockedMem : \E s \in seen : ip \in s

\* While no statement has failed, an address whose row has been in force ever
\* since the process started is enforced in every state that serves traffic:
\* no interleaving of the passes, however stale, opens a gap.
SteadyBlockEnforced ==
    phase = "serving" /\ faults = 0 =>
        \A ip \in Ips : (\A s \in seen : ip \in s) => ip \in blockedMem

\* The mode the engine runs in is the boot mode or one the default
\* organization stored: update_mode and sync_once ignore the mode other
\* organizations store for themselves.
ModeFromDefaultOrg == modeMem \in modesSeen \cup {BootMode}

\* What the purge removes has expired, whatever happened to the address
\* between its select and its delete.
PurgeRemovesOnlyExpired ==
    [][writes' = writes =>
         \A ip \in Ips :
            blockRows'[DefaultOrg][ip] # blockRows[DefaultOrg][ip] =>
                Expired(blockRows[DefaultOrg][ip], now)]_vars

\* Once requests, failures and time stop, and if the loop was started, the
\* lists in memory are those of the tables, stale passes notwithstanding.
ListsConverge ==
    <>[]loopOn => <>[](blockedMem = Target /\ allowedMem = allowRows[DefaultOrg])

\* Likewise the mode, when the stored value is a mode.
ModeConverges ==
    <>[]loopOn => <>[](modeRow[DefaultOrg] \in ValidModes => modeMem = modeRow[DefaultOrg])

\* No row that is not built-in holds a name the seeding needs.
NamesFree == \A n \in Builtins : ruleRows[DefaultOrg][n].kind # "custom"

\* Likewise the rules, as long as no custom rule takes a detector's name.
RulesConverge ==
    <>[]loopOn => <>[](NamesFree => /\ builtinMem = BuiltinTarget
                                    /\ customMem = CustomTarget)

-----------------------------------------------------------------------------
(* RuntimeSync as an implementation of CopyPromise, four times over.  A    *)
(* failing statement makes a pass apply empty lists; it empties neither    *)
(* the mode nor the custom rules.  (The states of the built-in rules are   *)
(* put together from two reads, and are no copy of one moment.)            *)

Blocks == INSTANCE CopyPromise WITH
    Blank <- {}, table <- Target, copy <- blockedMem, past <- seen,
    failed <- faults > 0, restarts <- restarts
Allows == INSTANCE CopyPromise WITH
    Blank <- {}, table <- allowRows[DefaultOrg], copy <- allowedMem, past <- allowsSeen,
    failed <- faults > 0, restarts <- restarts
Modes == INSTANCE CopyPromise WITH
    Blank <- BootMode, table <- modeRow[DefaultOrg], copy <- modeMem, past <- modesSeen,
    failed <- FALSE, restarts <- restarts
Customs == INSTANCE CopyPromise WITH
    Blank <- {}, table <- CustomTarget, copy <- customMem, past <- customsSeen,
    failed <- FALSE, restarts <- restarts

\* Block list, allow list, mode and custom rules are each, in every state, what
\* the default organization's table held at one moment since the process began,
\* or what the process began with:
\* passes that overlap mix no two states of a table, no other organization's rows
\* come in, and a list is emptied only by a restart or a failing statement
\* (sync_once, BlockList, AllowList, WAFMode.set, custom_rules.load).
HoldsCopies ==
    Blocks!CopySpec /\ Allows!CopySpec /\ Modes!CopySpec /\ Customs!CopySpec

=============================================================================
