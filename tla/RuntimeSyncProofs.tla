------------------------- MODULE RuntimeSyncProofs -------------------------
(* Theorems about RuntimeSync for every value of its constants. *)
EXTENDS RuntimeSync, TLAPS

USE DefaultOrgAssumption, RulesAssumption, TasksAssumption, ModeAssumption, BoundsAssumption

-----------------------------------------------------------------------------
(* Type correctness.                                                       *)

LEMMA IdleTaskType == IdleTask \in TaskType
BY DEF IdleTask, TaskType, Stages, Unknown, RuleState, ModeRow

LEMMA PutType ==
    ASSUME task \in [Tasks -> TaskType], NEW t \in Tasks, NEW r \in TaskType, Put(t, r)
    PROVE  task' \in [Tasks -> TaskType]
BY DEF Put

\* The locals that the steps of a pass replace.
LEMMA AtType ==
    ASSUME NEW r \in TaskType, NEW s \in Stages
    PROVE  [r EXCEPT !.at = s] \in TaskType
BY DEF TaskType

LEMMA BlockedType ==
    ASSUME NEW r \in TaskType, NEW s \in Stages, NEW v \in SUBSET Ips
    PROVE  [r EXCEPT !.at = s, !.blocked = v] \in TaskType
BY DEF TaskType

LEMMA AllowedType ==
    ASSUME NEW r \in TaskType, NEW s \in Stages, NEW v \in SUBSET Ips
    PROVE  [r EXCEPT !.at = s, !.allowed = v] \in TaskType
BY DEF TaskType

LEMMA ModeType ==
    ASSUME NEW r \in TaskType, NEW s \in Stages, NEW v \in ModeRow
    PROVE  [r EXCEPT !.at = s, !.mode = v] \in TaskType
BY DEF TaskType

LEMMA BuiltinType ==
    ASSUME NEW r \in TaskType, NEW s \in Stages, NEW v \in [Names -> RuleState]
    PROVE  [r EXCEPT !.at = s, !.builtin = v] \in TaskType
BY DEF TaskType

LEMMA CustomType ==
    ASSUME NEW r \in TaskType, NEW s \in Stages, NEW v \in SUBSET Names
    PROVE  [r EXCEPT !.at = s, !.custom = v] \in TaskType
BY DEF TaskType

LEMMA ExpiredType ==
    ASSUME NEW r \in TaskType, NEW s \in Stages, NEW v \in SUBSET (Ips \X BlockRow)
    PROVE  [r EXCEPT !.at = s, !.expired = v] \in TaskType
BY DEF TaskType

LEMMA GotoType ==
    ASSUME task \in [Tasks -> TaskType], NEW t \in Tasks, NEW s \in Stages, Goto(t, s)
    PROVE  task' \in [Tasks -> TaskType]
BY AtType, PutType DEF Goto

LEMMA BeginPassType ==
    ASSUME task \in [Tasks -> TaskType], NEW t \in Tasks, BeginPass(t)
    PROVE  task' \in [Tasks -> TaskType]
<1>1. [IdleTask EXCEPT !.at = PassStart] \in TaskType
  BY IdleTaskType DEF PassStart, TaskType, Stages
<1> QED  BY <1>1, PutType DEF BeginPass

LEMMA EndType ==
    ASSUME TypeControl, NEW t \in Tasks, Finish(t) \/ Raise(t)
    PROVE  /\ task' \in [Tasks -> TaskType]
           /\ phase' \in {"starting", "serving"} /\ loopOn' \in BOOLEAN
<1>1. task' \in [Tasks -> TaskType]
  BY IdleTaskType, PutType DEF Finish, Raise, TypeControl
<1> QED  BY <1>1 DEF Finish, Raise, ctl, TypeControl

LEMMA TargetTypes ==
    /\ Target \in SUBSET Ips
    /\ CustomTarget \in SUBSET Names
    /\ BuiltinTarget \in [Names -> RuleState]
BY DEF Target, CustomTarget, BuiltinTarget, BuiltinState, RuleState

LEMMA InitType == Init => TypeOK
<1> SUFFICES ASSUME Init PROVE TypeOK
  OBVIOUS
<1>1. TypeTables
  BY DEF Init, TypeTables, BlockRow, Absent, Permanent, Until, RuleRow, NoRule, ModeRow
<1>2. TypeMemory
  BY DEF Init, TypeMemory, RuleState, Unknown
<1>3. TypeControl
  <2>1. [IdleTask EXCEPT !.at = "resolve"] \in TaskType
    BY IdleTaskType DEF TaskType, Stages
  <2> QED  BY <2>1, IdleTaskType DEF Init, TypeControl, BootTasks
<1>4. TypeHistory
  BY <1>1, TargetTypes DEF Init, TypeHistory, TypeTables
<1> QED  BY <1>1, <1>2, <1>3, <1>4 DEF TypeOK

\* A step of sync_once and the failure of one.
LEMMA PassType ==
    ASSUME TypeTables, TypeMemory, TypeControl, NEW t \in Tasks,
           PassStep(t) \/ PassFault(t)
    PROVE  TypeTables' /\ TypeMemory' /\ TypeControl'
<1> USE TargetTypes DEF TypeTables, TypeMemory, TypeControl, db, mem, ctl, budget
<1>1. CASE Resolve(t)
  BY <1>1, GotoType DEF Resolve, Stages
<1>2. CASE ReadBlocked(t)
  <2>1. [task[t] EXCEPT !.at = "allowed", !.blocked = Target] \in TaskType
    BY BlockedType DEF Stages
  <2> QED  BY <1>2, <2>1, PutType DEF ReadBlocked, KeepBlocked
<1>3. CASE ReadAllowed(t)
  <2>1. [task[t] EXCEPT !.at = "mode", !.allowed = allowRows[DefaultOrg]] \in TaskType
    BY AllowedType DEF Stages
  <2> QED  BY <1>3, <2>1, PutType DEF ReadAllowed
<1>4. CASE ReadMode(t)
  <2>1. [task[t] EXCEPT !.at = "publishMode", !.mode = modeRow[DefaultOrg]] \in TaskType
    BY ModeType DEF Stages
  <2> QED  BY <1>4, <2>1, PutType DEF ReadMode
<1>5. CASE PublishMode(t)
  BY <1>5, GotoType DEF PublishMode, LeaveMode, ModeAfterSet, Stages
<1>6. CASE ReadBuiltin(t)
  <2>1. [task[t] EXCEPT !.at = "seed", !.builtin = BuiltinTarget] \in TaskType
    BY BuiltinType DEF Stages
  <2> QED  BY <1>6, <2>1, PutType DEF ReadBuiltin
<1>7. CASE Seed(t)
  <2>1. ruleRows' \in [Orgs -> [Names -> RuleRow]]
    BY <1>7 DEF Seed, SeededRule, RuleRow
  <2> QED  BY <1>7, <2>1, GotoType DEF Seed, Stages
<1>8. CASE SeedConflict(t)
  BY <1>8, GotoType DEF SeedConflict, Stages
<1>9. CASE Reread(t)
  <2> DEFINE b == [n \in Names |-> IF n \in Missing(t) THEN BuiltinTarget[n]
                                                      ELSE task[t].builtin[n]]
  <2>1. b \in [Names -> RuleState]
    BY DEF TaskType
  <2>2. [task[t] EXCEPT !.at = "publishBuiltin", !.builtin = b] \in TaskType
    BY <2>1, BuiltinType DEF Stages
  <2> QED  BY <1>9, <2>2, PutType DEF Reread
<1>10. CASE PublishBuiltin(t)
  BY <1>10, GotoType DEF PublishBuiltin, Stages, TaskType
<1>11. CASE ReadCustom(t)
  <2>1. [task[t] EXCEPT !.at = "publishCustom", !.custom = CustomTarget] \in TaskType
    BY CustomType DEF Stages
  <2> QED  BY <1>11, <2>1, PutType DEF ReadCustom
<1>12. CASE PublishCustom(t)
  BY <1>12, GotoType DEF PublishCustom, LoadCustom, Stages, TaskType
<1>13. CASE Apply(t)
  BY <1>13, GotoType DEF Apply, SetLists, Stages, TaskType
<1>14. CASE SelectExpired(t)
  <2> DEFINE rows == blockRows[DefaultOrg]
             expired == {<<ip, rows[ip]>> : ip \in {i \in Ips : Expired(rows[i], now)}}
  <2>1. expired \in SUBSET (Ips \X BlockRow)
    OBVIOUS
  <2>2. [task[t] EXCEPT !.at = "delete", !.expired = expired] \in TaskType
    BY <2>1, ExpiredType DEF Stages
  <2> QED  BY <1>14, <2>2, PutType, EndType DEF SelectExpired
<1>15. CASE DeleteExpired(t)
  <2>1. blockRows' \in [Orgs -> [Ips -> BlockRow]]
    BY <1>15 DEF DeleteExpired, DeleteRows, BlockRow, Absent
  <2> QED  BY <1>15, <2>1, EndType DEF DeleteExpired, DeleteRows
<1>16. CASE ResolveFails(t)
  BY <1>16, EndType DEF ResolveFails, SpendFault
<1>17. CASE StatementFails(t)
  BY <1>17, GotoType DEF StatementFails, SpendFault, Stages
<1>18. CASE PurgeFails(t)
  BY <1>18, EndType DEF PurgeFails, SpendFault
<1> QED
  BY <1>1, <1>2, <1>3, <1>4, <1>5, <1>6, <1>7, <1>8, <1>9, <1>10, <1>11, <1>12,
     <1>13, <1>14, <1>15, <1>16, <1>17, <1>18 DEF PassStep, PassFault

\* The steps of a request other than its pass.
LEMMA HandlerType ==
    ASSUME TypeTables, TypeMemory, TypeControl, NEW h \in Handlers,
           Request(h) \/ HandlerStep(h) \/ HandlerFault(h)
    PROVE  TypeTables' /\ TypeMemory' /\ TypeControl'
<1> h \in Tasks
  BY DEF Tasks
<1> USE DEF TypeTables, TypeMemory, TypeControl, db, mem, ctl, budget
<1>1. ASSUME NEW o \in Orgs, NEW ip \in Ips,
             NEW row \in {Permanent, NoExpiry, Until(now + Duration)}, AddBlocked(h, o, ip, row)
      PROVE  TypeTables' /\ TypeMemory' /\ TypeControl'
  <2>1. row \in BlockRow
    BY DEF BlockRow, Permanent, NoExpiry, Until
  <2>2. blockRows' \in [Orgs -> [Ips -> BlockRow]]
    BY <1>1, <2>1 DEF AddBlocked
  <2> QED  BY <1>1, <2>2, GotoType DEF AddBlocked, Commit, Stages
<1>2. ASSUME NEW o \in Orgs, NEW ip \in Ips, RemoveBlocked(h, o, ip)
      PROVE  TypeTables' /\ TypeMemory' /\ TypeControl'
  <2>1. blockRows' \in [Orgs -> [Ips -> BlockRow]]
    BY <1>2 DEF RemoveBlocked, BlockRow, Absent
  <2> QED  BY <1>2, <2>1, GotoType DEF RemoveBlocked, Commit, Stages
<1>3. ASSUME NEW o \in Orgs, NEW ip \in Ips, AddAllowed(h, o, ip) \/ RemoveAllowed(h, o, ip)
      PROVE  TypeTables' /\ TypeMemory' /\ TypeControl'
  <2>1. allowRows' \in [Orgs -> SUBSET Ips]
    BY <1>3 DEF AddAllowed, RemoveAllowed
  <2>2. Goto(h, "audit") /\ (Commit(h, "allow") \/ Commit(h, "disallow"))
    BY <1>3 DEF AddAllowed, RemoveAllowed
  <2>3. UNCHANGED <<blockRows, modeRow, ruleRows>>
    BY <1>3 DEF AddAllowed, RemoveAllowed
  <2> QED  BY <2>1, <2>2, <2>3, GotoType DEF Commit, Stages
<1>4. ASSUME NEW o \in Orgs, NEW n \in Names, NEW on \in BOOLEAN, NEW regex \in BOOLEAN,
             CreateRule(h, o, n, on, regex)
      PROVE  TypeTables' /\ TypeMemory' /\ TypeControl'
  <2>1. ruleRows' \in [Orgs -> [Names -> RuleRow]]
    BY <1>4 DEF CreateRule, RuleRow
  <2> QED  BY <1>4, <2>1, GotoType DEF CreateRule, Commit, Stages
<1>5. ASSUME NEW o \in Orgs, NEW n \in Names, NEW on \in BOOLEAN, NEW regex \in BOOLEAN,
             SetRule(h, o, n, on, regex)
      PROVE  TypeTables' /\ TypeMemory' /\ TypeControl'
  <2>1. ruleRows' \in [Orgs -> [Names -> RuleRow]]
    BY <1>5 DEF SetRule, RuleRow
  <2> QED  BY <1>5, <2>1, GotoType DEF SetRule, Commit, Stages
<1>6. ASSUME NEW o \in Orgs, NEW n \in Names, NEW m \in Names, RenameRule(h, o, n, m)
      PROVE  TypeTables' /\ TypeMemory' /\ TypeControl'
  <2>1. ruleRows' \in [Orgs -> [Names -> RuleRow]]
    BY <1>6 DEF RenameRule, RuleRow, NoRule
  <2> QED  BY <1>6, <2>1, GotoType DEF RenameRule, Commit, Stages
<1>7. ASSUME NEW o \in Orgs, NEW n \in Names, DeleteRule(h, o, n)
      PROVE  TypeTables' /\ TypeMemory' /\ TypeControl'
  <2>1. ruleRows' \in [Orgs -> [Names -> RuleRow]]
    BY <1>7 DEF DeleteRule, RuleRow, NoRule
  <2> QED  BY <1>7, <2>1, GotoType DEF DeleteRule, Commit, Stages
<1>8. ASSUME NEW o \in Orgs, NEW m \in ModeValues, UpdateSettings(h, o, m)
      PROVE  TypeTables' /\ TypeMemory' /\ TypeControl'
  BY <1>8 DEF UpdateSettings, Commit, ModeRow
<1>9. ASSUME NEW o \in Orgs, NEW m \in ValidModes, UpdateMode(h, o, m)
      PROVE  TypeTables' /\ TypeMemory' /\ TypeControl'
  <2>1. [IdleTask EXCEPT !.at = "setMode", !.org = o, !.mode = m] \in TaskType
    BY IdleTaskType DEF TaskType, Stages, ModeRow
  <2>2. modeRow' \in [Orgs -> ModeRow]
    BY <1>9 DEF UpdateMode, ModeRow
  <2> QED  BY <1>9, <2>1, <2>2, PutType DEF UpdateMode, Commit
<1>10. CASE SetModeMem(h)
  BY <1>10, IdleTaskType, PutType DEF SetModeMem, EndUpdateMode, ModeAfterSet
<1>11. CASE SetModeFails(h) \/ AuditFails(h)
  BY <1>11, IdleTaskType, PutType DEF SetModeFails, AuditFails, SpendFault
<1>12. CASE Audit(h)
  BY <1>12, BeginPassType DEF Audit
<1> QED
  BY <1>1, <1>2, <1>3, <1>4, <1>5, <1>6, <1>7, <1>8, <1>9, <1>10, <1>11, <1>12
  DEF Request, HandlerStep, HandlerFault

LEMMA TypeStep == TypeOK /\ [Next]_vars => TypeOK'
<1> SUFFICES ASSUME TypeOK, [Next]_vars PROVE TypeOK'
  OBVIOUS
<1>1. CASE Step /\ History
  <2>1. TypeTables' /\ TypeMemory' /\ TypeControl'
    <3>1. TypeTables /\ TypeMemory /\ TypeControl
      BY DEF TypeOK
    <3>2. ASSUME NEW t \in Tasks, PassStep(t) \/ PassFault(t)
          PROVE  TypeTables' /\ TypeMemory' /\ TypeControl'
      BY <3>1, <3>2, PassType
    <3>3. ASSUME NEW h \in Handlers, Request(h) \/ HandlerStep(h) \/ HandlerFault(h)
          PROVE  TypeTables' /\ TypeMemory' /\ TypeControl'
      BY <3>1, <3>3, HandlerType
    <3>4. CASE LoopWakes
      BY <3>1, <3>4, BeginPassType
      DEF LoopWakes, TypeTables, TypeMemory, TypeControl, db, mem, ctl, budget, Tasks
    <3>5. CASE Tick
      BY <3>1, <3>5 DEF Tick, TypeTables, TypeMemory, TypeControl, db, mem, ctl, budget
    <3>6. Sys \in Tasks /\ Handlers \subseteq Tasks
      BY DEF Tasks
    <3> QED
      BY <1>1, <3>2, <3>3, <3>4, <3>5, <3>6 DEF Step, SysStep, HandlerRuns
  <2>2. /\ Target' \in SUBSET Ips /\ modeRow'[DefaultOrg] \in ModeRow
        /\ allowRows'[DefaultOrg] \in SUBSET Ips /\ CustomTarget' \in SUBSET Names
    BY <2>1 DEF Target, CustomTarget, TypeTables
  <2>3. TypeHistory'
    BY <1>1, <2>2 DEF History, TypeHistory, TypeOK
  <2> QED  BY <2>1, <2>3 DEF TypeOK
<1>2. CASE Restart
  <2>1. BootTasks \in [Tasks -> TaskType]
    BY IdleTaskType, AtType DEF BootTasks, Stages
  <2>2. TypeTables'
    BY <1>2 DEF Restart, TypeOK, TypeTables, db
  <2>5. TypeControl'
    <3>1. phase' \in {"starting", "serving"} /\ loopOn' \in BOOLEAN
      BY <1>2 DEF Restart
    <3>2. task' \in [Tasks -> TaskType]
      BY <1>2, <2>1 DEF Restart
    <3>3. writes' \in Nat /\ faults' \in Nat /\ restarts' \in Nat
      BY <1>2 DEF Restart, TypeOK, TypeControl
    <3> QED  BY <3>1, <3>2, <3>3 DEF TypeControl
  <2>3. TypeMemory'
    BY <1>2 DEF Restart, TypeMemory, Unknown, RuleState
  <2>4. TypeHistory'
    BY <1>2, TargetTypes DEF Restart, TypeOK, TypeTables, TypeHistory
  <2> QED  BY <2>2, <2>3, <2>4, <2>5 DEF TypeOK
<1>3. CASE UNCHANGED vars
  BY <1>3 DEF vars, history, db, mem, ctl, budget, TypeOK, TypeTables, TypeMemory, TypeControl, TypeHistory
<1> QED  BY <1>1, <1>2, <1>3 DEF Next

\* Every variable keeps to its type in every reachable state.
THEOREM TypeCorrect == Spec => []TypeOK
<1> QED  BY InitType, TypeStep, PTL DEF Spec

-----------------------------------------------------------------------------
(* What the engine enforces was in the tables.                             *)

\* Where a pass still has to apply the block list it has read.
HoldsList == {"allowed", "mode", "publishMode", "builtin", "seed", "reread",
              "publishBuiltin", "custom", "publishCustom", "apply"}
Applied == {"select", "delete"}

\* The inductive invariant of the lists.  A failing statement makes a pass
\* apply the empty set it starts from; nothing else can come from outside seen.
ListInv ==
    /\ Target \in seen
    /\ blockedMem \in seen \cup {{}}
    /\ \A t \in Tasks : task[t].blocked \in seen \cup {{}}
    /\ faults = 0 =>
         /\ \A t \in Tasks : task[t].at \in HoldsList => task[t].blocked \in seen
         /\ phase = "serving" \/ task[Sys].at \in Applied => blockedMem \in seen

\* A step of one task that leaves the enforced list alone.
LEMMA ListKept ==
    ASSUME TypeControl, ListInv, History, NEW t \in Tasks, NEW r, Put(t, r),
           blockedMem' = blockedMem, phase' = phase,
           faults' = 0 => faults = 0,
           r.blocked \in seen \cup {{}},
           faults' = 0 /\ r.at \in HoldsList => r.blocked \in seen,
           faults' = 0 /\ t = Sys /\ r.at \in Applied => blockedMem \in seen
    PROVE  ListInv'
<1>1. seen \subseteq seen' /\ Target' \in seen'
  BY DEF History
<1>2. \A u \in Tasks : task'[u] = IF u = t THEN r ELSE task[u]
  BY DEF TypeControl, Put
<1>3. \A u \in Tasks : task'[u].blocked \in seen' \cup {{}}
  BY <1>1, <1>2 DEF ListInv
<1>4. faults' = 0 => \A u \in Tasks : task'[u].at \in HoldsList => task'[u].blocked \in seen'
  BY <1>1, <1>2 DEF ListInv
<1>5. faults' = 0 => (phase' = "serving" \/ task'[Sys].at \in Applied => blockedMem' \in seen')
  BY <1>1, <1>2 DEF ListInv, Tasks
<1> QED  BY <1>1, <1>3, <1>4, <1>5 DEF ListInv

\* A pass that ends: without a failure it has applied its list.
LEMMA ListEnded ==
    ASSUME TypeControl, ListInv, History, NEW t \in Tasks, Finish(t) \/ Raise(t),
           blockedMem' = blockedMem,
           faults' = 0 => faults = 0 /\ task[t].at \in Applied
    PROVE  ListInv'
<1>1. seen \subseteq seen' /\ Target' \in seen'
  BY DEF History
<1>2. \A u \in Tasks : task'[u] = IF u = t THEN IdleTask ELSE task[u]
  BY DEF TypeControl, Put, Finish, Raise
<1>3. IdleTask.at \notin HoldsList \cup Applied /\ IdleTask.blocked = {}
  BY DEF IdleTask, HoldsList, Applied
<1>4. \A u \in Tasks : task'[u].blocked \in seen' \cup {{}}
  BY <1>1, <1>2, <1>3 DEF ListInv
<1>5. faults' = 0 => \A u \in Tasks : task'[u].at \in HoldsList => task'[u].blocked \in seen'
  BY <1>1, <1>2, <1>3 DEF ListInv
<1>6. faults' = 0 => (phase' = "serving" \/ task'[Sys].at \in Applied => blockedMem' \in seen')
  <2>1. CASE t = Sys
    BY <1>1, <1>2, <1>3, <2>1 DEF ListInv
  <2>2. CASE t # Sys
    BY <1>1, <1>2, <2>2 DEF ListInv, Tasks, Finish, Raise, ctl
  <2> QED  BY <2>1, <2>2
<1> QED  BY <1>1, <1>4, <1>5, <1>6 DEF ListInv

LEMMA ListPass ==
    ASSUME TypeControl, ListInv, History, NEW t \in Tasks, PassStep(t) \/ PassFault(t)
    PROVE  ListInv'
<1> USE DEF budget, ctl, mem, HoldsList, Applied
<1>1. task[t].blocked \in seen \cup {{}} /\ Target \in seen
  BY DEF ListInv
<1>2. faults = 0 /\ task[t].at \in HoldsList => task[t].blocked \in seen
  BY DEF ListInv
<1>t. task[t] \in TaskType
  BY DEF TypeControl
<1>3. CASE ReadBlocked(t)
  BY <1>1, <1>t, <1>3, ListKept DEF ReadBlocked, KeepBlocked, TaskType
<1>4. CASE Apply(t)
  <2>1. blockedMem' \in seen \cup {{}} /\ (faults' = 0 => blockedMem' \in seen)
    BY <1>1, <1>2, <1>4 DEF Apply, SetLists
  <2>2. seen \subseteq seen' /\ Target' \in seen'
    BY DEF History
  <2>3. faults' = faults
    BY <1>4 DEF Apply, SetLists
  <2>4. \A u \in Tasks : /\ task'[u].blocked = task[u].blocked
                         /\ task'[u].at \in HoldsList => task[u].at \in HoldsList
    BY <1>4 DEF Apply, SetLists, Goto, Put, TypeControl, TaskType
  <2> QED  BY <2>1, <2>2, <2>3, <2>4 DEF ListInv
<1>5. CASE Resolve(t)
  BY <1>1, <1>t, <1>5, ListKept DEF Resolve, Goto, TaskType
<1>6. CASE ReadAllowed(t) \/ ReadMode(t) \/ ReadBuiltin(t) \/ Reread(t) \/ ReadCustom(t)
  BY <1>1, <1>2, <1>t, <1>6, ListKept
  DEF ReadAllowed, ReadMode, ReadBuiltin, Reread, ReadCustom, TaskType
<1>7. CASE PublishMode(t) \/ PublishBuiltin(t) \/ PublishCustom(t)
  BY <1>1, <1>2, <1>t, <1>7, ListKept
  DEF PublishMode, LeaveMode, PublishBuiltin, PublishCustom, LoadCustom, Goto, TaskType
<1>8. CASE Seed(t) \/ SeedConflict(t)
  BY <1>1, <1>2, <1>t, <1>8, ListKept DEF Seed, SeedConflict, Goto, TaskType
<1>9. CASE StatementFails(t)
  BY <1>1, <1>t, <1>9, ListKept DEF StatementFails, SpendFault, Goto, TypeControl, TaskType
<1>10. CASE SelectExpired(t)
  <2>1. CASE Finish(t)
    BY <1>10, <2>1, ListEnded DEF SelectExpired
  <2>2. CASE ~Finish(t)
    BY <1>1, <1>t, <1>10, <2>2, ListKept DEF SelectExpired, ListInv, TaskType
  <2> QED  BY <2>1, <2>2
<1>11. CASE DeleteExpired(t)
  BY <1>11, ListEnded DEF DeleteExpired, DeleteRows
<1>12. CASE ResolveFails(t) \/ PurgeFails(t)
  BY <1>12, ListEnded DEF ResolveFails, PurgeFails, SpendFault, TypeControl
<1> QED
  BY <1>3, <1>4, <1>5, <1>6, <1>7, <1>8, <1>9, <1>10, <1>11, <1>12 DEF PassStep, PassFault

LEMMA ListInit == Init => ListInv
BY DEF Init, ListInv, BootTasks, IdleTask, HoldsList, Applied, Tasks

LEMMA ListStep == TypeOK /\ ListInv /\ [Next]_vars => ListInv'
<1> SUFFICES ASSUME TypeOK, ListInv, [Next]_vars PROVE ListInv'
  OBVIOUS
<1>t. TypeControl
  BY DEF TypeOK
<1>1. CASE Step /\ History
  <2>1. ASSUME NEW t \in Tasks, PassStep(t) \/ PassFault(t) PROVE ListInv'
    BY <1>1, <1>t, <2>1, ListPass
  <2>2. ASSUME NEW h \in Handlers, Request(h) \/ HandlerStep(h) \/ HandlerFault(h)
        PROVE  ListInv'
    <3>1. h \in Tasks /\ h # Sys
      BY DEF Tasks
    <3>2. task[h] \in TaskType /\ task[h].blocked \in seen \cup {{}}
      BY <1>t, <3>1 DEF TypeControl, ListInv
    <3>3. IdleTask.blocked = {} /\ IdleTask.at \notin HoldsList
      BY DEF IdleTask, HoldsList
    <3> USE DEF ctl, mem, budget, HoldsList
    <3>4. CASE HandlerFault(h) \/ SetModeMem(h)
      BY <1>1, <1>t, <3>1, <3>3, <3>4, ListKept
      DEF HandlerFault, SetModeFails, AuditFails, SpendFault, SetModeMem, EndUpdateMode, TypeControl
    <3>5. CASE Audit(h)
      BY <1>1, <1>t, <3>1, <3>3, <3>5, ListKept DEF Audit, BeginPass, PassStart, IdleTask
    <3>6. ASSUME Goto(h, "audit"), blockedMem' = blockedMem, phase' = phase, faults' = faults
          PROVE  ListInv'
      BY <1>1, <1>t, <3>1, <3>2, <3>6, ListKept DEF Goto, TaskType
    <3>7. CASE Request(h)
      <4>1. ASSUME NEW o \in Orgs, NEW m, UpdateMode(h, o, m) PROVE ListInv'
        <5>1. UNCHANGED <<blockedMem, phase, faults>>
          BY <4>1 DEF UpdateMode, Commit
        <5> QED  BY <1>1, <1>t, <3>1, <3>3, <4>1, <5>1, ListKept DEF UpdateMode, IdleTask
      <4>2. ASSUME NEW o \in Orgs, NEW m, UpdateSettings(h, o, m) PROVE ListInv'
        BY <1>1, <4>2 DEF UpdateSettings, Commit, History, ListInv
      <4>3. CASE Goto(h, "audit") /\ \E op \in OpKinds : Commit(h, op)
        BY <3>6, <4>3 DEF Commit
      <4> QED
        BY ZenonT(30), <3>7, <4>1, <4>2, <4>3
        DEF Request, OpKinds, AddBlocked, RemoveBlocked, AddAllowed, RemoveAllowed,
            CreateRule, SetRule, RenameRule, DeleteRule
    <3> QED  BY <2>2, <3>4, <3>5, <3>7 DEF HandlerStep
  <2>3. CASE LoopWakes
    <3>1. Sys \in Tasks /\ [IdleTask EXCEPT !.at = PassStart].blocked = {}
      BY DEF Tasks, IdleTask
    <3>2. [IdleTask EXCEPT !.at = PassStart].at \notin HoldsList \cup Applied
      BY DEF IdleTask, PassStart, HoldsList, Applied
    <3> QED
      BY <1>1, <1>t, <2>3, <3>1, <3>2, ListKept DEF LoopWakes, BeginPass, mem, ctl, budget
  <2>4. CASE Tick
    BY <1>1, <2>4 DEF Tick, History, ListInv, mem, ctl, budget
  <2> QED
    BY <1>1, <2>1, <2>2, <2>3, <2>4 DEF Step, SysStep, HandlerRuns, Tasks
<1>2. CASE Restart
  <2>1. Target' = Target
    BY <1>2 DEF Restart, Target, db
  <2> QED
    BY <1>2, <2>1 DEF Restart, ListInv, BootTasks, IdleTask, HoldsList, Applied, Tasks
<1>3. CASE UNCHANGED vars
  BY <1>3 DEF vars, history, db, mem, ctl, budget, ListInv, Target
<1> QED  BY <1>1, <1>2, <1>3 DEF Next

\* An address is enforced only if the default organization's table blocked it
\* at some moment since the process started.
THEOREM NoStray == Spec => []NoStrayBlock
<1>1. ListInv => NoStrayBlock
  BY DEF ListInv, NoStrayBlock
<1> QED  BY <1>1, InitType, TypeStep, ListInit, ListStep, PTL DEF Spec

\* Without failures, an address blocked ever since the process started is
\* enforced whenever the process serves.
THEOREM SteadyBlock == Spec => []SteadyBlockEnforced
<1>1. ListInv => SteadyBlockEnforced
  BY DEF ListInv, SteadyBlockEnforced
<1> QED  BY <1>1, InitType, TypeStep, ListInit, ListStep, PTL DEF Spec

-----------------------------------------------------------------------------
(* The mode the engine runs in is one the default organization stored.     *)

\* The values about to be published come from the default organization's row.
ModeInv ==
    /\ modeRow[DefaultOrg] \in modesSeen
    /\ modeMem \in modesSeen \cup {BootMode}
    /\ \A t \in Tasks :
         /\ task[t].at = "publishMode" => task[t].mode \in modesSeen
         /\ task[t].at = "setMode" /\ task[t].org = DefaultOrg => task[t].mode \in modesSeen

\* What a task may carry towards publication.
Carries(r) ==
    /\ r.at = "publishMode" => r.mode \in modesSeen'
    /\ r.at = "setMode" /\ r.org = DefaultOrg => r.mode \in modesSeen'

LEMMA ModeKept ==
    ASSUME TypeControl, ModeInv, History, NEW t \in Tasks, NEW r, Put(t, r), Carries(r),
           modeMem' \in modesSeen \cup {BootMode}
    PROVE  ModeInv'
<1>1. modesSeen \subseteq modesSeen' /\ modeRow'[DefaultOrg] \in modesSeen'
  BY DEF History
<1>2. \A u \in Tasks : task'[u] = IF u = t THEN r ELSE task[u]
  BY DEF TypeControl, Put
<1> QED  BY <1>1, <1>2 DEF ModeInv, Carries

LEMMA IdleCarries == Carries(IdleTask)
BY DEF Carries, IdleTask

LEMMA StartCarries == Carries([IdleTask EXCEPT !.at = PassStart])
BY DEF Carries, IdleTask, PassStart

LEMMA ModePass ==
    ASSUME TypeControl, ModeInv, History, NEW t \in Tasks, PassStep(t) \/ PassFault(t)
    PROVE  ModeInv'
<1> USE DEF budget, ctl, mem, db, Carries
<1>1. task[t] \in TaskType
  BY DEF TypeControl
<1>2. modeMem \in modesSeen \cup {BootMode} /\ modeRow[DefaultOrg] \in modesSeen
      /\ modesSeen \subseteq modesSeen'
  BY DEF ModeInv, History
<1>3. CASE ReadMode(t)
  BY <1>1, <1>2, <1>3, ModeKept DEF ReadMode, TaskType
<1>4. CASE PublishMode(t)
  <2>1. modeMem' \in modesSeen \cup {BootMode}
    BY <1>2, <1>4 DEF PublishMode, LeaveMode, ModeAfterSet, ModeInv
  <2> QED  BY <1>1, <1>4, <2>1, ModeKept DEF PublishMode, LeaveMode, Goto, TaskType
<1>5. CASE SelectExpired(t)
  <2>1. CASE Finish(t)
    BY <1>2, <1>5, <2>1, IdleCarries, ModeKept DEF SelectExpired, Finish
  <2>2. CASE ~Finish(t)
    BY <1>1, <1>2, <1>5, <2>2, ModeKept DEF SelectExpired, TaskType
  <2> QED  BY <2>1, <2>2
<1>6. CASE DeleteExpired(t)
  BY <1>2, <1>6, IdleCarries, ModeKept DEF DeleteExpired, DeleteRows, Finish
<1>7. CASE ResolveFails(t) \/ PurgeFails(t)
  BY <1>2, <1>7, IdleCarries, ModeKept DEF ResolveFails, PurgeFails, Finish, Raise
<1>8. CASE ReadBlocked(t) \/ ReadAllowed(t) \/ ReadBuiltin(t) \/ Reread(t) \/ ReadCustom(t)
  BY <1>1, <1>2, <1>8, ModeKept
  DEF ReadBlocked, KeepBlocked, ReadAllowed, ReadBuiltin, Reread, ReadCustom, TaskType
<1>9. CASE PublishBuiltin(t) \/ PublishCustom(t) \/ Apply(t)
  BY <1>1, <1>2, <1>9, ModeKept
  DEF PublishBuiltin, PublishCustom, LoadCustom, Apply, SetLists, Goto, TaskType
<1>10. CASE Resolve(t) \/ Seed(t) \/ SeedConflict(t) \/ StatementFails(t)
  BY <1>1, <1>2, <1>10, ModeKept
  DEF Resolve, Seed, SeedConflict, StatementFails, Goto, TaskType
<1> QED
  BY <1>3, <1>4, <1>5, <1>6, <1>7, <1>8, <1>9, <1>10 DEF PassStep, PassFault

LEMMA ModeInit == Init => ModeInv
BY DEF Init, ModeInv, BootTasks, IdleTask, Tasks

LEMMA ModeStep == TypeOK /\ ModeInv /\ [Next]_vars => ModeInv'
<1> SUFFICES ASSUME TypeOK, ModeInv, [Next]_vars PROVE ModeInv'
  OBVIOUS
<1>t. TypeControl
  BY DEF TypeOK
<1>1. CASE Step /\ History
  <2>0. modeMem \in modesSeen \cup {BootMode} /\ modesSeen \subseteq modesSeen'
        /\ modeRow'[DefaultOrg] \in modesSeen'
    BY <1>1 DEF ModeInv, History
  <2>1. ASSUME NEW t \in Tasks, PassStep(t) \/ PassFault(t) PROVE ModeInv'
    BY <1>1, <1>t, <2>1, ModePass
  <2>2. ASSUME NEW h \in Handlers, Request(h) \/ HandlerStep(h) \/ HandlerFault(h)
        PROVE  ModeInv'
    <3>1. h \in Tasks
      BY DEF Tasks
    <3>2. task[h] \in TaskType
      BY <1>t, <3>1 DEF TypeControl
    <3> USE DEF ctl, mem, budget
    <3>3. CASE HandlerFault(h)
      BY <1>1, <1>t, <2>0, <3>1, <3>3, IdleCarries, ModeKept DEF HandlerFault, SetModeFails, AuditFails
    <3>4. CASE SetModeMem(h)
      <4>1. modeMem' \in modesSeen \cup {BootMode}
        BY <2>0, <3>1, <3>4 DEF SetModeMem, EndUpdateMode, ModeAfterSet, ModeInv
      <4> QED
        BY <1>1, <1>t, <3>1, <3>4, <4>1, IdleCarries, ModeKept DEF SetModeMem, EndUpdateMode
    <3>5. CASE Audit(h)
      BY <1>1, <1>t, <2>0, <3>1, <3>5, StartCarries, ModeKept DEF Audit, BeginPass
    <3>6. ASSUME Goto(h, "audit"), modeMem' = modeMem PROVE ModeInv'
      BY <1>1, <1>t, <2>0, <3>1, <3>2, <3>6, ModeKept DEF Goto, Carries, TaskType
    <3>7. CASE Request(h)
      <4>1. ASSUME NEW o \in Orgs, NEW m \in ValidModes, UpdateMode(h, o, m) PROVE ModeInv'
        <5>1. o = DefaultOrg => m = modeRow'[DefaultOrg]
          BY <4>1 DEF UpdateMode, TypeOK, TypeTables
        <5>2. Carries([IdleTask EXCEPT !.at = "setMode", !.org = o, !.mode = m])
          BY <2>0, <5>1 DEF Carries, IdleTask
        <5> QED
          BY <1>1, <1>t, <2>0, <3>1, <4>1, <5>2, ModeKept DEF UpdateMode, Commit
      <4>2. ASSUME NEW o \in Orgs, NEW m, UpdateSettings(h, o, m) PROVE ModeInv'
        BY <1>1, <2>0, <4>2 DEF UpdateSettings, Commit, ModeInv
      <4>3. CASE Goto(h, "audit") /\ \E op \in OpKinds : Commit(h, op)
        BY <3>6, <4>3 DEF Commit
      <4> QED
        BY ZenonT(30), <3>7, <4>1, <4>2, <4>3
        DEF Request, OpKinds, AddBlocked, RemoveBlocked, AddAllowed, RemoveAllowed,
            CreateRule, SetRule, RenameRule, DeleteRule
    <3> QED  BY <2>2, <3>3, <3>4, <3>5, <3>7 DEF HandlerStep
  <2>3. CASE LoopWakes
    <3>1. Sys \in Tasks
      BY DEF Tasks
    <3> QED
      BY <1>1, <1>t, <2>0, <2>3, <3>1, StartCarries, ModeKept DEF LoopWakes, BeginPass, mem
  <2>4. CASE Tick
    BY <1>1, <2>0, <2>4 DEF Tick, ModeInv, mem, ctl, budget
  <2> QED
    BY <1>1, <2>1, <2>2, <2>3, <2>4 DEF Step, SysStep, HandlerRuns, Tasks
<1>2. CASE Restart
  BY <1>2 DEF Restart, ModeInv, BootTasks, IdleTask, Tasks, db
<1>3. CASE UNCHANGED vars
  BY <1>3 DEF vars, history, db, mem, ctl, budget, ModeInv
<1> QED  BY <1>1, <1>2, <1>3 DEF Next

\* The engine's mode is the boot mode or a value the default organization's
\* row has had since the process started, whatever other organizations store.
THEOREM ModeOfDefaultOrg == Spec => []ModeFromDefaultOrg
<1>1. ModeInv => ModeFromDefaultOrg
  BY DEF ModeInv, ModeFromDefaultOrg
<1> QED  BY <1>1, InitType, TypeStep, ModeInit, ModeStep, PTL DEF Spec

-----------------------------------------------------------------------------
(* What the purge removes has expired.                                     *)

\* What a task selected had expired then, and what has expired stays so.
PurgeInv ==
    \A t \in Tasks :
        task[t].at = "delete" => \A e \in task[t].expired : Expired(e[2], now)

\* What a step does to the rows of blocked_ips unless it is a commit.
OnlyExpiredGo ==
    \A ip \in Ips :
        blockRows'[DefaultOrg][ip] # blockRows[DefaultOrg][ip] =>
            Expired(blockRows[DefaultOrg][ip], now)

LEMMA PurgeKept ==
    ASSUME TypeControl, PurgeInv, now' = now, NEW t \in Tasks, NEW r, Put(t, r),
           r.at # "delete"
    PROVE  PurgeInv'
<1>1. \A u \in Tasks : task'[u] = IF u = t THEN r ELSE task[u]
  BY DEF TypeControl, Put
<1> QED  BY <1>1 DEF PurgeInv, Expired

LEMMA IdlePurgesNothing ==
    /\ IdleTask.at # "delete"
    /\ [IdleTask EXCEPT !.at = PassStart].at # "delete"
    /\ \A o, m : [IdleTask EXCEPT !.at = "setMode", !.org = o, !.mode = m].at # "delete"
BY DEF IdleTask, PassStart

LEMMA GotoPurgesNothing ==
    ASSUME TypeControl, PurgeInv, now' = now, NEW t \in Tasks,
           NEW stage \in Stages \ {"delete"}, Goto(t, stage)
    PROVE  PurgeInv'
<1>1. task[t] \in TaskType
  BY DEF TypeControl
<1>2. [task[t] EXCEPT !.at = stage].at # "delete"
  BY <1>1 DEF TaskType
<1> QED  BY <1>2, PurgeKept DEF Goto

LEMMA PurgePass ==
    ASSUME TypeOK, PurgeInv, NEW t \in Tasks, PassStep(t) \/ PassFault(t)
    PROVE  PurgeInv' /\ OnlyExpiredGo
<1> USE DEF budget, ctl, mem, db
<1>0. TypeControl /\ task[t] \in TaskType
  BY DEF TypeOK, TypeControl
<1>1. CASE SelectExpired(t)
  <2>1. UNCHANGED <<blockRows, now>>
    BY <1>1 DEF SelectExpired
  <2>2. CASE Put(t, IdleTask)
    BY <1>0, <2>1, <2>2, IdlePurgesNothing, PurgeKept DEF OnlyExpiredGo
  <2>3. CASE ~Put(t, IdleTask)
    <3> DEFINE rows == blockRows[DefaultOrg]
               expired == {<<ip, rows[ip]>> : ip \in {i \in Ips : Expired(rows[i], now)}}
    <3>1. Put(t, [task[t] EXCEPT !.at = "delete", !.expired = expired])
      BY <1>1, <2>3 DEF SelectExpired, Finish
    <3>2. \A e \in expired : Expired(e[2], now)
      OBVIOUS
    <3> HIDE DEF expired
    <3>3. task'[t].expired = expired
      BY <1>0, <3>1 DEF Put, TypeControl, TaskType
    <3>4. \A u \in Tasks : u # t => task'[u] = task[u]
      BY <1>0, <3>1 DEF Put, TypeControl
    <3> QED  BY <2>1, <3>2, <3>3, <3>4 DEF PurgeInv, OnlyExpiredGo, Expired
  <2> QED  BY <2>2, <2>3
<1>2. CASE DeleteExpired(t)
  <2>1. Put(t, IdleTask) /\ now' = now /\ task[t].at = "delete"
    BY <1>2 DEF DeleteExpired, DeleteRows, Finish
  <2>2. PurgeInv'
    BY <1>0, <2>1, IdlePurgesNothing, PurgeKept
  <2>3. ASSUME NEW ip \in Ips,
               blockRows'[DefaultOrg][ip] # blockRows[DefaultOrg][ip]
        PROVE  Expired(blockRows[DefaultOrg][ip], now)
    <3>1. <<ip, blockRows[DefaultOrg][ip]>> \in task[t].expired
      BY <1>2, <2>3 DEF DeleteExpired, DeleteRows, TypeOK, TypeTables
    <3>2. Expired(<<ip, blockRows[DefaultOrg][ip]>>[2], now)
      BY <2>1, <3>1 DEF PurgeInv
    <3> QED  BY <3>2
  <2> QED  BY <2>2, <2>3 DEF OnlyExpiredGo
<1>3. CASE ResolveFails(t) \/ PurgeFails(t)
  BY <1>0, <1>3, IdlePurgesNothing, PurgeKept
  DEF ResolveFails, PurgeFails, Finish, Raise, OnlyExpiredGo
<1>4. CASE ReadBlocked(t) \/ ReadAllowed(t) \/ ReadMode(t) \/ ReadBuiltin(t)
           \/ Reread(t) \/ ReadCustom(t)
  BY <1>0, <1>4, PurgeKept
  DEF ReadBlocked, KeepBlocked, ReadAllowed, ReadMode, ReadBuiltin, Reread, ReadCustom,
      TaskType, OnlyExpiredGo
<1>5. CASE PublishMode(t) \/ PublishBuiltin(t) \/ PublishCustom(t) \/ Apply(t)
  BY <1>0, <1>5, GotoPurgesNothing
  DEF PublishMode, LeaveMode, PublishBuiltin, PublishCustom, LoadCustom, Apply, SetLists,
      Stages, OnlyExpiredGo
<1>6. CASE Resolve(t) \/ Seed(t) \/ SeedConflict(t) \/ StatementFails(t)
  BY <1>0, <1>6, GotoPurgesNothing
  DEF Resolve, Seed, SeedConflict, StatementFails, Stages, OnlyExpiredGo
<1> QED
  BY <1>1, <1>2, <1>3, <1>4, <1>5, <1>6 DEF PassStep, PassFault

LEMMA PurgeStep ==
    TypeOK /\ PurgeInv /\ [Next]_vars =>
        PurgeInv' /\ (writes' = writes => OnlyExpiredGo)
<1> SUFFICES ASSUME TypeOK, PurgeInv, [Next]_vars
             PROVE  PurgeInv' /\ (writes' = writes => OnlyExpiredGo)
  OBVIOUS
<1>t. TypeControl
  BY DEF TypeOK
<1>1. CASE Step
  <2>1. ASSUME NEW t \in Tasks, PassStep(t) \/ PassFault(t)
        PROVE  PurgeInv' /\ OnlyExpiredGo
    BY <2>1, PurgePass
  <2>2. ASSUME NEW h \in Handlers, HandlerStep(h) \/ HandlerFault(h)
        PROVE  PurgeInv' /\ OnlyExpiredGo
    <3>1. h \in Tasks
      BY DEF Tasks
    <3> QED
      BY <1>t, <2>2, <3>1, IdlePurgesNothing, PurgeKept
      DEF HandlerStep, HandlerFault, SetModeMem, EndUpdateMode, Audit, BeginPass,
          SetModeFails, AuditFails, OnlyExpiredGo, db
  <2>3. ASSUME NEW h \in Handlers, Request(h) PROVE PurgeInv' /\ writes' # writes
    <3>1. h \in Tasks
      BY DEF Tasks
    <3>2. ASSUME NEW op, Commit(h, op) PROVE writes' # writes /\ now' = now
      BY <1>t, <3>2 DEF Commit, TypeControl
    <3>3. ASSUME NEW o \in Orgs, NEW m \in ValidModes, UpdateMode(h, o, m)
          PROVE  PurgeInv' /\ writes' # writes
      <4>1. writes' # writes /\ now' = now
        BY <3>2, <3>3 DEF UpdateMode
      <4> DEFINE r == [IdleTask EXCEPT !.at = "setMode", !.org = o, !.mode = m]
      <4>2. Put(h, r)
        BY <3>3 DEF UpdateMode
      <4>3. r.at # "delete"
        BY IdlePurgesNothing
      <4> HIDE DEF r
      <4> QED  BY <1>t, <3>1, <4>1, <4>2, <4>3, PurgeKept
    <3>4. ASSUME NEW o \in Orgs, NEW m, UpdateSettings(h, o, m)
          PROVE  PurgeInv' /\ writes' # writes
      <4>1. writes' # writes /\ now' = now
        BY <3>2, <3>4 DEF UpdateSettings
      <4> QED  BY <3>4, <4>1 DEF UpdateSettings, PurgeInv
    <3>5. ASSUME NEW op, Commit(h, op), Goto(h, "audit")
          PROVE  PurgeInv' /\ writes' # writes
      <4>1. writes' # writes /\ now' = now
        BY <3>2, <3>5
      <4> QED  BY <1>t, <3>1, <3>5, <4>1, GotoPurgesNothing DEF Stages
    <3> QED
      BY ZenonT(30), <2>3, <3>3, <3>4, <3>5
      DEF Request, AddBlocked, RemoveBlocked, AddAllowed, RemoveAllowed,
          CreateRule, SetRule, RenameRule, DeleteRule
  <2>4. CASE LoopWakes
    <3>1. Sys \in Tasks
      BY DEF Tasks
    <3> QED
      BY <1>t, <2>4, <3>1, IdlePurgesNothing, PurgeKept DEF LoopWakes, BeginPass, OnlyExpiredGo, db
  <2>5. CASE Tick
    <3>1. now \in Nat /\ now' = now + 1 /\ task' = task
      BY <2>5 DEF Tick, TypeOK, TypeTables
    <3>2. \A row \in BlockRow : Expired(row, now) => Expired(row, now')
      BY <3>1 DEF Expired, BlockRow
    <3>3. \A t \in Tasks : \A e \in task[t].expired : e[2] \in BlockRow
      BY <1>t DEF TypeControl, TaskType
    <3> QED  BY <2>5, <3>1, <3>2, <3>3 DEF Tick, PurgeInv, OnlyExpiredGo, db
  <2> QED
    BY <1>1, <2>1, <2>2, <2>3, <2>4, <2>5 DEF Step, SysStep, HandlerRuns, Tasks
<1>2. CASE Restart
  BY <1>2 DEF Restart, PurgeInv, OnlyExpiredGo, BootTasks, IdleTask, Tasks, db
<1>3. CASE UNCHANGED vars
  BY <1>3 DEF vars, history, db, PurgeInv, OnlyExpiredGo
<1> QED  BY <1>1, <1>2, <1>3 DEF Next

\* A purge removes only rows that have expired, even when the address was
\* unblocked and blocked again between its select and its delete: it deletes by
\* primary key, and a row that has expired never comes back to life.
THEOREM PurgesExpiredOnly == Spec => PurgeRemovesOnlyExpired
<1>1. Init => PurgeInv
  BY DEF Init, PurgeInv, BootTasks, IdleTask, Tasks
<1>2. TypeOK /\ PurgeInv /\ [Next]_vars =>
        [writes' = writes =>
           \A ip \in Ips :
              blockRows'[DefaultOrg][ip] # blockRows[DefaultOrg][ip] =>
                  Expired(blockRows[DefaultOrg][ip], now)]_vars
  BY PurgeStep DEF OnlyExpiredGo
<1> QED
  BY <1>1, <1>2, InitType, TypeStep, PurgeStep, PTL DEF Spec, PurgeRemovesOnlyExpired
-----------------------------------------------------------------------------
(* What is enforced is a copy: of the allow list and the custom rules that *)
(* a pass carries, what ListInv and ModeInv say of the block list and the  *)
(* mode.                                                                   *)

HoldsAllows == HoldsList \ {"allowed"}

AllowsInv ==
    /\ allowRows[DefaultOrg] \in allowsSeen
    /\ \A t \in Tasks : task[t].allowed \in allowsSeen \cup {{}}
    /\ faults = 0 =>
         \A t \in Tasks : task[t].at \in HoldsAllows => task[t].allowed \in allowsSeen
CustomsInv ==
    /\ CustomTarget \in customsSeen
    /\ \A t \in Tasks : task[t].at = "publishCustom" => task[t].custom \in customsSeen

CopiesInv == AllowsInv /\ CustomsInv

\* What a task may carry towards the allow list and the custom rules.
Brings(r) ==
    /\ r.allowed \in allowsSeen \cup {{}}
    /\ faults' = 0 /\ r.at \in HoldsAllows => r.allowed \in allowsSeen
    /\ r.at = "publishCustom" => r.custom \in customsSeen

LEMMA CopiesKept ==
    ASSUME TypeControl, CopiesInv, History, NEW t \in Tasks, NEW r, Put(t, r),
           Brings(r), faults' = 0 => faults = 0
    PROVE  CopiesInv'
<1>1. /\ allowsSeen \subseteq allowsSeen' /\ allowRows'[DefaultOrg] \in allowsSeen'
      /\ customsSeen \subseteq customsSeen' /\ CustomTarget' \in customsSeen'
  BY DEF History
<1>2. \A u \in Tasks : task'[u] = IF u = t THEN r ELSE task[u]
  BY DEF TypeControl, Put
<1>3. AllowsInv'  BY <1>1, <1>2 DEF CopiesInv, AllowsInv, Brings
<1>4. CustomsInv'  BY <1>1, <1>2 DEF CopiesInv, CustomsInv, Brings
<1> QED  BY <1>3, <1>4 DEF CopiesInv

\* A step without a task.
LEMMA CopiesStay ==
    ASSUME CopiesInv, History, UNCHANGED <<task, faults>>
    PROVE  CopiesInv'
BY DEF CopiesInv, AllowsInv, CustomsInv, History

\* A task that is idle, or at the start of a pass, carries nothing.
LEMMA IdleBrings ==
    /\ Brings(IdleTask)
    /\ Brings([IdleTask EXCEPT !.at = PassStart])
    /\ \A o, m : Brings([IdleTask EXCEPT !.at = "setMode", !.org = o, !.mode = m])
BY DEF Brings, IdleTask, PassStart, HoldsAllows, HoldsList

\* A task that goes on with what it carries.
LEMMA GotoBrings ==
    ASSUME TypeControl, CopiesInv, faults' = 0 => faults = 0, NEW t \in Tasks,
           NEW stage \in Stages,
           stage # "publishCustom",
           faults' = 0 /\ stage \in HoldsAllows => task[t].at \in HoldsAllows
    PROVE  Brings([task[t] EXCEPT !.at = stage])
<1>1. task[t] \in TaskType  BY DEF TypeControl
<1>2. /\ [task[t] EXCEPT !.at = stage].at = stage
      /\ [task[t] EXCEPT !.at = stage].allowed = task[t].allowed
  BY <1>1 DEF TaskType
<1> QED  BY <1>2 DEF Brings, CopiesInv, AllowsInv

LEMMA CopiesPass ==
    ASSUME TypeControl, CopiesInv, History, NEW t \in Tasks, PassStep(t) \/ PassFault(t)
    PROVE  CopiesInv'
<1> USE DEF budget, ctl
<1>1. task[t] \in TaskType
  BY DEF TypeControl
<1>2. /\ task[t].allowed \in allowsSeen \cup {{}} /\ allowRows[DefaultOrg] \in allowsSeen
      /\ faults = 0 /\ task[t].at \in HoldsAllows => task[t].allowed \in allowsSeen
      /\ CustomTarget \in customsSeen
  BY DEF CopiesInv, AllowsInv, CustomsInv
<1>3. CASE ReadAllowed(t)
  <2> DEFINE r == [task[t] EXCEPT !.at = "mode", !.allowed = allowRows[DefaultOrg]]
  <2>1. r.allowed = allowRows[DefaultOrg] /\ r.at = "mode"  BY <1>1 DEF TaskType
  <2>2. Put(t, r) /\ faults' = faults  BY <1>3 DEF ReadAllowed
  <2> HIDE DEF r
  <2>3. Brings(r)  BY <1>2, <2>1 DEF Brings
  <2> QED  BY <2>2, <2>3, CopiesKept
<1>4. CASE ReadCustom(t)
  <2> DEFINE r == [task[t] EXCEPT !.at = "publishCustom", !.custom = CustomTarget]
  <2>1. r.allowed = task[t].allowed /\ r.at = "publishCustom" /\ r.custom = CustomTarget
    BY <1>1 DEF TaskType
  <2>2. Put(t, r) /\ faults' = faults /\ task[t].at = "custom"  BY <1>4 DEF ReadCustom
  <2> HIDE DEF r
  <2>3. Brings(r)  BY <1>2, <2>1, <2>2 DEF Brings, HoldsAllows, HoldsList
  <2> QED  BY <2>2, <2>3, CopiesKept
<1>5. CASE SelectExpired(t)
  <2>1. faults' = faults  BY <1>5 DEF SelectExpired
  <2>2. CASE Put(t, IdleTask)
    BY <2>1, <2>2, IdleBrings, CopiesKept
  <2>3. CASE ~Put(t, IdleTask)
    <3>1. PICK x : Put(t, [task[t] EXCEPT !.at = "delete", !.expired = x])
      BY <1>5, <2>3 DEF SelectExpired, Finish
    <3> DEFINE r == [task[t] EXCEPT !.at = "delete", !.expired = x]
    <3>2. r.allowed = task[t].allowed /\ r.at = "delete"  BY <1>1 DEF TaskType
    <3> HIDE DEF r
    <3>3. Brings(r)  BY <1>2, <3>2 DEF Brings, HoldsAllows, HoldsList
    <3>4. Put(t, r)  BY <3>1 DEF r
    <3> QED  BY <2>1, <3>3, <3>4, CopiesKept
  <2> QED  BY <2>2, <2>3
<1>6. CASE DeleteExpired(t)
  BY <1>6, IdleBrings, CopiesKept DEF DeleteExpired, DeleteRows, Finish
<1>7. CASE ResolveFails(t) \/ PurgeFails(t)
  <2>1. faults' = faults + 1 /\ faults \in Nat
    BY <1>7 DEF ResolveFails, PurgeFails, SpendFault, TypeControl
  <2>2. Put(t, IdleTask)  BY <1>7 DEF ResolveFails, PurgeFails, Finish, Raise
  <2>3. faults' # 0  BY <2>1
  <2> QED  BY <2>2, <2>3, IdleBrings, CopiesKept
<1>8. CASE ReadBlocked(t) \/ ReadMode(t) \/ ReadBuiltin(t) \/ Reread(t)
  <2>1. faults' = faults
    BY <1>8 DEF ReadBlocked, KeepBlocked, ReadMode, ReadBuiltin, Reread
  <2>2. ASSUME NEW r, Put(t, r), r.allowed = task[t].allowed, r.at # "publishCustom",
               r.at \in HoldsAllows => task[t].at \in HoldsAllows
        PROVE  CopiesInv'
    <3>1. Brings(r)  BY <1>2, <2>1, <2>2 DEF Brings
    <3> QED  BY <2>1, <2>2, <3>1, CopiesKept
  <2>3. CASE ReadBlocked(t)
    BY <1>1, <2>2, <2>3 DEF ReadBlocked, KeepBlocked, TaskType, HoldsAllows, HoldsList
  <2>4. CASE ReadMode(t)
    BY <1>1, <2>2, <2>4 DEF ReadMode, TaskType, HoldsAllows, HoldsList
  <2>5. CASE ReadBuiltin(t)
    BY <1>1, <2>2, <2>5 DEF ReadBuiltin, TaskType, HoldsAllows, HoldsList
  <2>6. CASE Reread(t)
    BY <1>1, <2>2, <2>6 DEF Reread, TaskType, HoldsAllows, HoldsList
  <2> QED  BY <1>8, <2>3, <2>4, <2>5, <2>6
<1>9. ASSUME NEW s \in Stages, Goto(t, s), s # "publishCustom", faults' = 0 => faults = 0,
             faults' = 0 /\ s \in HoldsAllows => task[t].at \in HoldsAllows
      PROVE  CopiesInv'
  BY <1>9, GotoBrings, CopiesKept DEF Goto
<1>10. CASE PublishMode(t) \/ PublishBuiltin(t) \/ PublishCustom(t) \/ Apply(t)
  BY <1>9, <1>10
  DEF PublishMode, LeaveMode, PublishBuiltin, PublishCustom, LoadCustom, Apply, SetLists,
      Stages, HoldsAllows, HoldsList
<1>11. CASE Resolve(t) \/ Seed(t) \/ SeedConflict(t)
  BY <1>9, <1>11 DEF Resolve, Seed, SeedConflict, Stages, HoldsAllows, HoldsList
<1>12. CASE StatementFails(t)
  <2>1. faults' = faults + 1 /\ faults \in Nat  BY <1>12 DEF StatementFails, SpendFault, TypeControl
  <2> QED  BY <1>9, <1>12, <2>1 DEF StatementFails, Stages
<1> QED
  BY <1>3, <1>4, <1>5, <1>6, <1>7, <1>8, <1>10, <1>11, <1>12 DEF PassStep, PassFault

LEMMA CopiesInitially == Init => CopiesInv
BY DEF Init, CopiesInv, AllowsInv, CustomsInv, BootTasks, IdleTask,
       HoldsAllows, HoldsList, Tasks

LEMMA CopiesHandler ==
    ASSUME TypeControl, CopiesInv, History, NEW h \in Handlers,
           Request(h) \/ HandlerStep(h) \/ HandlerFault(h)
    PROVE  CopiesInv'
<1> USE DEF ctl, budget
<1>1. h \in Tasks  BY DEF Tasks
<1>2. CASE HandlerFault(h)
  <2>1. faults' = faults + 1 /\ faults \in Nat
    BY <1>2 DEF HandlerFault, SetModeFails, AuditFails, SpendFault, TypeControl
  <2>2. Put(h, IdleTask)  BY <1>2 DEF HandlerFault, SetModeFails, AuditFails
  <2>3. faults' # 0  BY <2>1
  <2> QED  BY <1>1, <2>2, <2>3, IdleBrings, CopiesKept
<1>3. CASE SetModeMem(h)
  BY <1>1, <1>3, IdleBrings, CopiesKept DEF SetModeMem, EndUpdateMode
<1>4. CASE Audit(h)
  BY <1>1, <1>4, IdleBrings, CopiesKept DEF Audit, BeginPass
<1>5. CASE Request(h)
  <2>1. ASSUME NEW o \in Orgs, NEW m, UpdateMode(h, o, m) PROVE CopiesInv'
    BY <1>1, <2>1, IdleBrings, CopiesKept DEF UpdateMode, Commit
  <2>2. ASSUME NEW o \in Orgs, NEW m, UpdateSettings(h, o, m) PROVE CopiesInv'
    BY <2>2, CopiesStay DEF UpdateSettings, Commit
  <2>3. CASE Goto(h, "audit") /\ \E op \in OpKinds : Commit(h, op)
    <3>1. Goto(h, "audit") /\ faults' = faults  BY <2>3 DEF Commit
    <3>2. "audit" \in Stages \ HoldsAllows /\ "audit" # "publishCustom"
      BY DEF Stages, HoldsAllows, HoldsList
    <3> QED  BY <1>1, <3>1, <3>2, GotoBrings, CopiesKept DEF Goto
  <2> QED
    BY ZenonT(30), <1>5, <2>1, <2>2, <2>3
    DEF Request, OpKinds, AddBlocked, RemoveBlocked, AddAllowed, RemoveAllowed,
        CreateRule, SetRule, RenameRule, DeleteRule
<1> QED  BY <1>2, <1>3, <1>4, <1>5 DEF HandlerStep

LEMMA CopiesStep == TypeOK /\ CopiesInv /\ [Next]_vars => CopiesInv'
<1> SUFFICES ASSUME TypeOK, CopiesInv, [Next]_vars PROVE CopiesInv'
  OBVIOUS
<1>t. TypeControl
  BY DEF TypeOK
<1>1. CASE Step /\ History
  <2>1. ASSUME NEW t \in Tasks, PassStep(t) \/ PassFault(t) PROVE CopiesInv'
    BY <1>1, <1>t, <2>1, CopiesPass
  <2>2. ASSUME NEW h \in Handlers, Request(h) \/ HandlerStep(h) \/ HandlerFault(h)
        PROVE  CopiesInv'
    BY <1>1, <1>t, <2>2, CopiesHandler
  <2>3. CASE LoopWakes
    <3>1. Sys \in Tasks  BY DEF Tasks
    <3> QED
      BY <1>1, <1>t, <2>3, <3>1, IdleBrings, CopiesKept DEF LoopWakes, BeginPass, budget
  <2>4. CASE Tick
    BY <1>1, <2>4, CopiesStay DEF Tick, budget
  <2> QED
    BY <1>1, <2>1, <2>2, <2>3, <2>4 DEF Step, SysStep, HandlerRuns, Tasks
<1>2. CASE Restart
  <2>1. CustomTarget' = CustomTarget /\ allowRows' = allowRows
    BY <1>2 DEF Restart, CustomTarget, db
  <2>2. \A t \in Tasks : /\ task'[t].allowed = {}
                         /\ task'[t].at \notin HoldsAllows
    BY <1>2 DEF Restart, BootTasks, IdleTask, HoldsAllows, HoldsList, Tasks
  <2>3. "publishCustom" \in HoldsAllows  BY DEF HoldsAllows, HoldsList
  <2> QED
    BY <1>2, <2>1, <2>2, <2>3 DEF Restart, CopiesInv, AllowsInv, CustomsInv
<1>3. CASE UNCHANGED vars
  BY <1>3 DEF vars, history, db, budget, CopiesInv, AllowsInv, CustomsInv, CustomTarget
<1> QED  BY <1>1, <1>2, <1>3 DEF Next

-----------------------------------------------------------------------------
(* What a step does to the copies: memory changes by a publication, and a  *)
(* failure changes nothing but the count of failures and its task.         *)

MemorySteps ==
    /\ restarts' = restarts
    /\ UNCHANGED <<blockedMem, allowedMem>> \/ \E t \in Tasks : Apply(t)
    /\ UNCHANGED customMem \/ \E t \in Tasks : PublishCustom(t)
    /\ \/ UNCHANGED modeMem
       \/ \E t \in Tasks : PublishMode(t)
       \/ \E h \in Handlers : SetModeMem(h)
    /\ \/ faults' = faults
       \/ faults' = faults + 1 /\ UNCHANGED <<db, now, mem>>

LEMMA WhatSteps == Step => MemorySteps
<1> SUFFICES ASSUME Step PROVE MemorySteps
  OBVIOUS
<1> USE DEF MemorySteps, mem, budget
<1>1. ASSUME NEW t \in Tasks, PassFault(t) PROVE MemorySteps
  BY <1>1 DEF PassFault, ResolveFails, StatementFails, PurgeFails, SpendFault
<1>2. ASSUME NEW h \in Handlers, HandlerFault(h) PROVE MemorySteps
  BY <1>2 DEF HandlerFault, SetModeFails, AuditFails, SpendFault
<1>3. ASSUME NEW t \in Tasks, PassStep(t) PROVE MemorySteps
  <2>1. CASE Resolve(t) \/ ReadBlocked(t) \/ ReadAllowed(t) \/ ReadMode(t) \/ ReadBuiltin(t)
             \/ Seed(t) \/ SeedConflict(t) \/ Reread(t) \/ ReadCustom(t)
    BY <2>1
    DEF Resolve, ReadBlocked, KeepBlocked, ReadAllowed, ReadMode, ReadBuiltin, Seed,
        SeedConflict, Reread, ReadCustom
  <2>2. CASE PublishMode(t)
    BY <2>2 DEF PublishMode, LeaveMode
  <2>3. CASE PublishBuiltin(t) \/ SelectExpired(t) \/ DeleteExpired(t)
    BY <2>3 DEF PublishBuiltin, SelectExpired, DeleteExpired, DeleteRows
  <2>4. CASE PublishCustom(t)
    BY <2>4 DEF PublishCustom, LoadCustom
  <2>5. CASE Apply(t)
    BY <2>5 DEF Apply, SetLists
  <2> QED  BY <1>3, <2>1, <2>2, <2>3, <2>4, <2>5 DEF PassStep
<1>4. ASSUME NEW h \in Handlers, HandlerStep(h) PROVE MemorySteps
  <2>1. CASE SetModeMem(h)  BY <2>1 DEF SetModeMem, EndUpdateMode
  <2>2. CASE Audit(h)  BY <2>2 DEF Audit
  <2> QED  BY <1>4, <2>1, <2>2 DEF HandlerStep
<1>5. ASSUME NEW h \in Handlers, Request(h) PROVE MemorySteps
  <2>1. \E op \in OpKinds : Commit(h, op)
    BY ZenonT(30), <1>5
    DEF Request, OpKinds, AddBlocked, RemoveBlocked, AddAllowed, RemoveAllowed, CreateRule,
        SetRule, RenameRule, DeleteRule, UpdateSettings, UpdateMode
  <2> QED  BY <2>1 DEF Commit
<1>6. CASE LoopWakes  BY <1>6 DEF LoopWakes
<1>7. CASE Tick  BY <1>7 DEF Tick
<1> QED
  BY <1>1, <1>2, <1>3, <1>4, <1>5, <1>6, <1>7 DEF Step, SysStep, HandlerRuns, Tasks

-----------------------------------------------------------------------------
(* The four refinements, step by step.                                     *)

EachInv == TypeOK /\ ListInv /\ ModeInv /\ CopiesInv

LEMMA BlocksStep ==
    ASSUME EachInv, Step, History
    PROVE  Blocks!CopyNext
<1> USE DEF Blocks!CopyNext, db, budget
<1>0. restarts' = restarts  BY WhatSteps DEF MemorySteps
<1>1. faults \in Nat /\ Target \in seen /\ seen' = seen \cup {Target'}
  BY DEF EachInv, TypeOK, TypeControl, ListInv, History
<1>2. CASE \E t \in Tasks : Apply(t)
  <2>1. PICK t \in Tasks : Apply(t)  BY <1>2
  <2>2. blockedMem' = task[t].blocked /\ faults' = faults /\ task[t].at = "apply"
        /\ Target' = Target
    BY <2>1 DEF Apply, SetLists, Target
  <2>3. seen' = seen  BY <1>1, <2>2
  <2>4. CASE blockedMem' \in seen
    BY <1>0, <2>2, <2>3, <2>4 DEF Blocks!Take
  <2>5. CASE blockedMem' \notin seen
    <3>1. blockedMem' = {} /\ faults # 0
      BY <2>2, <2>5 DEF EachInv, ListInv, HoldsList
    <3>2. faults > 0  BY <1>1, <3>1
    <3> QED  BY <1>0, <2>2, <2>3, <3>1, <3>2 DEF Blocks!Lose
  <2> QED  BY <2>4, <2>5
<1>3. CASE UNCHANGED blockedMem /\ faults' = faults
  BY <1>0, <1>1, <1>3 DEF Blocks!Change
<1>4. CASE faults' = faults + 1 /\ UNCHANGED <<db, now, mem>>
  <2>1. Target' = Target /\ blockedMem' = blockedMem  BY <1>4 DEF Target, mem
  <2>2. seen' = seen  BY <1>1, <2>1
  <2>3. faults' > 0  BY <1>1, <1>4
  <2> QED  BY <1>0, <2>1, <2>2, <2>3 DEF Blocks!Fail
<1> QED  BY <1>2, <1>3, <1>4, WhatSteps DEF MemorySteps

LEMMA AllowsStep ==
    ASSUME EachInv, Step, History
    PROVE  Allows!CopyNext
<1> USE DEF Allows!CopyNext, db, budget
<1>0. restarts' = restarts  BY WhatSteps DEF MemorySteps
<1>1. /\ faults \in Nat /\ allowRows[DefaultOrg] \in allowsSeen
      /\ allowsSeen' = allowsSeen \cup {allowRows'[DefaultOrg]}
  BY DEF EachInv, TypeOK, TypeControl, CopiesInv, AllowsInv, History
<1>2. CASE \E t \in Tasks : Apply(t)
  <2>1. PICK t \in Tasks : Apply(t)  BY <1>2
  <2>2. allowedMem' = task[t].allowed /\ faults' = faults /\ task[t].at = "apply"
        /\ allowRows' = allowRows
    BY <2>1 DEF Apply, SetLists
  <2>3. allowsSeen' = allowsSeen  BY <1>1, <2>2
  <2>4. CASE allowedMem' \in allowsSeen
    BY <1>0, <2>2, <2>3, <2>4 DEF Allows!Take
  <2>5. CASE allowedMem' \notin allowsSeen
    <3>1. allowedMem' = {} /\ faults # 0
      BY <2>2, <2>5 DEF EachInv, CopiesInv, AllowsInv, HoldsAllows, HoldsList
    <3>2. faults > 0  BY <1>1, <3>1
    <3> QED  BY <1>0, <2>2, <2>3, <3>1, <3>2 DEF Allows!Lose
  <2> QED  BY <2>4, <2>5
<1>3. CASE UNCHANGED allowedMem /\ faults' = faults
  BY <1>0, <1>1, <1>3 DEF Allows!Change
<1>4. CASE faults' = faults + 1 /\ UNCHANGED <<db, now, mem>>
  <2>1. allowRows' = allowRows /\ allowedMem' = allowedMem  BY <1>4 DEF mem
  <2>2. allowsSeen' = allowsSeen  BY <1>1, <2>1
  <2>3. faults' > 0  BY <1>1, <1>4
  <2> QED  BY <1>0, <2>1, <2>2, <2>3 DEF Allows!Fail
<1> QED  BY <1>2, <1>3, <1>4, WhatSteps DEF MemorySteps

LEMMA ModesStep ==
    ASSUME EachInv, Step, History
    PROVE  Modes!CopyNext
<1> USE DEF Modes!CopyNext, db
<1>0. restarts' = restarts  BY WhatSteps DEF MemorySteps
<1>1. /\ modeRow[DefaultOrg] \in modesSeen
      /\ modesSeen' = modesSeen \cup {modeRow'[DefaultOrg]}
  BY DEF EachInv, ModeInv, History
<1>2. CASE UNCHANGED modeMem
  BY <1>0, <1>1, <1>2 DEF Modes!Change
<1>3. ASSUME modeRow' = modeRow, modeMem' \in modesSeen PROVE Modes!CopyNext
  <2>1. modesSeen' = modesSeen  BY <1>1, <1>3
  <2> QED  BY <1>0, <1>3, <2>1 DEF Modes!Take
<1>4. ASSUME NEW t \in Tasks, PublishMode(t) PROVE Modes!CopyNext
  <2>1. /\ modeRow' = modeRow /\ task[t].mode \in modesSeen
        /\ modeMem' = task[t].mode \/ UNCHANGED modeMem
    BY <1>4 DEF PublishMode, LeaveMode, ModeAfterSet, EachInv, ModeInv
  <2> QED  BY <1>2, <1>3, <2>1
<1>5. ASSUME NEW h \in Handlers, SetModeMem(h) PROVE Modes!CopyNext
  <2>1. /\ modeRow' = modeRow
        /\ \/ UNCHANGED modeMem
           \/ task[h].org = DefaultOrg /\ modeMem' = task[h].mode
    BY <1>5 DEF SetModeMem, EndUpdateMode, ModeAfterSet
  <2>2. task[h].org = DefaultOrg => task[h].mode \in modesSeen
    BY <1>5 DEF SetModeMem, EndUpdateMode, EachInv, ModeInv, Tasks
  <2> QED  BY <1>2, <1>3, <2>1, <2>2
<1> QED  BY <1>2, <1>4, <1>5, WhatSteps DEF MemorySteps

LEMMA CustomsStep ==
    ASSUME EachInv, Step, History
    PROVE  Customs!CopyNext
<1> USE DEF Customs!CopyNext, db
<1>0. restarts' = restarts  BY WhatSteps DEF MemorySteps
<1>1. CustomTarget \in customsSeen /\ customsSeen' = customsSeen \cup {CustomTarget'}
  BY DEF EachInv, CopiesInv, CustomsInv, History
<1>2. CASE UNCHANGED customMem
  BY <1>0, <1>1, <1>2 DEF Customs!Change
<1>3. ASSUME NEW t \in Tasks, PublishCustom(t) PROVE Customs!CopyNext
  <2>1. CustomTarget' = CustomTarget /\ customMem' = task[t].custom
    BY <1>3 DEF PublishCustom, LoadCustom, CustomTarget
  <2>2. task[t].custom \in customsSeen
    BY <1>3 DEF PublishCustom, LoadCustom, EachInv, CopiesInv, CustomsInv
  <2>3. customsSeen' = customsSeen  BY <1>1, <2>1
  <2> QED  BY <1>0, <2>1, <2>2, <2>3 DEF Customs!Take
<1> QED  BY <1>2, <1>3, WhatSteps DEF MemorySteps

\* What the process does when it begins again.
LEMMA CopiesReboot ==
    ASSUME Restart
    PROVE  Blocks!Reboot /\ Allows!Reboot /\ Modes!Reboot /\ Customs!Reboot
BY DEF Restart, db, Target, CustomTarget,
       Blocks!Reboot, Allows!Reboot, Modes!Reboot, Customs!Reboot

EachStep ==
    /\ [Blocks!CopyNext]_(Blocks!copyVars) /\ [Allows!CopyNext]_(Allows!copyVars)
    /\ [Modes!CopyNext]_(Modes!copyVars) /\ [Customs!CopyNext]_(Customs!copyVars)

LEMMA CopiesEachStep == EachInv /\ [Next]_vars => EachStep
<1> SUFFICES ASSUME EachInv, [Next]_vars PROVE EachStep
  OBVIOUS
<1>1. CASE Step /\ History
  BY <1>1, BlocksStep, AllowsStep, ModesStep, CustomsStep DEF EachStep
<1>2. CASE Restart
  BY <1>2, CopiesReboot
  DEF EachStep, Blocks!CopyNext, Allows!CopyNext, Modes!CopyNext, Customs!CopyNext
<1>3. CASE UNCHANGED vars
  BY <1>3
  DEF EachStep, vars, history, db, mem, budget, Target, CustomTarget,
      Blocks!copyVars, Allows!copyVars, Modes!copyVars, Customs!copyVars
<1> QED  BY <1>1, <1>2, <1>3 DEF Next

LEMMA CopiesInitEach ==
    Init => /\ Blocks!CopyInit /\ Allows!CopyInit
            /\ Modes!CopyInit /\ Customs!CopyInit
BY DEF Init, Blocks!CopyInit, Allows!CopyInit, Modes!CopyInit, Customs!CopyInit

\* sync_once implements CopyPromise: whatever passes, requests, failures and
\* restarts interleave, the block list, the allow list, the mode and the custom
\* rules the engine enforces are each what the default organization's table held
\* at one moment since the process began, or what the process began with; only a
\* restart or a failing statement empties a list.
THEOREM Copies == Spec => HoldsCopies
<1>1. Init => EachInv
  BY InitType, ListInit, ModeInit, CopiesInitially DEF EachInv
<1>2. EachInv /\ [Next]_vars => EachInv'
  BY TypeStep, ListStep, ModeStep, CopiesStep DEF EachInv
<1> QED
  BY <1>1, <1>2, CopiesInitEach, CopiesEachStep, PTL
  DEF Spec, HoldsCopies, EachStep,
      Blocks!CopySpec, Allows!CopySpec, Modes!CopySpec, Customs!CopySpec

=============================================================================
