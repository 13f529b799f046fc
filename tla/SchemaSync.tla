----------------------------- MODULE SchemaSync -----------------------------
(***************************************************************************)
(* The profile schema of one organization and what hangs on it: the first  *)
(* enablement of the service by an administrator, the schema sync jobs     *)
(* that follow the identity server's events, and the unification rules     *)
(* that name an attribute of the schema.  They share the database, and     *)
(* each step below is one call of the identity server or one statement.    *)
(*                                                                         *)
(*   internal/admin_config/service, handler, store        at, seen*        *)
(*   internal/profile_schema/service, store               batch, stale     *)
(*   internal/system/client/identity_client.go            Fetch            *)
(*   internal/system/workers/schema_sync_worker.go        queue            *)
(*   internal/unification_rules/service, store            rule*, rules     *)
(*                                                                         *)
(* An identity attribute is a row <<n, c>>: claim c, with the attribute_id *)
(* the n-th fetch gave it.  Transactions read what is committed, as        *)
(* PostgreSQL does by default.  The priority of a rule is left out, and so *)
(* are the traits and the attributes of applications.                      *)
(***************************************************************************)
EXTENDS Integers, FiniteSets

CONSTANTS Claims,     \* SCIM claims the identity server may have
          Admins,     \* handlers of PATCH /admin/configs
          Workers,    \* schema sync workers: one per instance
          Clients,    \* handlers of POST /unification-rules
          QueueSize,  \* slots of a schema sync queue
          NoRow,      \* a client has read no attribute
          MaxChanges, \* changes of the claims (a bound)
          MaxFetches, \* fetches of the claims (a bound)
          Failures    \* may a call fail, or an instance end?

Syncers == Admins \cup Workers
Rows    == Nat \X Claims

ASSUME SyncersAssumption == Admins \cap Workers = {}
ASSUME NoRowAssumption   == NoRow \notin Rows
ASSUME BoundsAssumption  == /\ QueueSize \in Nat /\ MaxChanges \in Nat /\ MaxFetches \in Nat
                            /\ Failures \in BOOLEAN /\ IsFiniteSet(Claims)

VARIABLES
  claims,      \* the claims of the identity server
  changes,     \* how often they have changed
  events,      \* events it has sent and nobody has received yet
  enabled,     \* cds_enabled
  syncDone,    \* initial_schema_sync_done
  categories,  \* mandatory consent categories of the organization
  rows,        \* identity attributes in profile_schema
  rules,       \* property_id of the unification rules
  queue,       \* jobs in the schema sync queue of each worker; all are the same
  at,          \* where each administrator's request and each worker is
  target,      \* cds_enabled as an administrator wants it
  seenEnabled, \* isCDSEnabledInitialState
  seenDone,    \* isInitialSchemaSyncDoneInitialState, then what is to be stored of it
  fetches,     \* fetches so far
  batch,       \* the attributes a sync has fetched
  stale,       \* the rows its transaction deletes
  ruleAt,      \* where each rule request is
  ruleRow,     \* the attribute it has read
  synced,      \* a first enablement has got past its sync
  missed,      \* a change was not heard of, or a sync for it failed or was undone by hand
  overlap      \* a sync fetched while another was under way

serverVars == <<claims, changes, events>>
configVars == <<enabled, syncDone, categories>>
tableVars  == <<rows, rules>>
patchVars  == <<target, seenEnabled, seenDone>>
syncVars   == <<fetches, batch, stale>>
ruleVars   == <<ruleAt, ruleRow>>
ghostVars  == <<synced, missed, overlap>>
vars == <<serverVars, configVars, tableVars, queue, at, patchVars, syncVars, ruleVars, ghostVars>>

-----------------------------------------------------------------------------
TypeOK ==
  /\ claims \subseteq Claims /\ changes \in Nat /\ events \in Nat
  /\ enabled \in BOOLEAN /\ syncDone \in BOOLEAN /\ categories \in Nat
  /\ rows \subseteq Rows /\ rules \subseteq Rows
  /\ queue \in [Workers -> Nat]
  /\ at \in [Syncers -> {"idle", "enabled", "done", "fetch", "replace", "commit",
                         "seed", "insert", "write"}]
  /\ target \in [Admins -> BOOLEAN]
  /\ seenEnabled \in [Admins -> BOOLEAN]
  /\ seenDone \in [Admins -> BOOLEAN]
  /\ fetches \in Nat
  /\ batch \in [Syncers -> SUBSET Rows]
  /\ stale \in [Syncers -> SUBSET Rows]
  /\ ruleAt \in [Clients -> {"idle", "check", "insert"}]
  /\ ruleRow \in [Clients -> Rows \cup {NoRow}]
  /\ synced \in BOOLEAN /\ missed \in BOOLEAN /\ overlap \in BOOLEAN

\* An organization nobody has enabled: no row of cds_config, no attribute.
Init ==
  /\ claims \in SUBSET Claims /\ changes = 0 /\ events = 0
  /\ enabled = FALSE /\ syncDone = FALSE /\ categories = 0
  /\ rows = {} /\ rules = {}
  /\ queue = [w \in Workers |-> 0]
  /\ at = [p \in Syncers |-> "idle"]
  /\ target = [a \in Admins |-> FALSE]
  /\ seenEnabled = [a \in Admins |-> FALSE]
  /\ seenDone = [a \in Admins |-> FALSE]
  /\ fetches = 0
  /\ batch = [p \in Syncers |-> {}]
  /\ stale = [p \in Syncers |-> {}]
  /\ ruleAt = [c \in Clients |-> "idle"]
  /\ ruleRow = [c \in Clients |-> NoRow]
  /\ synced = FALSE /\ missed = FALSE /\ overlap = FALSE

Goes(p, to) == at' = [at EXCEPT ![p] = to]

\* What a handler or a sync holds goes when it returns.
ForgetSync(p) ==
  /\ batch' = [batch EXCEPT ![p] = {}]
  /\ stale' = [stale EXCEPT ![p] = {}]
  /\ UNCHANGED fetches

ForgetPatch(a) ==
  /\ target' = [target EXCEPT ![a] = FALSE]
  /\ seenEnabled' = [seenEnabled EXCEPT ![a] = FALSE]
  /\ seenDone' = [seenDone EXCEPT ![a] = FALSE]

\* The attribute names of a set of rows.
Names(R) == {x[2] : x \in R}

-----------------------------------------------------------------------------
(***************************************************************************)
(* The identity server and its events.                                     *)
(***************************************************************************)

\* A claim is added or deleted, and an event is on its way.
ChangeClaims ==
  /\ changes < MaxChanges
  /\ \E c \in Claims : claims' = IF c \in claims THEN claims \ {c} ELSE claims \cup {c}
  /\ changes' = changes + 1
  /\ events' = events + 1
  /\ UNCHANGED <<configVars, tableVars, queue, at, patchVars, syncVars, ruleVars, ghostVars>>

\* Administrators' requests that will not look at the claims any more.
PastFetch ==
  \E a \in Admins :
    \/ at[a] \in {"replace", "commit", "seed", "insert", "write"}
    \/ at[a] = "done" /\ seenEnabled[a]

\* SyncProfileSchema of the handler: a job for an organization that is enabled.
AcceptEvent(w) ==
  /\ events > 0
  /\ enabled
  /\ queue[w] < QueueSize
  /\ events' = events - 1
  /\ queue' = [queue EXCEPT ![w] = @ + 1]
  /\ UNCHANGED <<claims, changes, configVars, tableVars, at, patchVars, syncVars, ruleVars,
                 ghostVars>>

\* It is answered with an error: not enabled, or IsCDSEnabled could not tell, or the
\* queue is full.  That matters unless a first enablement has yet to fetch.
RefuseEvent ==
  /\ events > 0
  /\ ~enabled \/ Failures \/ \E w \in Workers : queue[w] >= QueueSize
  /\ events' = events - 1
  /\ missed' = (missed \/ enabled \/ syncDone \/ PastFetch)
  /\ UNCHANGED <<claims, changes, configVars, tableVars, queue, at, patchVars, syncVars,
                 ruleVars, synced, overlap>>

-----------------------------------------------------------------------------
(***************************************************************************)
(* SyncProfileSchema of the service, for a worker or a first enablement.   *)
(***************************************************************************)

\* Seeded fault: the worker does not wait for a job.
TakeJob_Unchecked(w) ==
  /\ at[w] = "idle"
  /\ queue' = [queue EXCEPT ![w] = @ - 1]
  /\ Goes(w, "fetch")
  /\ UNCHANGED <<serverVars, configVars, tableVars, patchVars, syncVars, ruleVars, ghostVars>>

\* A job leaves the queue.
TakeJob(w) ==
  /\ at[w] = "idle"
  /\ queue[w] > 0
  /\ queue' = [queue EXCEPT ![w] = @ - 1]
  /\ Goes(w, "fetch")
  /\ UNCHANGED <<serverVars, configVars, tableVars, patchVars, syncVars, ruleVars, ghostVars>>

\* Where a sync returns to.
AfterSync(p) == IF p \in Admins THEN "seed" ELSE "idle"

\* Seeded fault: of the claims that are there, those already in the schema are left out.
Fetched_NewOnly(p, got) == {<<fetches + 1, c>> : c \in got \ Names(rows)}

\* ConvertSCIMClaimWithLocal gives every claim of every fetch a new uuid as attribute_id.
Fetched(p, got) == {<<fetches + 1, c>> : c \in got}

\* GetProfileSchema of the client.  A dialect whose claims cannot be read is skipped with
\* a warning.  Without any claim nothing is written.
Fetch(p) ==
  /\ at[p] = "fetch"
  /\ fetches < MaxFetches
  /\ fetches' = fetches + 1
  /\ \E got \in IF Failures THEN SUBSET claims ELSE {claims} :
       /\ batch' = [batch EXCEPT ![p] = Fetched(p, got)]
       /\ Goes(p, IF got = {} THEN AfterSync(p) ELSE "replace")
       /\ synced' = (synced \/ (got = {} /\ p \in Admins))
       /\ missed' = (missed \/ got # claims)
  /\ overlap' = (overlap \/ \E q \in Syncers \ {p} : at[q] \in {"replace", "commit", "seed", "insert"})
  /\ UNCHANGED <<serverVars, configVars, tableVars, queue, patchVars, stale, ruleVars>>

\* UpsertIdentityAttributes: the insert meets no row with one of its ids, and the delete
\* takes every row of the organization that is committed and not in the batch.
Replace(p) ==
  /\ at[p] = "replace"
  /\ stale' = [stale EXCEPT ![p] = rows \ batch[p]]
  /\ Goes(p, "commit")
  /\ UNCHANGED <<serverVars, configVars, tableVars, queue, patchVars, fetches, batch, ruleVars,
                 ghostVars>>

\* The transaction commits, and ON DELETE CASCADE takes the rules of the rows that go.
Commit(p) ==
  /\ at[p] = "commit"
  /\ rows' = (rows \ stale[p]) \cup batch[p]
  /\ rules' = rules \ stale[p]
  /\ Goes(p, AfterSync(p))
  /\ ForgetSync(p)
  /\ synced' = (synced \/ p \in Admins)
  /\ UNCHANGED <<serverVars, configVars, queue, patchVars, ruleVars, missed, overlap>>

Sync(p) == Fetch(p) \/ Replace(p) \/ Commit(p)

-----------------------------------------------------------------------------
(***************************************************************************)
(* UpdateAdminConfig.                                                      *)
(***************************************************************************)

\* The handler fills in what the request leaves out from the stored configuration, so
\* any value may be asked for.
PatchConfig(a, e) ==
  /\ at[a] = "idle"
  /\ target' = [target EXCEPT ![a] = e]
  /\ Goes(a, "enabled")
  /\ UNCHANGED <<serverVars, configVars, tableVars, queue, seenEnabled, seenDone, syncVars,
                 ruleVars, ghostVars>>

\* IsCDSEnabled and IsInitialSchemaSyncDone answer false when the read fails.
OrFalse(value) == {value} \cup (IF Failures THEN {FALSE} ELSE {})

ReadEnabled(a) ==
  /\ at[a] = "enabled"
  /\ \E v \in OrFalse(enabled) : seenEnabled' = [seenEnabled EXCEPT ![a] = v]
  /\ Goes(a, "done")
  /\ UNCHANGED <<serverVars, configVars, tableVars, queue, target, seenDone, syncVars,
                 ruleVars, ghostVars>>

\* Seeded fault: a flag that cannot be read is taken for set.
ReadDone_OrTrue(a) ==
  /\ at[a] = "done"
  /\ \E v \in {syncDone} \cup (IF Failures THEN {TRUE} ELSE {}) :
       /\ seenDone' = [seenDone EXCEPT ![a] = v]
       /\ Goes(a, IF target[a] /\ ~seenEnabled[a] /\ ~v THEN "fetch" ELSE "write")
  /\ seenEnabled' = [seenEnabled EXCEPT ![a] = FALSE]
  /\ UNCHANGED <<serverVars, configVars, tableVars, queue, target, syncVars, ruleVars, ghostVars>>

\* The first enablement syncs first; any other change is only stored.  Nothing looks at
\* seenEnabled after that.
ReadDone(a) ==
  /\ at[a] = "done"
  /\ \E v \in OrFalse(syncDone) :
       /\ seenDone' = [seenDone EXCEPT ![a] = v]
       /\ Goes(a, IF target[a] /\ ~seenEnabled[a] /\ ~v THEN "fetch" ELSE "write")
  /\ seenEnabled' = [seenEnabled EXCEPT ![a] = FALSE]
  /\ UNCHANGED <<serverVars, configVars, tableVars, queue, target, syncVars, ruleVars, ghostVars>>

\* Seeded fault: the category is inserted without WHERE NOT EXISTS.
SeedCheck_Always(a) ==
  /\ at[a] = "seed"
  /\ seenDone' = [seenDone EXCEPT ![a] = TRUE]
  /\ Goes(a, "insert")
  /\ UNCHANGED <<serverVars, configVars, tableVars, queue, target, seenEnabled, syncVars,
                 ruleVars, ghostVars>>

\* SeedDefaultIdentityDataCategory: INSERT ... WHERE NOT EXISTS looks, then inserts.
SeedCheck(a) ==
  /\ at[a] = "seed"
  /\ seenDone' = [seenDone EXCEPT ![a] = TRUE]
  /\ Goes(a, IF categories = 0 THEN "insert" ELSE "write")
  /\ UNCHANGED <<serverVars, configVars, tableVars, queue, target, seenEnabled, syncVars,
                 ruleVars, ghostVars>>

SeedInsert(a) ==
  /\ at[a] = "insert"
  /\ categories' = categories + 1
  /\ Goes(a, "write")
  /\ UNCHANGED <<serverVars, enabled, syncDone, tableVars, queue, patchVars, syncVars, ruleVars,
                 ghostVars>>

\* UpdateAdminConfig of the store: both flags in one transaction.
Write(a) ==
  /\ at[a] = "write"
  /\ enabled' = target[a]
  /\ syncDone' = seenDone[a]
  /\ Goes(a, "idle")
  /\ ForgetPatch(a)
  /\ UNCHANGED <<serverVars, categories, tableVars, queue, syncVars, ruleVars, ghostVars>>

-----------------------------------------------------------------------------
\* A call fails, a transaction rolls back, or the instance ends: the request or the job
\* ends where it is.  A job is not tried again.
FailPatch(a) ==
  /\ Failures
  /\ at[a] # "idle"
  /\ Goes(a, "idle")
  /\ ForgetPatch(a) /\ ForgetSync(a)
  /\ UNCHANGED <<serverVars, configVars, tableVars, queue, ruleVars, ghostVars>>

FailJob(w) ==
  /\ Failures
  /\ at[w] # "idle"
  /\ Goes(w, "idle")
  /\ ForgetSync(w)
  /\ missed' = TRUE
  /\ UNCHANGED <<serverVars, configVars, tableVars, queue, patchVars, ruleVars, synced, overlap>>

\* The queue of an instance that ends goes with it.
LoseQueue(w) ==
  /\ Failures
  /\ queue[w] > 0
  /\ queue' = [queue EXCEPT ![w] = 0]
  /\ missed' = TRUE
  /\ UNCHANGED <<serverVars, configVars, tableVars, at, patchVars, syncVars, ruleVars, synced,
                 overlap>>

-----------------------------------------------------------------------------
(***************************************************************************)
(* Unification rules, and attributes deleted by hand.                      *)
(***************************************************************************)

\* AddUnificationRule reads the attribute its property names.
ReadAttribute(c) ==
  /\ ruleAt[c] = "idle"
  /\ enabled
  /\ \E x \in rows : ruleRow' = [ruleRow EXCEPT ![c] = x]
  /\ ruleAt' = [ruleAt EXCEPT ![c] = "check"]
  /\ UNCHANGED <<serverVars, configVars, tableVars, queue, at, patchVars, syncVars, ghostVars>>

RuleRequestEnds(c) ==
  /\ ruleAt' = [ruleAt EXCEPT ![c] = "idle"]
  /\ ruleRow' = [ruleRow EXCEPT ![c] = NoRow]

\* Then the rules there are: one for that property, and the request ends.
CheckRules(c) ==
  /\ ruleAt[c] = "check"
  /\ IF ruleRow[c][2] \in Names(rules)
     THEN RuleRequestEnds(c)
     ELSE ruleAt' = [ruleAt EXCEPT ![c] = "insert"] /\ UNCHANGED ruleRow
  /\ UNCHANGED <<serverVars, configVars, tableVars, queue, at, patchVars, syncVars, ghostVars>>

\* A row that a transaction is about to delete is locked.
Locked(x) == \E p \in Syncers : at[p] = "commit" /\ x \in stale[p]

\* The insert waits for the lock its foreign key needs, and fails when the row is gone.
InsertRule(c) ==
  /\ ruleAt[c] = "insert"
  /\ ~Locked(ruleRow[c])
  /\ rules' = rules \cup ({ruleRow[c]} \cap rows)
  /\ RuleRequestEnds(c)
  /\ UNCHANGED <<serverVars, configVars, rows, queue, at, patchVars, syncVars, ghostVars>>

DeleteRule ==
  /\ enabled
  /\ \E x \in rules : rules' = rules \ {x}
  /\ UNCHANGED <<serverVars, configVars, rows, queue, at, patchVars, syncVars, ruleVars,
                 ghostVars>>

\* DeleteProfileSchemaAttributeById takes an identity attribute as well.
DeleteAttribute ==
  /\ enabled
  /\ \E x \in rows : rows' = rows \ {x} /\ rules' = rules \ {x}
  /\ missed' = TRUE
  /\ UNCHANGED <<serverVars, configVars, queue, at, patchVars, syncVars, ruleVars, synced,
                 overlap>>

-----------------------------------------------------------------------------
Admin(a) ==
  \/ \E e \in BOOLEAN : PatchConfig(a, e)
  \/ ReadEnabled(a) \/ ReadDone(a) \/ SeedCheck(a) \/ SeedInsert(a) \/ Write(a)
  \/ FailPatch(a)

Client(c) == ReadAttribute(c) \/ CheckRules(c) \/ InsertRule(c)

Next ==
  \/ ChangeClaims \/ RefuseEvent
  \/ \E w \in Workers : AcceptEvent(w) \/ TakeJob(w) \/ FailJob(w) \/ LoseQueue(w)
  \/ \E a \in Admins : Admin(a)
  \/ \E p \in Syncers : Sync(p)
  \/ \E c \in Clients : Client(c)
  \/ DeleteRule \/ DeleteAttribute

Spec == Init /\ [][Next]_vars

-----------------------------------------------------------------------------
\* What a first enablement sees to.
Ready == synced /\ categories >= 1

\* schema-sync.md: the flag "is set once this completes successfully".  Whatever fails and
\* whoever else enables or disables meanwhile, an organization is enabled only after a
\* schema sync went through and with its mandatory consent category there.
EnabledMeansReady == enabled \/ syncDone => Ready

\* consent.md: every organization has "a built-in consent category".  A first enablement
\* that failed half-way and is tried again does not leave two.
SeededOnce == categories > 1 => overlap

\* Nothing is under way and no event is waiting.
Settled ==
  /\ events = 0
  /\ \A p \in Syncers : at[p] = "idle"
  /\ \A w \in Workers : queue[w] = 0

\* profile-schema.md: the sync keeps the identity attributes "aligned with IS claim
\* dialects".  Unless a change was missed or two syncs ran at once, each claim is one
\* attribute and each attribute a claim; only an empty answer is not followed.
SchemaFollowsServer ==
  Settled /\ enabled /\ ~missed /\ ~overlap /\ claims # {} =>
    Names(rows) = claims /\ Cardinality(rows) = Cardinality(claims)

\* unification-rules.md: property_id is "the attribute_id of the schema attribute being
\* matched".  It is one that exists, though syncs replace the rows between the read of the
\* attribute and the insert of the rule.
RuleHasAttribute == rules \subseteq rows

\* UpsertIdentityAttributes: the sync "preserves FK references in unification_rules".  A
\* rule goes with its attribute only when the schema has no attribute of that name left.
RulesSurviveSync ==
  [][\A x \in rules : x \notin rules' /\ x \notin rows' => x[2] \notin Names(rows')]_vars
=============================================================================
