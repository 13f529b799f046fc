------------------------- MODULE SchemaSync_proofs -------------------------
(***************************************************************************)
(* What SchemaSync promises for any number of administrators, instances,   *)
(* clients and claims, and for any bounds: an organization is enabled only *)
(* when it is ready and has one consent category, a unification rule names *)
(* an attribute that is there, and the schema comes to follow the claims.  *)
(***************************************************************************)
EXTENDS SchemaSync, FiniteSetTheorems, TLAPS

-----------------------------------------------------------------------------
(* Type correctness.                                                       *)

\* Rows of a fetch are rows.
LEMMA FetchedRows ==
  ASSUME TypeOK, NEW p \in Syncers, NEW got \in SUBSET claims
  PROVE  Fetched(p, got) \subseteq Rows
BY DEF TypeOK, Fetched, Rows

\* Every variable keeps its type: the steps of a sync.
LEMMA SyncTypes ==
  ASSUME TypeOK, NEW p \in Syncers, Sync(p)
  PROVE  TypeOK'
<1>1. CASE Fetch(p)
  <2> USE <1>1
  <2>1. PICK got \in SUBSET claims :
          /\ batch' = [batch EXCEPT ![p] = Fetched(p, got)]
          /\ at' = [at EXCEPT ![p] = IF got = {} THEN AfterSync(p) ELSE "replace"]
          /\ synced' = (synced \/ (got = {} /\ p \in Admins))
          /\ missed' = (missed \/ got # claims)
    BY DEF Fetch, Goes
  <2>2. batch' \in [Syncers -> SUBSET Rows]
    BY <2>1, FetchedRows DEF TypeOK
  <2>3. at' \in [Syncers -> {"idle", "enabled", "done", "fetch", "replace", "commit",
                             "seed", "insert", "write"}]
    BY <2>1 DEF TypeOK, AfterSync
  <2>4. synced' \in BOOLEAN /\ missed' \in BOOLEAN /\ overlap' \in BOOLEAN
    BY <2>1 DEF TypeOK, Fetch
  <2>5. fetches' \in Nat
    BY DEF TypeOK, Fetch
  <2> QED
    BY <2>2, <2>3, <2>4, <2>5
    DEF TypeOK, Fetch, serverVars, configVars, tableVars, patchVars, ruleVars
<1>2. CASE Replace(p)
  BY <1>2 DEF Replace, TypeOK, Goes, serverVars, configVars, tableVars, patchVars, ruleVars,
              ghostVars
<1>3. CASE Commit(p)
  BY <1>3 DEF Commit, TypeOK, Goes, AfterSync, ForgetSync, serverVars, configVars, patchVars,
              ruleVars
<1> QED
  BY <1>1, <1>2, <1>3 DEF Sync

\* The steps of an administrator's request.
LEMMA AdminTypes ==
  ASSUME TypeOK, NEW a \in Admins, Admin(a)
  PROVE  TypeOK'
<1> USE DEF TypeOK, Goes, Syncers, serverVars, configVars, tableVars, syncVars, ruleVars, ghostVars
<1>1. ASSUME NEW e \in BOOLEAN, PatchConfig(a, e) PROVE TypeOK'
  BY <1>1 DEF PatchConfig
<1>2. CASE ReadEnabled(a)
  <2>1. \A v \in OrFalse(enabled) : v \in BOOLEAN
    BY DEF OrFalse
  <2> QED
    BY <1>2, <2>1 DEF ReadEnabled
<1>3. CASE ReadDone(a)
  <2>1. \A v \in OrFalse(syncDone) : v \in BOOLEAN
    BY DEF OrFalse
  <2> QED
    BY <1>3, <2>1 DEF ReadDone
<1>4. CASE SeedCheck(a)
  BY <1>4 DEF SeedCheck
<1>5. CASE SeedInsert(a)
  BY <1>5 DEF SeedInsert, patchVars
<1>6. CASE Write(a)
  BY <1>6 DEF Write, ForgetPatch
<1>7. CASE FailPatch(a)
  BY <1>7 DEF FailPatch, ForgetPatch, ForgetSync
<1> QED
  BY <1>1, <1>2, <1>3, <1>4, <1>5, <1>6, <1>7 DEF Admin

\* The steps of a client that adds a rule.
LEMMA ClientTypes ==
  ASSUME TypeOK, NEW c \in Clients, Client(c)
  PROVE  TypeOK'
<1> USE DEF TypeOK, serverVars, configVars, tableVars, patchVars, syncVars, ghostVars,
            RuleRequestEnds
<1>1. CASE ReadAttribute(c)
  BY <1>1 DEF ReadAttribute
<1>2. CASE CheckRules(c)
  BY <1>2 DEF CheckRules
<1>3. CASE InsertRule(c)
  BY <1>3 DEF InsertRule
<1> QED
  BY <1>1, <1>2, <1>3 DEF Client

\* The steps of the event queue.
LEMMA QueueTypes ==
  ASSUME TypeOK, NEW w \in Workers,
         AcceptEvent(w) \/ TakeJob(w) \/ FailJob(w) \/ LoseQueue(w)
  PROVE  TypeOK'
<1> USE DEF TypeOK, Goes, Syncers, serverVars, configVars, tableVars, patchVars, syncVars,
            ruleVars, ghostVars
<1>1. CASE AcceptEvent(w)
  BY <1>1 DEF AcceptEvent
<1>2. CASE TakeJob(w)
  BY <1>2 DEF TakeJob
<1>3. CASE FailJob(w)
  BY <1>3 DEF FailJob, ForgetSync
<1>4. CASE LoseQueue(w)
  BY <1>4 DEF LoseQueue
<1> QED
  BY <1>1, <1>2, <1>3, <1>4

\* The type invariant is inductive: one step per actor.
LEMMA TypeStep ==
  ASSUME TypeOK, [Next]_vars
  PROVE  TypeOK'
<1>1. CASE ChangeClaims
  BY <1>1 DEF ChangeClaims, TypeOK, configVars, tableVars, patchVars, syncVars, ruleVars, ghostVars
<1>2. CASE RefuseEvent
  <2>1. missed' \in BOOLEAN
    BY <1>2 DEF RefuseEvent
  <2>2. events' \in Nat
    BY <1>2 DEF RefuseEvent, TypeOK
  <2> QED
    BY <1>2, <2>1, <2>2
    DEF RefuseEvent, TypeOK, configVars, tableVars, patchVars, syncVars, ruleVars
<1>3. ASSUME NEW w \in Workers, AcceptEvent(w) \/ TakeJob(w) \/ FailJob(w) \/ LoseQueue(w)
      PROVE  TypeOK'
  BY <1>3, QueueTypes
<1>4. ASSUME NEW a \in Admins, Admin(a) PROVE TypeOK'
  BY <1>4, AdminTypes
<1>5. ASSUME NEW p \in Syncers, Sync(p) PROVE TypeOK'
  BY <1>5, SyncTypes
<1>6. ASSUME NEW c \in Clients, Client(c) PROVE TypeOK'
  BY <1>6, ClientTypes
<1>7. CASE DeleteRule
  BY <1>7 DEF DeleteRule, TypeOK, serverVars, configVars, patchVars, syncVars, ruleVars, ghostVars
<1>8. CASE DeleteAttribute
  BY <1>8 DEF DeleteAttribute, TypeOK, serverVars, configVars, patchVars, syncVars, ruleVars
<1>9. CASE UNCHANGED vars
  BY <1>9 DEF vars, TypeOK, serverVars, configVars, tableVars, patchVars, syncVars, ruleVars,
              ghostVars
<1> QED
  BY <1>1, <1>2, <1>3, <1>4, <1>5, <1>6, <1>7, <1>8, <1>9 DEF Next

\* Every variable keeps its type, for every value of the constants; in particular no
\* queue of the schema sync worker is taken from when it is empty.
THEOREM TypeCorrect == Spec => []TypeOK
<1>1. ASSUME Init PROVE TypeOK
  <2>1. at \in [Syncers -> {"idle", "enabled", "done", "fetch", "replace", "commit",
                            "seed", "insert", "write"}]
    BY <1>1 DEF Init
  <2>2. batch \in [Syncers -> SUBSET Rows] /\ stale \in [Syncers -> SUBSET Rows]
    BY <1>1 DEF Init
  <2>3. ruleAt \in [Clients -> {"idle", "check", "insert"}] /\ ruleRow \in [Clients -> Rows \cup {NoRow}]
    BY <1>1 DEF Init
  <2>4. queue \in [Workers -> Nat]
    BY <1>1 DEF Init
  <2>5. /\ target \in [Admins -> BOOLEAN] /\ seenEnabled \in [Admins -> BOOLEAN]
        /\ seenDone \in [Admins -> BOOLEAN]
    BY <1>1 DEF Init
  <2>6. claims \subseteq Claims /\ rows \subseteq Rows /\ rules \subseteq Rows
    BY <1>1 DEF Init
  <2> QED
    BY <1>1, <2>1, <2>2, <2>3, <2>4, <2>5, <2>6 DEF Init, TypeOK
<1> QED
  BY <1>1, TypeStep, PTL DEF Spec

-----------------------------------------------------------------------------
(***************************************************************************)
(* An enabled organization is ready.  No other request can be relied on:   *)
(* each one that is about to store cds_enabled or initial_schema_sync_done *)
(* has itself seen to what is needed, or has seen one of the flags set.    *)
(***************************************************************************)

\* A flag that is stored.
FlagInv == enabled \/ syncDone => Ready

\* A flag a request has read set, or will store as set.
ReadInv ==
  \A a \in Admins :
    /\ seenEnabled[a] => Ready
    /\ seenDone[a] => Ready \/ at[a] = "insert"

\* How far a request has come.
PatchInv ==
  \A a \in Admins :
    /\ at[a] \in {"seed", "insert"} => synced
    /\ at[a] = "write" /\ target[a] => Ready

EnabledInv == FlagInv /\ ReadInv /\ PatchInv

\* A step that stores nothing, and after which every request is where it was.
LEMMA OtherSteps ==
  ASSUME EnabledInv,
         UNCHANGED <<enabled, syncDone, categories, target, seenEnabled, seenDone, synced>>,
         \A a \in Admins : at'[a] = at[a]
  PROVE  EnabledInv'
BY DEF EnabledInv, FlagInv, ReadInv, PatchInv, Ready

\* The steps of an administrator's request.  Nothing takes the sync or a category back.
LEMMA AdminReady ==
  ASSUME TypeOK, EnabledInv, NEW a \in Admins, Admin(a)
  PROVE  EnabledInv'
<1> USE DEF EnabledInv, FlagInv, ReadInv, PatchInv, Ready
<1>0. \A s : \A b \in Admins : [at EXCEPT ![a] = s][b] = IF b = a THEN s ELSE at[b]
  BY DEF TypeOK, Syncers
<1>1. ASSUME NEW e \in BOOLEAN, PatchConfig(a, e) PROVE EnabledInv'
  BY <1>0, <1>1 DEF PatchConfig, TypeOK, Goes, configVars, ghostVars
<1>2. CASE ReadEnabled(a)
  <2>1. \A v \in OrFalse(enabled) : v => enabled
    BY DEF OrFalse
  <2> QED
    BY <1>0, <1>2, <2>1 DEF ReadEnabled, TypeOK, Goes, configVars, ghostVars
<1>3. CASE ReadDone(a)
  <2>1. \A v \in OrFalse(syncDone) : v => syncDone
    BY DEF OrFalse
  <2>2. PICK v \in OrFalse(syncDone) :
          /\ seenDone' = [seenDone EXCEPT ![a] = v]
          /\ at' = [at EXCEPT ![a] =
                      IF target[a] /\ ~seenEnabled[a] /\ ~v THEN "fetch" ELSE "write"]
    BY <1>3 DEF ReadDone, Goes
  <2> QED
    BY <1>0, <1>3, <2>1, <2>2 DEF ReadDone, TypeOK, configVars, ghostVars
<1>4. CASE SeedCheck(a)
  <2>1. \A b \in Admins : at'[b] = IF b = a THEN IF categories = 0 THEN "insert" ELSE "write"
                                            ELSE at[b]
    BY <1>4 DEF SeedCheck, TypeOK, Goes, Syncers
  <2>2. synced /\ (categories # 0 => Ready)
    BY <1>4 DEF SeedCheck, TypeOK
  <2>3. Ready => Ready'
    BY <1>4 DEF SeedCheck, configVars, ghostVars
  <2> QED
    BY <1>4, <2>1, <2>2, <2>3 DEF SeedCheck, TypeOK, configVars, ghostVars
<1>5. CASE SeedInsert(a)
  BY <1>0, <1>5 DEF SeedInsert, TypeOK, Goes, patchVars, ghostVars
<1>6. CASE Write(a)
  BY <1>0, <1>6 DEF Write, ForgetPatch, TypeOK, Goes, ghostVars
<1>7. CASE FailPatch(a)
  BY <1>0, <1>7 DEF FailPatch, ForgetPatch, TypeOK, Goes, configVars, ghostVars
<1> QED
  BY <1>1, <1>2, <1>3, <1>4, <1>5, <1>6, <1>7 DEF Admin

\* The steps of a sync: a request goes on to the category only when its sync went through.
LEMMA SyncReady ==
  ASSUME TypeOK, EnabledInv, NEW p \in Syncers, Sync(p)
  PROVE  EnabledInv'
<1> USE DEF EnabledInv, FlagInv, ReadInv, PatchInv, Ready, configVars, patchVars
<1> DEFINE Moved ==
      \A b \in Admins : \/ at'[b] = at[b]
                        \/ at[b] # "insert" /\ at'[b] \in {"replace", "commit"}
                        \/ at[b] # "insert" /\ at'[b] = "seed" /\ synced'
<1>0. ASSUME UNCHANGED <<configVars, patchVars>>, synced => synced', Moved
      PROVE  EnabledInv'
  BY <1>0
<1>1. CASE Fetch(p)
  <2>1. PICK got :
          /\ at' = [at EXCEPT ![p] = IF got = {} THEN AfterSync(p) ELSE "replace"]
          /\ synced' = (synced \/ (got = {} /\ p \in Admins))
    BY <1>1 DEF Fetch, Goes
  <2>2. \A b \in Admins : at'[b] = IF b # p THEN at[b]
                                   ELSE IF got = {} THEN "seed" ELSE "replace"
    BY <2>1 DEF TypeOK, AfterSync, Syncers
  <2>3. (synced => synced') /\ (p \in Admins /\ got = {} => synced')
    BY <2>1
  <2> QED
    BY <1>0, <1>1, <2>2, <2>3 DEF Fetch, Moved
<1>2. CASE Replace(p)
  <2>1. \A b \in Admins : at'[b] = IF b = p THEN "commit" ELSE at[b]
    BY <1>2 DEF Replace, Goes, TypeOK, Syncers
  <2> QED
    BY <1>0, <1>2, <2>1 DEF Replace, Moved, ghostVars
<1>3. CASE Commit(p)
  <2>1. \A b \in Admins : at'[b] = IF b = p THEN "seed" ELSE at[b]
    BY <1>3 DEF Commit, AfterSync, Goes, TypeOK, Syncers
  <2>2. (synced => synced') /\ (p \in Admins => synced')
    BY <1>3 DEF Commit
  <2> QED
    BY <1>0, <1>3, <2>1, <2>2 DEF Commit, Moved
<1> QED
  BY <1>1, <1>2, <1>3 DEF Sync

LEMMA EnabledStep ==
  ASSUME TypeOK, EnabledInv, [Next]_vars
  PROVE  EnabledInv'
<1>1. ASSUME NEW w \in Workers, AcceptEvent(w) \/ TakeJob(w) \/ FailJob(w) \/ LoseQueue(w)
      PROVE  EnabledInv'
  <2>1. \A a \in Admins : at'[a] = at[a]
    BY <1>1, SyncersAssumption
    DEF AcceptEvent, TakeJob, FailJob, LoseQueue, Goes, TypeOK, Syncers
  <2> QED
    BY <1>1, <2>1, OtherSteps
    DEF AcceptEvent, TakeJob, FailJob, LoseQueue, configVars, patchVars, ghostVars
<1>2. ASSUME NEW a \in Admins, Admin(a) PROVE EnabledInv'
  BY <1>2, AdminReady
<1>3. ASSUME NEW p \in Syncers, Sync(p) PROVE EnabledInv'
  BY <1>3, SyncReady
<1>4. ASSUME NEW c \in Clients, Client(c) PROVE EnabledInv'
  BY <1>4, OtherSteps
  DEF Client, ReadAttribute, CheckRules, InsertRule, configVars, patchVars, ghostVars
<1>5. CASE ChangeClaims \/ RefuseEvent \/ DeleteRule \/ DeleteAttribute
  BY <1>5, OtherSteps
  DEF ChangeClaims, RefuseEvent, DeleteRule, DeleteAttribute, configVars, patchVars, ghostVars
<1>6. CASE UNCHANGED vars
  BY <1>6, OtherSteps DEF vars, configVars, patchVars, ghostVars
<1> QED
  BY <1>1, <1>2, <1>3, <1>4, <1>5, <1>6 DEF Next

\* However requests of administrators overlap and wherever they fail, an organization is
\* enabled only after a sync went through and with its mandatory category there.
THEOREM EnabledSafety == Spec => []EnabledMeansReady
<1>1. Init => EnabledInv
  <2>1. ASSUME Init PROVE FlagInv /\ ReadInv
    BY <2>1 DEF Init, FlagInv, ReadInv
  <2>2. ASSUME Init, NEW a \in Admins PROVE at[a] = "idle"
    BY <2>2 DEF Init, Syncers
  <2> QED
    BY <2>1, <2>2 DEF EnabledInv, PatchInv
<1>2. TypeOK /\ EnabledInv /\ [Next]_vars => EnabledInv'
  BY EnabledStep
<1>3. EnabledInv => EnabledMeansReady
  BY DEF EnabledInv, FlagInv, EnabledMeansReady
<1> QED
  BY <1>1, <1>2, <1>3, TypeCorrect, PTL DEF Spec

-----------------------------------------------------------------------------
(***************************************************************************)
(* Rules and attributes.                                                   *)
(***************************************************************************)

\* A sync replaces the rows, an attribute is deleted and a rule is added to a row that may
\* be gone by then; a rule still names a row that is there.
THEOREM RuleSafety == Spec => []RuleHasAttribute
<1>1. Init => RuleHasAttribute
  BY DEF Init, RuleHasAttribute
<1>2. ASSUME RuleHasAttribute, [Next]_vars PROVE RuleHasAttribute'
  <2> USE <1>2 DEF RuleHasAttribute
  <2>1. ASSUME UNCHANGED tableVars PROVE RuleHasAttribute'
    BY <2>1 DEF tableVars
  <2>2. ASSUME NEW p \in Syncers, Sync(p) PROVE RuleHasAttribute'
    BY <2>1, <2>2 DEF Sync, Fetch, Replace, Commit
  <2>3. ASSUME NEW c \in Clients, Client(c) PROVE RuleHasAttribute'
    BY <2>1, <2>3 DEF Client, ReadAttribute, CheckRules, InsertRule
  <2>4. ASSUME NEW a \in Admins, Admin(a) PROVE RuleHasAttribute'
    BY <2>1, <2>4
    DEF Admin, PatchConfig, ReadEnabled, ReadDone, SeedCheck, SeedInsert, Write, FailPatch
  <2>5. ASSUME NEW w \in Workers, AcceptEvent(w) \/ TakeJob(w) \/ FailJob(w) \/ LoseQueue(w)
        PROVE  RuleHasAttribute'
    BY <2>1, <2>5 DEF AcceptEvent, TakeJob, FailJob, LoseQueue
  <2>6. CASE DeleteRule \/ DeleteAttribute
    BY <2>6 DEF DeleteRule, DeleteAttribute
  <2>7. CASE ChangeClaims \/ RefuseEvent \/ UNCHANGED vars
    BY <2>1, <2>7 DEF ChangeClaims, RefuseEvent, vars
  <2> QED
    BY <1>2, <2>2, <2>3, <2>4, <2>5, <2>6, <2>7 DEF Next
<1> QED
  BY <1>1, <1>2, PTL DEF Spec

-----------------------------------------------------------------------------
(***************************************************************************)
(* Syncs that do not overlap.  What is said of them is said as long as no  *)
(* sync has fetched while another was past its fetch.                      *)
(***************************************************************************)

\* From its fetch to its category, a request or a job can be overtaken.
Late == {"replace", "commit", "seed", "insert"}

\* One is late at a time, and so the one that found no category is the one to insert it.
LateInv == \A p, q \in Syncers : at[p] \in Late /\ at[q] \in Late => p = q
SeedInv == /\ categories <= 1
           /\ \A a \in Admins : at[a] = "insert" => categories = 0

OnceInv == ~overlap => LateInv /\ SeedInv

\* A step after which nobody is late who was not.
LEMMA OnceOther ==
  ASSUME OnceInv, UNCHANGED <<overlap, categories>>,
         \A q \in Syncers : /\ at'[q] \in Late => at[q] \in Late
                            /\ at'[q] = "insert" => at[q] = "insert"
  PROVE  OnceInv'
BY DEF OnceInv, LateInv, SeedInv, Syncers

\* Where everybody is after a step of one.
LEMMA Moved ==
  ASSUME TypeOK, NEW p \in Syncers
  PROVE  \A s : at' = [at EXCEPT ![p] = s] =>
           \A q \in Syncers : at'[q] = IF q = p THEN s ELSE at[q]
BY DEF TypeOK

LEMMA OnceStep ==
  ASSUME TypeOK, OnceInv, [Next]_vars
  PROVE  OnceInv'
<1>1. ASSUME NEW p \in Syncers, Sync(p) PROVE OnceInv'
  <2>1. CASE Fetch(p)
    <3>1. PICK to : at' = [at EXCEPT ![p] = to]
      BY <2>1 DEF Fetch, Goes
    <3>2. \A q \in Syncers : q # p => at'[q] = at[q]
      BY <3>1, Moved
    <3>3. ~overlap' => ~overlap /\ \A q \in Syncers \ {p} : at[q] \notin Late
      BY <2>1 DEF Fetch, Late
    <3>4. at'[p] # "insert" /\ categories' = categories
      BY <2>1, Moved DEF Fetch, Goes, AfterSync, configVars
    <3> QED
      BY <3>2, <3>3, <3>4 DEF OnceInv, LateInv, SeedInv, Syncers
  <2>2. CASE Replace(p)
    BY <2>2, Moved, OnceOther DEF Replace, Goes, Late, configVars, ghostVars
  <2>3. CASE Commit(p)
    BY <2>3, Moved, OnceOther DEF Commit, Goes, AfterSync, Late, configVars
  <2> QED
    BY <1>1, <2>1, <2>2, <2>3 DEF Sync
<1>2. ASSUME NEW a \in Admins, Admin(a) PROVE OnceInv'
  <2>0. a \in Syncers
    BY DEF Syncers
  <2>1. ASSUME NEW e \in BOOLEAN, PatchConfig(a, e) PROVE OnceInv'
    BY <2>0, <2>1, Moved, OnceOther DEF PatchConfig, Goes, Late, configVars, ghostVars
  <2>2. CASE ReadEnabled(a)
    BY <2>0, <2>2, Moved, OnceOther DEF ReadEnabled, Goes, Late, configVars, ghostVars
  <2>3. CASE ReadDone(a)
    <3>1. PICK to \in {"fetch", "write"} : at' = [at EXCEPT ![a] = to]
      BY <2>3 DEF ReadDone, Goes
    <3> QED
      BY <2>0, <2>3, <3>1, Moved, OnceOther DEF ReadDone, Late, configVars, ghostVars
  <2>4. CASE SeedCheck(a)
    <3>1. \A q \in Syncers : at'[q] = IF q = a THEN IF categories = 0 THEN "insert" ELSE "write"
                                               ELSE at[q]
      BY <2>0, <2>4, Moved DEF SeedCheck, Goes
    <3>2. at[a] \in Late /\ UNCHANGED <<overlap, categories>>
      BY <2>4 DEF SeedCheck, Late, configVars, ghostVars
    <3> QED
      BY <2>0, <3>1, <3>2 DEF OnceInv, LateInv, SeedInv, Late, Syncers
  <2>5. CASE SeedInsert(a)
    <3>1. \A q \in Syncers : at'[q] = IF q = a THEN "write" ELSE at[q]
      BY <2>0, <2>5, Moved DEF SeedInsert, Goes
    <3>2. at[a] = "insert" /\ overlap' = overlap /\ categories' = categories + 1
      BY <2>5 DEF SeedInsert, ghostVars
    <3> QED
      BY <2>0, <3>1, <3>2 DEF OnceInv, LateInv, SeedInv, Late, Syncers
  <2>6. CASE Write(a)
    BY <2>0, <2>6, Moved, OnceOther DEF Write, Goes, Late, ghostVars
  <2>7. CASE FailPatch(a)
    BY <2>0, <2>7, Moved, OnceOther DEF FailPatch, Goes, Late, configVars, ghostVars
  <2> QED
    BY <1>2, <2>1, <2>2, <2>3, <2>4, <2>5, <2>6, <2>7 DEF Admin
<1>3. ASSUME NEW w \in Workers, AcceptEvent(w) \/ TakeJob(w) \/ FailJob(w) \/ LoseQueue(w)
      PROVE  OnceInv'
  <2>0. w \in Syncers
    BY DEF Syncers
  <2>1. CASE AcceptEvent(w) \/ LoseQueue(w)
    BY <2>1, OnceOther DEF AcceptEvent, LoseQueue, configVars, ghostVars
  <2>2. CASE TakeJob(w) \/ FailJob(w)
    BY <2>0, <2>2, Moved, OnceOther DEF TakeJob, FailJob, Goes, Late, configVars, ghostVars
  <2> QED
    BY <1>3, <2>1, <2>2
<1>4. ASSUME NEW c \in Clients, Client(c) PROVE OnceInv'
  BY <1>4, OnceOther DEF Client, ReadAttribute, CheckRules, InsertRule, configVars, ghostVars
<1>5. CASE ChangeClaims \/ RefuseEvent \/ DeleteRule \/ DeleteAttribute
  BY <1>5, OnceOther
  DEF ChangeClaims, RefuseEvent, DeleteRule, DeleteAttribute, configVars, ghostVars
<1>6. CASE UNCHANGED vars
  BY <1>6, OnceOther DEF vars, configVars, ghostVars
<1> QED
  BY <1>1, <1>2, <1>3, <1>4, <1>5, <1>6 DEF Next

LEMMA OnceInvariant == Spec => []OnceInv
<1>1. ASSUME Init PROVE OnceInv
  <2>1. \A p \in Syncers : at[p] = "idle"
    BY <1>1 DEF Init
  <2> QED
    BY <1>1, <2>1 DEF Init, OnceInv, LateInv, SeedInv, Late, Syncers
<1> QED
  BY <1>1, OnceStep, TypeCorrect, PTL DEF Spec

\* A first enablement that fails anywhere, and is tried again by whoever, leaves one
\* consent category, unless two of them fetched at once.
THEOREM SeedSafety == Spec => []SeededOnce
<1>1. TypeOK /\ OnceInv => SeededOnce
  BY DEF TypeOK, OnceInv, SeedInv, SeededOnce
<1> QED
  BY <1>1, OnceInvariant, TypeCorrect, PTL

-----------------------------------------------------------------------------
(***************************************************************************)
(* The schema follows the claims.  As long as no change was missed and no  *)
(* two syncs overlapped, an organization that is enabled, or is about to   *)
(* be, has the claims as its attributes, or something is on its way that   *)
(* will see to it.                                                         *)
(***************************************************************************)

\* Each claim is one attribute of R, and each attribute a claim.
OnePerName(R) == \A x, y \in R : x[2] = y[2] => x = y
Current(R) == Names(R) = claims /\ OnePerName(R)

\* Past the fetch, and not yet committed.
Writing(p) == at[p] \in {"replace", "commit"}

\* On its way: an event, a job, or the sync of a job with what is current.
Coming ==
  \/ events > 0
  \/ \E w \in Workers : \/ queue[w] > 0
                        \/ at[w] = "fetch"
                        \/ Writing(w) /\ Current(batch[w])

\* The organization is enabled or was, as far as it is known to a request that may still
\* store that.
Watching ==
  \/ enabled \/ syncDone
  \/ \E a \in Admins : \/ at[a] \in {"seed", "insert"}
                       \/ at[a] = "write" /\ (target[a] \/ seenDone[a])
                       \/ at[a] = "done" /\ seenEnabled[a]

\* The transaction of a sync deletes every row but its own.
StaleInv == \A p \in Syncers : at[p] = "commit" => stale[p] = rows \ batch[p]

\* The rows are current, and so is what is about to replace them.  An administrator's sync
\* may fail unnoticed; the rows it would have replaced are then still current.
RowsInv  == claims # {} /\ Watching => Coming \/ Current(rows)
BatchInv == \A p \in Syncers :
              claims # {} /\ Writing(p) /\ (p \in Admins \/ Watching) => Coming \/ Current(batch[p])

FollowInv == ~missed /\ ~overlap => StaleInv /\ RowsInv /\ BatchInv

\* What is on its way stays on its way when the workers and their queues stay as they are.
LEMMA ComingStays ==
  ASSUME UNCHANGED <<claims, events, queue>>,
         \A w \in Workers : at'[w] = at[w] /\ batch'[w] = batch[w]
  PROVE  Coming' = Coming
BY DEF Coming, Writing, Current, Names

\* A step that touches no claim, row, event or job, and after which nobody writes or
\* watches who did not.
LEMMA FollowOther ==
  ASSUME FollowInv, UNCHANGED <<claims, events, queue, rows>>,
         missed => missed', overlap => overlap', Watching' => Watching,
         \A w \in Workers : at'[w] = at[w] /\ batch'[w] = batch[w],
         \A p \in Syncers : Writing(p)' =>
           at'[p] = at[p] /\ batch'[p] = batch[p] /\ stale'[p] = stale[p]
  PROVE  FollowInv'
<1> SUFFICES ASSUME ~missed', ~overlap' PROVE StaleInv' /\ RowsInv' /\ BatchInv'
  BY DEF FollowInv
<1>0. StaleInv /\ RowsInv /\ BatchInv
  BY DEF FollowInv
<1>1. Coming' = Coming
  BY ComingStays
<1>2. StaleInv'
  BY <1>0 DEF StaleInv, Writing
<1>3. RowsInv'
  BY <1>0, <1>1 DEF RowsInv, Current, Names
<1>4. ASSUME NEW p \in Syncers, claims' # {}, Writing(p)', p \in Admins \/ Watching'
      PROVE  Coming' \/ Current(batch[p])'
  <2>1. Coming \/ Current(batch[p])
    BY <1>0, <1>4 DEF BatchInv, Writing
  <2> QED
    BY <1>1, <1>4, <2>1 DEF Current, Names
<1> QED
  BY <1>2, <1>3, <1>4 DEF BatchInv

\* The steps of an administrator's request that are not those of its sync.
LEMMA AdminFollows ==
  ASSUME TypeOK, FollowInv, NEW a \in Admins, Admin(a)
  PROVE  FollowInv'
<1>0. a \in Syncers /\ \A w \in Workers : w \in Syncers /\ w # a
  BY SyncersAssumption DEF Syncers
<1>1. PICK to : at' = [at EXCEPT ![a] = to] /\ to \notin {"replace", "commit"}
  BY DEF Admin, PatchConfig, ReadEnabled, ReadDone, SeedCheck, SeedInsert, Write, FailPatch, Goes
<1>2. \A q \in Syncers : at'[q] = IF q = a THEN to ELSE at[q]
  BY <1>0, <1>1, Moved
<1>3. /\ UNCHANGED <<claims, events, queue, rows, missed, overlap>>
      /\ \A q \in Syncers : q # a => batch'[q] = batch[q] /\ stale'[q] = stale[q]
  BY <1>0 DEF Admin, PatchConfig, ReadEnabled, ReadDone, SeedCheck, SeedInsert, Write, FailPatch,
              ForgetSync, TypeOK, serverVars, tableVars, syncVars, ghostVars
<1>4. ASSUME Watching' PROVE Watching
  <2>0. \A b \in Admins : at'[b] = IF b = a THEN to ELSE at[b]
    BY <1>2 DEF Syncers
  <2>1. ASSUME NEW e \in BOOLEAN, PatchConfig(a, e) PROVE Watching
    <3>1. /\ UNCHANGED <<enabled, syncDone, seenEnabled, seenDone>> /\ at'[a] = "enabled"
          /\ \A b \in Admins : b # a => target'[b] = target[b]
      BY <1>0, <1>1, <2>1, Moved DEF PatchConfig, configVars, TypeOK, Goes
    <3> QED
      BY <1>4, <2>0, <3>1 DEF Watching
  <2>2. CASE ReadEnabled(a)
    <3>1. PICK v \in OrFalse(enabled) : seenEnabled' = [seenEnabled EXCEPT ![a] = v]
      BY <2>2 DEF ReadEnabled
    <3>2. v => enabled
      BY DEF OrFalse
    <3>3. /\ UNCHANGED <<enabled, syncDone, target, seenDone>> /\ at'[a] = "done"
          /\ \A b \in Admins : seenEnabled'[b] = IF b = a THEN v ELSE seenEnabled[b]
      BY <1>0, <2>2, <3>1, Moved DEF ReadEnabled, configVars, TypeOK, Goes
    <3> QED
      BY <1>4, <2>0, <3>2, <3>3 DEF Watching
  <2>3. CASE ReadDone(a)
    <3>1. PICK v \in OrFalse(syncDone) :
            /\ seenDone' = [seenDone EXCEPT ![a] = v]
            /\ Goes(a, IF target[a] /\ ~seenEnabled[a] /\ ~v THEN "fetch" ELSE "write")
      BY <2>3 DEF ReadDone
    <3>2. v => syncDone
      BY DEF OrFalse
    <3>3. at'[a] = IF target[a] /\ ~seenEnabled[a] /\ ~v THEN "fetch" ELSE "write"
      BY <1>0, <3>1 DEF Goes, TypeOK
    <3>4. /\ UNCHANGED <<enabled, syncDone, target>> /\ at[a] = "done"
          /\ \A b \in Admins : seenDone'[b] = IF b = a THEN v ELSE seenDone[b]
          /\ \A b \in Admins : b # a => seenEnabled'[b] = seenEnabled[b]
      BY <2>3, <3>1 DEF ReadDone, configVars, TypeOK
    <3>5. CASE seenEnabled[a] \/ syncDone
      BY <3>4, <3>5 DEF Watching
    <3>6. CASE ~seenEnabled[a] /\ ~syncDone
      <4>1. at'[a] # "done" /\ ~(at'[a] = "write" /\ (target'[a] \/ seenDone'[a]))
        BY <3>2, <3>3, <3>4, <3>6
      <4>2. at'[a] \notin {"seed", "insert"}
        BY <3>3
      <4> QED
        BY <1>4, <2>0, <3>4, <4>1, <4>2 DEF Watching
    <3> QED
      BY <3>5, <3>6
  <2>4. CASE SeedCheck(a) \/ SeedInsert(a)
    BY <2>4 DEF SeedCheck, SeedInsert, Watching
  <2>5. CASE Write(a)
    <3>1. /\ at[a] = "write" /\ enabled' = target[a] /\ syncDone' = seenDone[a] /\ at'[a] = "idle"
          /\ \A b \in Admins : b # a => /\ target'[b] = target[b] /\ seenDone'[b] = seenDone[b]
                                        /\ seenEnabled'[b] = seenEnabled[b]
      BY <1>0, <2>5, Moved DEF Write, ForgetPatch, TypeOK, Goes
    <3> QED
      BY <1>4, <2>0, <3>1 DEF Watching
  <2>6. CASE FailPatch(a)
    <3>1. /\ UNCHANGED <<enabled, syncDone>> /\ at'[a] = "idle"
          /\ \A b \in Admins : b # a => /\ target'[b] = target[b] /\ seenDone'[b] = seenDone[b]
                                        /\ seenEnabled'[b] = seenEnabled[b]
      BY <1>0, <2>6, Moved DEF FailPatch, ForgetPatch, configVars, TypeOK, Goes
    <3> QED
      BY <1>4, <2>0, <3>1 DEF Watching
  <2> QED
    BY <2>1, <2>2, <2>3, <2>4, <2>5, <2>6 DEF Admin
<1>5. \A p \in Syncers : Writing(p)' =>
        at'[p] = at[p] /\ batch'[p] = batch[p] /\ stale'[p] = stale[p]
  BY <1>1, <1>2, <1>3 DEF Writing
<1> QED
  BY <1>0, <1>2, <1>3, <1>4, <1>5, FollowOther

\* The attributes of a fetch are those of the claims.
LEMMA FetchedCurrent ==
  ASSUME NEW p
  PROVE  Current(Fetched(p, claims))
<1>1. \A x \in Fetched(p, claims) : \E c \in claims : x = <<fetches + 1, c>>
  BY DEF Fetched
<1>2. \A c \in claims : <<fetches + 1, c>> \in Fetched(p, claims)
  BY DEF Fetched
<1>3. OnePerName(Fetched(p, claims))
  BY <1>1 DEF OnePerName
<1>4. Names(Fetched(p, claims)) = claims
  <2>1. ASSUME NEW c \in claims PROVE c \in Names(Fetched(p, claims))
    <3>1. <<fetches + 1, c>>[2] = c
      OBVIOUS
    <3> QED
      BY <1>2, <3>1 DEF Names
  <2>2. ASSUME NEW n \in Names(Fetched(p, claims)) PROVE n \in claims
    BY <1>1 DEF Names
  <2> QED
    BY <2>1, <2>2
<1> QED
  BY <1>3, <1>4 DEF Current

\* The steps of a sync.
LEMMA SyncFollows ==
  ASSUME TypeOK, OnceInv, FollowInv, NEW p \in Syncers, Sync(p)
  PROVE  FollowInv'
<1> SUFFICES ASSUME ~missed', ~overlap' PROVE StaleInv' /\ RowsInv' /\ BatchInv'
  BY DEF FollowInv
<1>0. StaleInv /\ RowsInv /\ BatchInv /\ LateInv
  <2>1. CASE Fetch(p)
    BY <2>1 DEF Fetch, FollowInv, OnceInv
  <2>2. CASE Replace(p)
    BY <2>2 DEF Replace, ghostVars, FollowInv, OnceInv
  <2>3. CASE Commit(p)
    BY <2>3 DEF Commit, FollowInv, OnceInv
  <2> QED
    BY <2>1, <2>2, <2>3 DEF Sync
<1>1. CASE Fetch(p)
  <2>0. PICK got \in SUBSET claims :
          /\ batch' = [batch EXCEPT ![p] = Fetched(p, got)]
          /\ at' = [at EXCEPT ![p] = IF got = {} THEN AfterSync(p) ELSE "replace"]
          /\ missed' = (missed \/ got # claims)
    BY <1>1 DEF Fetch, Goes
  <2>1. /\ UNCHANGED <<claims, events, queue, rows, enabled, syncDone, target, seenEnabled,
                       seenDone, stale>>
        /\ at[p] = "fetch"
        /\ batch' = [batch EXCEPT ![p] = Fetched(p, claims)]
        /\ Goes(p, IF claims = {} THEN AfterSync(p) ELSE "replace")
    BY <1>1, <2>0 DEF Goes, Fetch, serverVars, configVars, tableVars, patchVars
  <2>2. \A q \in Syncers : at'[q] = IF q = p THEN IF claims = {} THEN AfterSync(p) ELSE "replace"
                                             ELSE at[q]
    BY <2>1, Moved DEF Goes
  <2>3. \A q \in Syncers : batch'[q] = IF q = p THEN Fetched(p, claims) ELSE batch[q]
    BY <2>1 DEF TypeOK
  <2>4. StaleInv'
    <3>1. \A q \in Syncers : at'[q] = "commit" => q # p /\ at[q] = "commit"
      BY <2>2 DEF AfterSync
    <3> QED
      BY <1>0, <2>1, <2>3, <3>1 DEF StaleInv
  <2>5. CASE claims = {}
    BY <2>1, <2>4, <2>5 DEF RowsInv, BatchInv
  <2>6. CASE claims # {}
    <3>2. Watching' => Watching
      <4>1. \A a \in Admins : at'[a] = at[a] \/ at'[a] = "replace"
        BY <2>2, <2>6 DEF Syncers
      <4> QED
        BY <2>1, <4>1 DEF Watching
    <3>3. \A q \in Syncers : Current(batch[q]) /\ q # p => Current(batch[q])'
      BY <2>1, <2>3 DEF Current, Names
    <3>4. Current(batch[p])'
      BY <2>1, <2>3, FetchedCurrent DEF Current, Names
    <3>5. Coming => Coming'
      BY <2>1, <2>2, <2>6, <3>3, <3>4 DEF Coming, Writing, Syncers
    <3>6. RowsInv'
      BY <1>0, <2>1, <3>2, <3>5 DEF RowsInv, Current, Names
    <3>7. ASSUME NEW q \in Syncers, Writing(q)', q \in Admins \/ Watching'
          PROVE  Coming' \/ Current(batch[q])'
      <4>1. CASE q = p
        BY <3>4, <4>1
      <4>2. CASE q # p
        <5>1. Writing(q) /\ claims # {}
          BY <2>2, <2>6, <3>7, <4>2 DEF Writing
        <5> QED
          BY <1>0, <3>2, <3>3, <3>5, <3>7, <4>2, <5>1 DEF BatchInv
      <4> QED
        BY <4>1, <4>2
    <3> QED
      BY <2>4, <3>6, <3>7 DEF BatchInv
  <2> QED
    BY <2>5, <2>6
<1>2. CASE Replace(p)
  <2>1. /\ UNCHANGED <<claims, events, queue, rows, enabled, syncDone, target, seenEnabled,
                       seenDone, batch>>
        /\ at[p] = "replace"
        /\ \A q \in Syncers : /\ at'[q] = IF q = p THEN "commit" ELSE at[q]
                              /\ stale'[q] = IF q = p THEN rows \ batch[p] ELSE stale[q]
    BY <1>2, Moved DEF Replace, Goes, TypeOK, serverVars, configVars, tableVars, patchVars
  <2>2. StaleInv'
    BY <1>0, <2>1 DEF StaleInv
  <2>3. \A q \in Syncers : Writing(q)' <=> Writing(q)
    BY <2>1 DEF Writing
  <2>4. Coming' <=> Coming
    BY <2>1, <2>3 DEF Coming, Writing, Current, Names, Syncers
  <2>5. Watching' <=> Watching
    BY <2>1 DEF Watching, Syncers
  <2>6. RowsInv'
    BY <1>0, <2>1, <2>4, <2>5 DEF RowsInv, Current, Names
  <2>7. \A q \in Syncers : Current(batch[q])' <=> Current(batch[q])
    BY <2>1 DEF Current, Names
  <2>8. BatchInv'
    BY <1>0, <2>1, <2>3, <2>4, <2>5, <2>7 DEF BatchInv
  <2> QED
    BY <2>2, <2>6, <2>8
<1>3. CASE Commit(p)
  <2>1. /\ UNCHANGED <<claims, events, queue, enabled, syncDone, target, seenEnabled, seenDone>>
        /\ at[p] = "commit"
        /\ \A q \in Syncers : /\ at'[q] = IF q = p THEN AfterSync(p) ELSE at[q]
                              /\ q # p => batch'[q] = batch[q] /\ stale'[q] = stale[q]
    BY <1>3, Moved DEF Commit, ForgetSync, Goes, TypeOK, serverVars, configVars, patchVars
  <2>2. rows' = batch[p]
    <3>1. stale[p] = rows \ batch[p]
      BY <1>0, <2>1 DEF StaleInv
    <3> QED
      BY <1>3, <3>1 DEF Commit
  <2>3. \A q \in Syncers : ~Writing(q)'
    BY <1>0, <2>1 DEF LateInv, Late, Writing, AfterSync
  <2>4. StaleInv' /\ BatchInv'
    BY <2>3 DEF StaleInv, BatchInv, Writing
  <2>5. ASSUME claims' # {}, Watching' PROVE Coming' \/ Current(rows)'
    <3>1. p \in Admins \/ Watching
      <4>1. CASE p \notin Admins
        <5>1. \A a \in Admins : at'[a] = at[a]
          BY <2>1, <4>1 DEF Syncers
        <5> QED
          BY <2>1, <2>5, <5>1 DEF Watching
      <4> QED
        BY <4>1
    <3>2. Coming \/ Current(batch[p])
      BY <1>0, <2>1, <2>5, <3>1 DEF BatchInv, Writing
    <3>3. Current(batch[p]) => Current(rows)'
      BY <2>1, <2>2 DEF Current, Names
    <3>4. ASSUME Coming PROVE Coming' \/ Current(batch[p])
      <4>1. CASE events > 0 \/ \E w \in Workers : queue[w] > 0
        BY <2>1, <4>1 DEF Coming
      <4>2. ASSUME NEW w \in Workers, at[w] = "fetch" PROVE Coming'
        BY <2>1, <4>2 DEF Coming, Syncers
      <4>3. ASSUME NEW w \in Workers, Writing(w), Current(batch[w]) PROVE Current(batch[p])
        <5>1. w = p
          BY <1>0, <2>1, <4>3 DEF LateInv, Late, Writing, Syncers
        <5> QED
          BY <4>3, <5>1
      <4> QED
        BY <3>4, <4>1, <4>2, <4>3 DEF Coming
    <3> QED
      BY <3>2, <3>3, <3>4
  <2> QED
    BY <2>4, <2>5 DEF RowsInv
<1> QED
  BY <1>1, <1>2, <1>3 DEF Sync

\* The steps of the event queue: an event becomes a job and a job a sync.
LEMMA QueueFollows ==
  ASSUME TypeOK, FollowInv, NEW w \in Workers,
         AcceptEvent(w) \/ TakeJob(w) \/ FailJob(w) \/ LoseQueue(w)
  PROVE  FollowInv'
<1>0. w \in Syncers
  BY DEF Syncers
<1>1. CASE FailJob(w) \/ LoseQueue(w)
  BY <1>1 DEF FailJob, LoseQueue, FollowInv
<1>2. ASSUME Coming', UNCHANGED <<rows, missed, overlap, batch, stale>>,
             \A p \in Syncers : at'[p] = "commit" => at[p] = "commit"
      PROVE  FollowInv'
  BY <1>2 DEF FollowInv, StaleInv, RowsInv, BatchInv
<1>3. CASE AcceptEvent(w)
  <2>1. queue'[w] > 0
    BY <1>3 DEF AcceptEvent, TypeOK
  <2> QED
    BY <1>2, <1>3, <2>1 DEF AcceptEvent, Coming, tableVars, syncVars, ghostVars
<1>4. CASE TakeJob(w)
  <2>1. \A q \in Syncers : at'[q] = IF q = w THEN "fetch" ELSE at[q]
    BY <1>0, <1>4, Moved DEF TakeJob, Goes
  <2> QED
    BY <1>0, <1>2, <1>4, <2>1 DEF TakeJob, Coming, tableVars, syncVars, ghostVars
<1> QED
  BY <1>1, <1>3, <1>4

LEMMA FollowStep ==
  ASSUME TypeOK, OnceInv, FollowInv, [Next]_vars
  PROVE  FollowInv'
<1>1. CASE ChangeClaims
  <2>1. events' > 0
    BY <1>1 DEF ChangeClaims, TypeOK
  <2> QED
    BY <1>1, <2>1
    DEF ChangeClaims, FollowInv, StaleInv, RowsInv, BatchInv, Coming, tableVars, syncVars, ghostVars
<1>2. CASE RefuseEvent
  <2>1. /\ UNCHANGED <<claims, rows, enabled, syncDone, at, target, seenEnabled, seenDone, batch,
                       stale, overlap>>
        /\ missed' = (missed \/ enabled \/ syncDone \/ PastFetch)
    BY <1>2 DEF RefuseEvent, configVars, tableVars, patchVars, syncVars
  <2>2. ~missed' => ~missed /\ ~Watching' /\ \A a \in Admins : ~Writing(a)'
    BY <2>1 DEF PastFetch, Watching, Writing
  <2> QED
    BY <2>1, <2>2 DEF FollowInv, StaleInv, RowsInv, BatchInv
<1>3. ASSUME NEW w \in Workers, AcceptEvent(w) \/ TakeJob(w) \/ FailJob(w) \/ LoseQueue(w)
      PROVE  FollowInv'
  BY <1>3, QueueFollows
<1>4. ASSUME NEW a \in Admins, Admin(a) PROVE FollowInv'
  BY <1>4, AdminFollows
<1>5. ASSUME NEW p \in Syncers, Sync(p) PROVE FollowInv'
  BY <1>5, SyncFollows
<1>6. CASE DeleteAttribute
  BY <1>6 DEF DeleteAttribute, FollowInv
<1>7. ASSUME UNCHANGED <<serverVars, configVars, rows, queue, at, patchVars, syncVars, ghostVars>>
      PROVE  FollowInv'
  <2>1. Watching' = Watching
    BY <1>7 DEF Watching, configVars, patchVars
  <2> QED
    BY <1>7, <2>1, FollowOther DEF serverVars, syncVars, ghostVars
<1>8. ASSUME NEW c \in Clients, Client(c) PROVE FollowInv'
  BY <1>7, <1>8 DEF Client, ReadAttribute, CheckRules, InsertRule, tableVars
<1>9. CASE DeleteRule \/ UNCHANGED vars
  BY <1>7, <1>9 DEF DeleteRule, vars, tableVars
<1> QED
  BY <1>1, <1>2, <1>3, <1>4, <1>5, <1>6, <1>8, <1>9 DEF Next

LEMMA FollowInvariant == Spec => []FollowInv
<1>1. ASSUME Init PROVE FollowInv
  <2>1. \A p \in Syncers : at[p] = "idle"
    BY <1>1 DEF Init
  <2>2. ~Watching /\ \A p \in Syncers : ~Writing(p) /\ at[p] # "commit"
    BY <1>1, <2>1 DEF Init, Watching, Writing, Syncers
  <2> QED
    BY <2>2 DEF FollowInv, StaleInv, RowsInv, BatchInv
<1> QED
  BY <1>1, FollowStep, TypeCorrect, OnceInvariant, PTL DEF Spec

\* Rows of which each has a name of its own are as many as their names.
LEMMA AsManyAsNames ==
  ASSUME NEW R \in SUBSET Rows, OnePerName(R), IsFiniteSet(Names(R))
  PROVE  Cardinality(R) = Cardinality(Names(R))
<1> DEFINE f == [x \in R |-> x[2]]
<1>1. f \in [R -> Names(R)]
  BY DEF Names
<1>2. \A x, y \in R : f[x] = f[y] => x = y
  BY DEF OnePerName
<1>3. \A n \in Names(R) : \E x \in R : f[x] = n
  BY DEF Names
<1>4. f \in Bijection(R, Names(R))
  BY <1>1, <1>2, <1>3 DEF Bijection, Injection, Surjection, IsInjective
<1>5. f \in Injection(R, Names(R)) /\ f \in Surjection(R, Names(R))
  BY <1>4 DEF Bijection
<1> QED
  BY <1>5, FS_Injection

\* When nothing is under way, the schema of an enabled organization is the claims of the
\* identity server, unless a change was missed, two syncs overlapped or there is no claim.
THEOREM FollowSafety == Spec => []SchemaFollowsServer
<1>1. ASSUME TypeOK, FollowInv PROVE SchemaFollowsServer
  <2> SUFFICES ASSUME Settled, enabled, ~missed, ~overlap, claims # {}
               PROVE  Names(rows) = claims /\ Cardinality(rows) = Cardinality(claims)
    BY DEF SchemaFollowsServer
  <2>1. ~Coming
    BY <1>1 DEF Settled, Coming, Writing, Syncers, TypeOK
  <2>2. Current(rows)
    BY <1>1, <2>1 DEF FollowInv, RowsInv, Watching
  <2>3. IsFiniteSet(claims)
    BY <1>1, BoundsAssumption, FS_Subset DEF TypeOK
  <2>4. rows \in SUBSET Rows
    BY <1>1 DEF TypeOK
  <2>5. \A R \in SUBSET Rows : OnePerName(R) /\ IsFiniteSet(Names(R)) =>
          Cardinality(R) = Cardinality(Names(R))
    BY AsManyAsNames
  <2> QED
    BY <2>2, <2>3, <2>4, <2>5 DEF Current
<1> QED
  BY <1>1, FollowInvariant, TypeCorrect, PTL
============================================================================
