# Verification of the identity customer data service

TLA+ models of the parts of the service where steps of several goroutines,
requests or processes meet: the shutdown of the server and its background
workers, the unification of profiles, their cookies and sessions, the list of
profiles, consents, the connection to the message broker, and the profile schema
with its first enablement, its syncs, its administration and the rules that refer
to it. TLC checks them on small instances; TLAPS proves the safety of every one of
them, and that the shutdown refines an abstract contract, for every number of
actors and every bound. The proofs also found what the small instances hid: the
departure from the documents that `CircularMerge` shows came to light when a proof
would not go through.

    tlc -workers 2 -config WorkerShutdown.cfg MCWorkerShutdown.tla
    tlapm WorkerShutdown_proofs.tla

The module that a `.cfg` belongs to is named in `PROJECT.json`, with the source
lines of every definition.

## The system

| component | state | operations | meets |
|---|---|---|---|
| `cmd/server` | signal channel, deadline context | start, serve, `shutdown` | every worker, the database pool |
| `system/workers/lifecycle.go` | `stopping`, `active` WaitGroup, job context | `begin`, `run`, `stop`, `waitWithin` | consumer goroutines against the stop |
| `system/workers/*_worker.go` | global queue references under a mutex | start, enqueue, stop; `unifyProfiles`, schema sync, cookie sweep | request goroutines, queues, database |
| `system/queue/inmemory` | buffered channel, `closed`, RWMutex | `Enqueue` (never blocks), consumer, `Close` | requests, worker, stop |
| `system/queue/activemq` | connection, generation, `reconnectMu`, `done`, `closed` | `Enqueue`, consumer loop, reconnect, `Close` | requests, consumer, stop, broker |
| `profile` handler, service, store | tables `profiles`, `profile_reference`, `application_data`, cookies, consents | create, update, patch, link, delete, sync events, lists | the unification worker, through the tables and the queue |
| `profile_schema` | table `profile_schema` | CRUD of attributes, sync from the identity server | admin config, rules, unification |
| `unification_rules` | table `unification_rules` | CRUD, unique property and priority | schema, unification |
| `admin_config` | table of one row per organization | get, update with the first enablement | schema sync, consent, applications |
| `consent` | categories and attributes | CRUD, default category | profiles' consents, schema |
| `system/database` | one pool per datasource, opened on first use | get client, transaction, `CloseDB` | everything |
| `system/cache`, `client`, `authn`, `authz`, `config`, ... | a cached map; none | lookups, HTTP calls, decisions | requests |

### What is hard here

*Concurrency.* A request hands its job to a worker through a channel that a
third goroutine closes. The API and the worker change the same rows without
locks and mostly without transactions: `UpdateProfile` is two statements and
writes back what it read earlier, a merge is up to seven transactions decided on
a snapshot. Senders and the consumer of a broker queue reconnect the same
connection.

*Failure.* Errors in the middle of a merge are logged and the merge stops there;
the in-memory queue is lost with the process; a failed read of children counts
as none.

*Time.* One deadline bounds the HTTP shutdown, three stops and the queue closes.

*Order.* The row order of the candidate query decides which hierarchy a profile
joins; PostgreSQL does not define it.

### What makes each component correct

* shutdown: it ends; no send on a closed channel; nothing it calls clean was cut
  short; the pool goes last.
* queues: an accepted job is in one place, and it is run or refused in the end.
* unification: profiles of one user come together, profiles of two users do not,
  a permanent profile is the master, the references form a forest whose roots
  exist (they do not: `CircularMerge`), and no request can end the
  worker (one can: `WorkerPanic`).
* broker connection: one connection at a time, none after `Close`, the consumer
  stops on `Close` and otherwise listens, a request does not block.
* schema, rules, configuration: an older sync does not replace a newer one, the
  first enablement happens once, rules refer to attributes that are there, and
  requests that do not overlap keep priorities unique and sub-attributes under
  their parents.
* cookies: a cookie stands for nobody once its session was terminated, leads no
  user to the profile of another, and goes in the end.
* consents: a consent that was taken back stays taken back, a read uses what was
  in force, identity attributes are never stripped.
* the list: whoever pages through it to the end has seen all that was on it.

## The modules

### `WorkerShutdown`, `ShutdownContract`

The server from "every worker started" to the end of `main`. One variable per
field of the code (`queueRef`, `closed`, `stopping`, `active`, ...) and one
program counter per goroutine (`req`, `consumer`, `stopper`, `sweeper`, `main`).
A mutex whose critical section is one assignment or one test is part of its
step; the read lock of `Enqueue` spans the test of `closed` and the send, so a
request in state `"sending"` holds it and `MarkClosed` waits for it. `WaitEnds`
and `WaitExpires` are the two cases of the select in `waitWithin`: when the
deadline has passed both are possible, which is Go's random choice. The work of
a job is abstracted to whether its database was taken away while it ran
(`LoseDatabase`). The two queue workers and both in-memory queues are the same
code with other types, so `Workers` stands for both; the cookie sweeper has a
different stop and is modelled apart. With a broker queue in place of the
in-memory one, `ManagedConn` has the details.

`ShutdownContract` is the abstract promise, without queues, locks or goroutines:
a job begins once and before the pool is gone, loses its database only after the
deadline, the pool closes over running jobs only after the deadline, and a clean
verdict covers no job that was cut short. `KeepsContract` is the refinement: TLC
checks it on the instance, `WorkerShutdown_proofs` proves it.

### `ProfileUnification`

The two tables (`rows`, `user`; `status`, `ref`), the queue and the job of each
instance, and the requests, each step one statement or transaction. A request's
record is what the handler has read so far, so stale reads are in the model by
themselves. `Create`, `Link`, `Login`, `SignUp`, `Patch`, `Put` and `Delete` are the
operations of the handlers that touch the hierarchy or the user id; `Updates`
is their common `UpdateProfile` (read, read the master, write one row, write the
other, read again and enqueue). The worker's steps follow
`StartProfileWorker`'s handler, `unifyProfiles`, `mergeMatchedProfiles` and
`persistMergedProfileData`. `Plan` says who becomes master of whom. `Restart` is
the end of an instance, by a crash or by the panic of its worker: what is in
memory goes, the tables stay.

Left out or merged, and why it does not change the properties:

* attributes, traits and application data: rules match by free choice, any row
  order is possible, and saving merged data is its two whole-row write-backs;
* the two inserts of `InsertProfile` are one step, since nobody knows the id
  before it returns, and the list of candidates joins both tables;
* `PatchProfile`'s and `SyncProfile`'s own read of the profile is the guard of
  their arrival; it happens again in `UpdateProfile`, which is a step;
* `GetProfile` of the parent and the read of its children in a deletion are one
  step;
* `lost` is not in the code. It remembers the profiles whose job was dropped or
  cut short, which no code would repair, so that `SameUserMerged` can exempt
  exactly those;
* a merge that finds no unused id in `Masters` (a bound) can only fail.

### `ManagedConn`

One `managedConn` with its senders, consumer and `Close`. A connection is named
by the generation it was installed with; `alive` are the open sockets. The
broker goes and comes, and single connections are lost, `MaxDrops` times
together. Each goroutine takes the steps of `Enqueue`, the consumer loop or
`reconnectWithBackoff`, with `reconnectMu` as `mutex` and the short critical
sections under `mu` as single steps. Three assumptions on go-stomp: an operation
on a closed connection fails at once, a subscription's channel closes with its
connection, and `Disconnect` ends with the socket closed. The handshake in
`stomp.Connect` is assumed to end, although the code sets no read deadline for
it (listed as a hazard). Messages are not modelled.

### `SchemaSync`

One organization: its two flags in `cds_config` (`enabled`, `syncDone`), its
mandatory consent categories (counted), its identity attributes (`rows`) and the
`property_id` of its unification rules (`rules`). The claims of the identity
server change from outside, and each change sends an event. Three kinds of
actors meet in the tables: administrators' `PATCH /admin/configs` (two reads, for
a first enablement the sync and the category, then one transaction for both
flags), the schema sync worker of each instance, and clients that add a rule.

An attribute is `<<n, c>>`, claim `c` with the id of the `n`-th fetch, because
`ConvertSCIMClaimWithLocal` makes a new uuid for every claim of every answer.
`Replace` is the upsert and the stale delete of a sync, which act on the
committed rows that the statement sees, and `Commit` makes them visible; PostgreSQL's
row locks between the two are `Locked`. `Fetch` may return fewer claims than
there are, for a dialect that could not be read is skipped with a warning.

`synced`, `missed` and `overlap` are not in the code. They remember that a first
enablement has got past its sync, that a change was not heard of (its event was
refused, its job failed or was lost, or an attribute was deleted by hand), and
that a sync fetched while another was under way. The properties use them as
premises for what the code does not promise: nothing repairs a missed change
before the next event, and two syncs at once each delete only the rows they see,
so the schema can end up with every attribute twice or with an older answer, and
two first enablements at once can leave two mandatory categories. Without
`~overlap` TLC shows both.

Left out: traits, attributes of applications and sub-attributes, which no sync
touches or which travel with their parent (`SchemaRules` has them); the priority
and the other fields of a rule; other consent categories; system applications,
whose registration between sync and store can only fail the request, which
`FailPatch` covers.

### `SessionCookies`

The cookies of browsers over the two profile tables. A cookie row is active,
inactive or gone, and leads to a profile; a request of a browser carries the
cookie the browser got last. `Visit`, `LogIn` (with sign-up), `LogOut` and
`DeleteUser` are the handlers, each from the read of the cookie to its last
statement; `Unify` is the unification of two profiles of one user as one step,
whose inner steps are the matter of `ProfileUnification`; `SweepBatch` is one
batch of the cleanup worker, with the number of rows that its `DELETE` returns.

Not in the code are `session` (the user the identity server has logged in at
each browser, from the login to the termination's answer), `ended` and the field
`late` (cookies whose session was terminated, and requests that came after), and
`crossed`: two requests that write profiles or end sessions have overlapped, or
one has failed, or has come before the unification job of another was done.
`LogoutEndsSession` and `ProfileKeepsUser` hold until then; what may happen after is
told under "What else the models show".

Assumptions: no rules and no lost job, so that profiles come together by user id
only; sign-up starts the user's session as a login does; a browser replaces its
cookie only by one the service gave it. A login with a cookie of someone else's
profile overwrites that profile's user id, which the code does without a test;
`ProfileKeepsUser` is about browsers whose sessions are ended one by one. At the start no
job is left over, so the users who are logged in (`LoggedIn`) are different ones: two
browsers logged in as one user before the start would stand for two reference profiles
with no job to merge them, and `LogoutEndsSession` is false from there. Its proof needed
this assumption and so found it; a user may still log in at a second browser later.
`UpdateCookieStatusByProfileId`,
`DeleteCookieByProfileId` and `GetProfileCookieByProfileId` have no callers and
are left out, as is an administrator's `DELETE` of a profile by id.

### `Consents`

Consent categories with the attributes they cover (`consent_category_attributes`,
with the cascade of its foreign key), the consents of profiles, the schema's
attributes, and the requests that meet in them: `PutConsents` (delete and insert
in one transaction at READ COMMITTED, so its two statements are two steps and
its commit a third), `GetProfile` with the filter by consent (profile, mandatory
categories, consents, mandatory categories again, schema, attributes, each a
statement of its own), and `AddCategory`, `UpdateCategory`, `RemoveCategory` (a
look-up of every attribute, then a transaction). Attributes are added and deleted
from outside.

Left out: names of categories (adding tests them and two requests can both pass;
updating does not), timestamps, the filter of application data and the bypass for
system applications. The consents of the profile id in the path filter the data
of its master, and a merge copies no consents; the model has one profile for that
reason. A list that names a category twice is refused by the table's `UNIQUE`.

### `SchemaRules`

Attributes of the schema (identity, trait, or data of an application, with
sub-attributes) and unification rules, and the requests that add, change and
delete them, statement by statement. An attribute's PATCH writes the columns it
was sent (`Patched`); a rule's writes every column, as it was read or sent
(`Overlay`).

The field `crossed` of a request is not in the code: the rows of its table that
other requests have written since it arrived. `PrioritiesDiffer`,
`PatchKeepsTheRest` and `SubAttributesStay` say that what goes wrong goes wrong
only between requests that crossed each other in this way. `InPlace` leaves out
parents that the look-up of a parent, by name and without the application, does
not find.

Left out: value types, mutability and display names, which are tests of one
request; ids sent by the client, and a path of one scope with attributes of
another; sub-attributes that are no objects, which are stored as they come. What
the model shows besides its properties: the PATCH of an attribute's name leaves
`property_name` of its rules and `attribute_name` of consent categories behind;
two applications with an attribute of one name are told apart only by `LIMIT 1`
in the look-up of a parent; a PATCH can make an attribute with a rule complex.

### `ProfileList`

`GET /profiles` with its cursors. One client walks: it begins, with or without a
filter, follows the next or the previous cursor of the last answer, or asks again
after a failure. A page is read in one statement (`Nearest`: as many rows as fit,
closest to the cursor first, with one more to know whether there are more) and
answered in a later step, after the profiles that were merged into each are read.
Ids are numbers, for the row-value comparison of `(created_at, profile_id)` needs
their order; a cursor is named by the profile it was made of, which may be gone
when it is used. Meanwhile profiles are created, deleted, merged and changed.
`root` is the profile that a chain of references ends in; a merge moves all that
led to one profile at once, for which the detailed steps are in
`ProfileUnification`, and a neutral master is inserted before its children are
attached, and may stay alone.

`seen`, `steady`, `before` and `quiet` are not in the code: what the client was
shown, what was on the list since the walk began, the page before, and how many
pages were read since the list last changed.

`VisitsEvery` is about profiles, not about persons: a profile that is merged
before the walk comes to it, into one that was created during the walk, is shown
only on a page that the walk is past. The answers' `merged_from` lists cannot
help, for that page was answered before. A deletion is not interleaved with a
merge of the same profile.

## The runs

| run | expects | what it shows | distinct states |
|---|---|---|---|
| `WorkerShutdown` | pass | the safety of the shutdown, its termination, the fate of accepted jobs, the refinement of the contract | 226,276 |
| `ProfileUnification` | pass | with every overlap, failures, deletions and restarts: two masters of one user only if a job was lost | 317,683 |
| `SequentialRequests` | pass | one request and its job at a time: no profile under itself, users apart, permanent on top | 60,688 |
| `CircularMerge` | violation | four updates, one after the other: a merged profile takes the head of its own family under itself | |
| `WorkerPanic` | violation | a deletion that has done its first statement ends the process | |
| `ManagedConn` | pass | one connection, nothing left after `Close`, the consumer stops, `Enqueue` returns when the broker is there | 219,166 |
| `SchemaSync` | pass | enabled means synced and seeded, a category is not seeded twice by retries, the schema ends up as the claims are | 3,360,981 |
| `RulesLost` | violation | every sync deletes the unification rules on identity attributes | |
| `SessionCookies` | pass | no use of a cookie after its logout, the logout ends the session, users keep their profiles, inactive cookies go | 679,359 |
| `Consents` | pass | categories cover what is in the schema, revoked stays revoked, reads use consents in force, identity attributes stay | 2,160,681 |
| `SchemaRules` | pass | rules refer to attributes that are there; priorities, patches and sub-attributes suffer only from overlap | 249,206 |
| `ProfileList` | pass | a walk shows all that stays on the list, nothing twice unless it turned, and turning shows the page before | 676,264 |

The runs that expect a violation state a sentence of the repository's own
comments or documents; `PROJECT.json` quotes it and says how the code departs.

### What else the models show

These statements stand in the modules as definitions, with the sentence they come
from, but no run is spent on them: TLC finds each of them violated, in a
configuration like the ones above.

* `FamilyHasHead` (`ProfileUnification`) with deletions: `DeleteProfile` deletes a
  master with the profiles that name it directly, or a merged profile alone or with
  its master; the children of a merged profile are never read, and stay merged into
  a profile that is gone, so that `GetProfile` fails for them. Two updates and a
  deletion do it, without overlap or failure.
* `NeverOwnMaster` with `Overlap = TRUE` and two instances in
  `Consumers`: one worker puts a profile under the candidate that the other has
  found for it, and the other then takes it for one of the candidate's children.
* `PermanentBecomesMaster` with `Overlap = TRUE`: the test that keeps two users
  apart uses user ids that were read before the merge is written.
* `SameUserMerged` with two instances in `Consumers`: each worker writes back a
  stale master and restores the other's user id.
* `EnqueueReturns` (`ManagedConn`): a request waits in the reconnect loop for as
  long as the broker is away.
* `ConsumerRecovers` (`ManagedConn`): a connection that is lost between the
  reconnect and the subscribe leaves the consumer subscribing on a dead
  connection until a request replaces it.
* `TerminationDeactivates` (`SessionCookies`): a user who logs in at a second browser
  has two reference profiles until the unification job runs; a termination in
  between finds the other one, takes the cookie for a stranger's and leaves it
  active.
* `SweepComplete` (`SessionCookies`): `DeleteInactiveCookies` has no `RETURNING`,
  the sweep counts no rows, and stops after its first batch. The rest waits for
  the next tick, and with a tick for every batch each cookie goes in the end
  (`InactiveCookiesGo`).
* `PutReplaces` (`Consents`): two overlapping PUTs of one profile's consents end
  as the union of their lists, because the `DELETE` of the second does not see
  the rows of the first.

The circle of `CircularMerge` comes about like this. A write to a child goes to its
direct master and enqueues that, merged or not; the worker leaves out only the
profile at hand and its direct parent. So with a and b under m1, m1 and c under m2,
and m2 and d under m3, a login with the cookie of a makes m1 permanent; the job of
m1 meets m3 as a stranger, adopts its children m2 and d, and m1 and m2 are each
other's master. Then m3 is put under m1 as well, and none of the seven profiles is
a reference profile any more: no list shows them and no later job can match them.
TLC's trace is one step shorter: a stands for m1 and has lost its user id to a PUT
before it was merged.

### Bounds

* `WorkerShutdown`: two workers, two requests for the same one, a channel of one
  slot. That is enough for a full channel, a job buffered behind a running one,
  a request inside `Enqueue` while its queue closes, and a stop of an idle worker
  beside a busy one. The theorems lift the bound for all its safety properties and
  the refinement.
* `ProfileUnification`: two anonymous profiles at the start, one more id to
  create, two neutral masters, one user (two where the property is about two),
  three requests, one instance. That covers a merge with its profile, candidate and
  candidate's children, but no chain of three merges, and no circle is found
  within it: `CircularMerge` needs four profiles, three neutral masters and four
  requests, and has them with `Overlap`, `Failures` and deletions off. What the passing runs
  check is therefore also proved, without these bounds. Profiles, masters and requests are
  symmetric and no liveness is checked in these runs. `Overlap` switches
  interleaving of requests on or off; `Failures` failed calls and crashes.
  Deadlock is not an error there: requests are bounded, so the system
  comes to rest.
* `ManagedConn`: two senders, so that both can find the connection lost and
  reconnect in turn, and the consumer; two losses, so that a replacement can be
  lost as well. Type correctness, `OneConnection` and `CloseLeavesNothing` are also
  proved without these bounds.
* `SchemaSync`: two administrators, so that one request overtakes another; one
  instance and one client; two claims, so that an answer can be incomplete; one
  change and two fetches, so that a sync replaces the rows of an earlier one and
  two syncs overlap; a queue of one slot, so that it can be full. Claims and
  administrators are symmetric; no liveness is checked. Deadlock is not an
  error: changes and fetches are bounded. All four properties are also proved
  without these bounds.
* `SessionCookies`: two browsers and two users, so that a user logs in twice and a
  browser changes hands; two requests under way, so that they overlap; three
  profiles and cookies; four requests in all; a batch of one, so that a sweep
  needs more than one. `Failures` lets any call fail. All safety properties are
  also proved without these bounds; `InactiveCookiesGo` is not.
* `Consents`: one profile; a mandatory category, a known one and one to add; an
  identity attribute and another, with three ids, so that an attribute is deleted
  and added again under its name; two symmetric requests under way and three in
  all, so that a change falls between the statements of two others. All five
  properties are also proved without these bounds.
* `SchemaRules`: an identity attribute, a trait, an application's attribute with a
  sub-attribute, and a second application; one id and one rule to add; three
  priorities; two symmetric requests under way and three in all. All
  five properties are also proved without these bounds.
* `ProfileList`: three profiles at the start, one to create and one neutral
  master, whose id lies between theirs; two creation times, so that ids decide;
  pages of two, so that a page ends between profiles of one time and there are up
  to three pages; two writes, with the end of a merge not counted, so that the
  list changes on both sides of a cursor. All four properties are also proved
  without these bounds. Deadlock is not an error: a client that does not
  turn comes to the end.

### Fairness

* `StopFairness` (`WorkerShutdown`): goroutines that need no database are
  scheduled, and the timer fires. Nothing is assumed of jobs, sweeps or requests
  waiting for the database: the shutdown ends without them. `AcceptedJobSettles`
  adds, as its premise, that consumers are scheduled and jobs end.
* `ManagedConn`: goroutines are scheduled, dials and disconnects end, and the
  mutex is strongly fair because Go's mutex hands itself to a waiter that has
  starved for a millisecond. Nothing is assumed of the broker; where a property
  needs it, it says so in a premise.
* `SessionCookies`: the ticker of the cleanup worker goes on, so a sweep follows
  as long as there is one to make (`WF` on `SweepBatch`). Nothing is assumed of
  requests: a cookie that is inactive needs none to go.
* The other modules check safety only.

## The proofs

`WorkerShutdown_proofs` proves, for every set of workers and requests, every
assignment of requests to workers and every queue size of at least one (the
three assumptions of `WorkerShutdown`), that `TypeOK`, `NoSendOnClosedChannel`,
`WaitIsFinal` and `CleanShutdownCutsNothing` always hold.

None of the last three is inductive. The invariant `IInv` adds what they rest on:

* `CountInv`: the WaitGroup counts the one job the consumer has at work, a stop
  that saw zero has set `stopping` before, and contexts are cancelled only after
  the wait. That is why `begin`'s mutex makes the wait final.
* `StopInv`: how far a stop has gone says what it has set; in particular the
  channel closes only after the flag, and a stop that returned without seeing
  its jobs end has reported it.
* `SendInv`: a request between the test and the send has seen the flag clear,
  and the write lock keeps it clear. With `StopInv` this is send safety.
* `JobInv`: a worker meets only its own jobs, and a job at work is the one its
  consumer holds.
* `HurtInv`: a job is cut short only under a stop that gave up waiting. With
  `StopInv` it is in the report, which gives `CleanShutdownCutsNothing`.
* `MainInv`: where `main` is says what has stopped.

There is one lemma per part (`StepTypeOK`, `StepCountInv`, ...), with one step
per action, and `Inductive` puts them together. `IInv` was checked by TLC on the
instance of the runs before it was proved.

On it rest `AcceptedJobIsHeld` and the refinement `Spec => KeepsContract`. The invariant `JInv` adds four parts to
`IInv`:

* `GaveUpInv`: a stop that returned without seeing its jobs end was ended by the
  deadline;
* `FreshInv`: a request that has not left `Enqueue` has no job yet, so a job is
  appended only once;
* `HeldInv`: what is buffered, once each, or offered to a consumer is queued, and
  what a consumer has at work was begun;
* `PlacedInv`: a queued job is buffered or offered. With `HeldInv` this is
  `AcceptedJobIsHeld`.

`InitRefines` maps the initial states, and `StepRefines` every step: a begin, a
lost database, a return, the signal, the deadline and the close of the pool each
to the action of `ShutdownContract` of that meaning, all others to a stutter
(`StutterRefines`). `BeginRefines` needs `HeldInv` (a job begins once) and the
order of the stops before the pool; `HurtRefines` and `CloseRefines` need
`GaveUpInv` (nothing is hurt or closed over before the deadline) and what the
stops have reported.

`ProfileUnification_proofs` proves, for any profiles, masters, users, requests and
any assignment of requests to instances, with or without failures, `TypeOK` and
three properties, two of them under a hypothesis on the constants that is part of
what the code needs:

* `UserSafety` is `SameUserMerged` for one instance (`OneInstance`). With two it is
  false, since one worker writes back a master that the other has merged (see "What
  else the models show"). `TwinsInv` says of any two master profiles of one user, at
  any time, that one is *tended*: its job is still to come or was lost (`Pending`),
  or the worker is at it, and then looks for the user id the profile has now, or
  has found it, or is about to adopt the profile (`AtHand`). `SavedInv` says that
  what the worker will write back to a master is what is there, unless a job for
  that master is to come: a request that wrote the row meanwhile enqueues it. It is
  the write-back of whole rows that makes this part necessary.
* `MasterSafety` and `OwnSafety` are `PermanentBecomesMaster` and `NeverOwnMaster`
  for requests that come one at a time (`~Overlap`). `SoloInv` says that then one
  goroutine is at work or one message waits; so what a request or a job has read
  is still so (`FreshInv`), and each profile that is about to be adopted is not its
  new master and has no other user (`MayAdopt`). `PlanAllowed` shows that of every
  plan, `OnlyMergesMerge` that nothing else turns a master into a child. Restarts
  and failures are allowed, so the tables may hold what earlier merges left half
  done.

Under both lies `BaseInv`: types, that a merged row names a master and a reference
row none, in the tables and in every copy a request or job carries, and that an id
not yet used has no row. An attempt to prove `FamilyHasHead` for requests one at
a time failed where the profile of a job is itself merged, and TLC confirmed it with
larger constants; `NeverOwnMaster` is the part of it that holds.

`ManagedConn_proofs` proves `TypeOK`, `OneConnection` and `CloseLeavesNothing` for
any number of senders and losses. Both rest on the mutual exclusion of
`reconnectMu` (`MutexInv`): a goroutine holds it exactly from the lock to the
unlock of `reconnectWithBackoff`, by whichever of its returns. So at most one
connection is being replaced, and with `ClosedInv` (`Close` sets the flag before all
else, and a dial that ends after it installs nothing) nothing is left open.

`SchemaSync_proofs` proves `TypeOK`, `EnabledMeansReady`, `RuleHasAttribute`,
`SeededOnce` and `SchemaFollowsServer` for every set of administrators, instances and
clients, every finite set of claims and every bound; apart from the finiteness,
the only assumption used on the constants is that administrators and workers are
different. `RuleHasAttribute` is inductive: the foreign key is tested where the
rule is stored, and the cascade removes the rules of every row that goes.
`EnabledMeansReady` is not, because a request stores what it read several steps
before. `EnabledInv` adds to it

* `ReadInv`: a flag a request has read as set, or has set for itself, means that
  the organization is ready, except between the look for the category and its
  insertion;
* `PatchInv`: a request gets to the category only past its sync, and one that is
  about to store `cds_enabled` finds the organization ready.

`Ready` never becomes false again, so what another request does meanwhile does
not matter. A failed read counts as false, which only leads to another sync; the
mutant of `ReadDone` that takes it for true breaks the property.

`SeededOnce` and `SchemaFollowsServer` are about executions without overlap, which is
what their invariants make exact. `LateInv`: as long as no two fetches overlapped,
one request or job is between its fetch and its category, so the one that looked for
the category is the one that inserts it (`SeedInv`). `FollowInv`: what is in the
tables and what a sync is about to write is the answer to the claims as they are now,
or an event, a job or a fetch that will bring it is still on its way (`Coming`), from
the time the organization is, or may yet become, enabled (`Watching`). That a request
that is about to store `cds_enabled` counts as well is the point: a change in that
window is refused as an event, and `missed` remembers it.

`SchemaRules_proofs` proves all five properties of the module.
`RulesOnSchema` rests on the foreign key and its cascade, so it needs only that
what a handler carries was once read. `PrioritiesDiffer` needs more: a request
that has looked for rules of its priority and found none knows that any such rule
came from a request that overlapped it, and the invariant says so for every
request between its look and its insert or update.

The other two rest on `OthersAreTold`: a step leaves the records of other handlers
as they are, but for `crossed`, where they are told of what was written. With
`PatchInv` a PATCH that has read its rule carries, for what it was not sent, the
rule's own value unless it was told of a write of the rule; ids of rules being added
are new (`NewIds`), so an insert never counts as such a write. With `FamilySeen` a
sub-attribute that an insert or a PATCH has looked at is there or was written since,
and a deletion that was told of nothing knows the name of its attribute and that not
every parent of it names it. A step that leaves a parent without a sub-attribute is
then one of a request that another overlapped.

`Consents_proofs` proves all five properties of the module. The invariant
`ConsentInv` adds to them that the mandatory category is never deleted and, for
every request, what it knows at the statement it is at: a PUT that has deleted
remembers what was taken back (`PutRemembers`), a read that has gathered consents
or mandatory categories has them from a time during the read (`GetRemembers`,
`GetAsksMandatory`), and no editor is about to change the mandatory category
(`EditorSpares`). `StepHolds` and the lemmas before it go through the actions
once for the request that moves and once for the others.

`ProfileList_proofs` proves all four properties of the module, for any set
of ids and of creation times that are numbers. `Placed` says that pages and
cursors are made of ids that were given to profiles, whose creation times no
write changes (`WritesKeepKnown`), so the order of what the walk has met stays.
On it rest two invariants:

* `OwedIsOlder`: what the walk must still show is older than its cursor, in
  either direction; once a page was read it is on the page or older than all of
  it; and there is nothing more when there was nothing more to read;
* `SeenIsNewer`: a walk that has not turned has seen only the profile of its
  cursor and newer ones.

That the page is as large as fits plays no part in these two: both hold for any page
of the rows closest to the cursor. `TurningReturns` does need it. `Pages` says that,
since the list last changed, the page that was read is what the list begins with
beyond its cursor (`PageOf`); that a page that was left for the next one is what the
list begins with at the new cursor, seen the other way, because what a cursor leaves
behind ends with the page it was taken from (`PageBehind`); and that a walk that has
turned asks for what lies there. Two pages of one size that the same rows begin with
are equal (`OnePage`), so the walk is shown the page it had come from.

`SessionCookies_proofs` proves all safety properties of the module, for any sets of
browsers (at least one), users, profiles and cookies. `EndedInv` says that a cookie
whose session was terminated is inactive or gone for good, `UsedInv` that browsers and
requests hold only cookies that were handed out, so none of them comes into use anew,
and `LateInv` that a request is late only for a cookie that has ended, and has no
profile from it. `ServeCookies` and the lemmas after it show that no step of a handler,
of the worker or of a sweep brings a cookie back. This is `NoUseAfterLogout`.

`LogoutEndsSession` and `ProfileKeepsUser` rest on `crossed \/ Orderly`; TLC checked it
on the instance of the run before it was proved. `Orderly` is what holds as long as the
requests that write come one after the other and none fails:

* `OneWriter`: one of them is at work, or one job waits;
* `Merged`: rows are merged one deep, into a live reference profile that has a user,
  so a profile that a user id can be written to has no children;
* `OneReference`: a user has one reference profile, or two of which one is the profile
  of the job that waits, and that one has no children (a job leaves the children of
  its profile where they are, and they would be merged two deep);
* `OneCookie`: an active cookie is the only one of a live profile, no two browsers hold
  the same, and the one a browser holds leads to a profile of nobody or of the user who
  is logged in there;
* `Known`: what each request knows at the statement it is at. The family a termination
  or a deletion has found is still the family; a login that goes on holds the profile
  of its cookie; an update is about to write back the user id that is there;
* `FreshDiffer`: two requests that are about to insert a cookie do so for profiles of
  their own.

With these, a termination that was answered has found the cookie in the family, or the
cookie does not lead to its user (`TerminationEnds`), and the one statement that gives
a profile a user id finds it without one (`WriteChanges`). `OthersKnow` and `OwnKnows`
are the long part: what a request knows survives each step of the others, since only a
writer changes what a writer knows.

Only model-checked: the liveness properties, with the premise of `AcceptedJobSettles`
(TLAPS does no liveness under fairness). Every safety property of the passing runs is
proved; `SameUserMerged`, `PermanentBecomesMaster` and `NeverOwnMaster` under the
hypotheses named above, as the runs have them.

## Not modelled

`PROJECT.json` lists every component with its state. Out of the models are:

* start-up and configuration, HTTP routing, the health check, formatting and
  logging, which keep no state or only read it;
* authentication and authorization, decisions on one request, with the cache of
  their results, a map with expiry under a mutex;
* the attribute-wise merge of two profiles (`MergeProfiles`) and the validation
  and conversion of profile data, functions of one request's data that tests
  reach well; the models have whether data is written, not which;
* the operators of a filter, and the SQL that is put together for them: a profile
  matches or does not;
* the SQL dialects, except where a key, a cascade or a missing `RETURNING`
  matters;
* the calls of the identity server other than the fetch of its claims;
* messages in the broker: `ManagedConn` has its connection, and
  `ProfileUnification` what is lost with an instance;
* the lazy opening of the database pool against its close.
