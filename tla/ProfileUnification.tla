------------------------- MODULE ProfileUnification -------------------------
(***************************************************************************)
(* The profile hierarchy: the requests that create profiles and attach     *)
(* user ids to them, and the worker that merges profiles of one person     *)
(* under one master.  They share nothing but the database, and each step   *)
(* below is one statement or one transaction on it.                        *)
(*                                                                         *)
(*   internal/profile/service/profile_service.go          req              *)
(*   internal/profile/handler/profile_handler.go          req              *)
(*   internal/system/workers/profile_worker.go            job, queue       *)
(*   internal/profile/store/profile_store.go              status, ref, user*)
(*                                                                         *)
(* Attributes are not modelled: whether a unification rule matches two     *)
(* profiles is a free choice, and so is the row order of a query, which    *)
(* PostgreSQL does not define.                                             *)
(***************************************************************************)
EXTENDS Naturals, Sequences, FiniteSets, Functions

CONSTANTS Profiles,  \* ids that requests create profiles under
          Masters,   \* ids the worker creates neutral masters under (a bound)
          Existing,  \* anonymous profiles that exist at the start
          Users,     \* user ids of the identity server
          NoUser,    \* the empty user id
          NoProfile, \* the empty reference_profile_id
          Requests,  \* API requests, each one operation (a bound)
          Consumers, \* unification workers: one per server instance
          Server,    \* the instance that serves each request
          Deletable, \* ids that requests may delete (a bound)
          Overlap,   \* may a request arrive while anything else is in flight?
          Failures   \* may a call to the database or the queue, or an instance, fail?

ASSUME ExistingAssumption == Existing \subseteq Profiles
ASSUME ServerAssumption   == Server \in [Requests -> Consumers]
ASSUME SwitchesAssumption == Overlap \in BOOLEAN /\ Failures \in BOOLEAN
ASSUME IdsAssumption == /\ Profiles \cap Masters = {}
                        /\ NoProfile \notin Profiles \cup Masters
                        /\ NoUser \notin Users

Ids == Profiles \cup Masters

VARIABLES
  rows,    \* the ids with a row in the profiles table
  user,    \* its user_id
  status,  \* the profile_status of the row in the profile_reference table, which has no
           \* foreign key: "unused" before there is one, "none" after it is deleted
  ref,     \* its reference_profile_id
  queue,   \* the unification queue of each instance
  job,     \* the unification job each worker is at
  req,     \* the API request each handler goroutine is at
  lost     \* profiles whose job was dropped or cut short by a failed call

tables == <<rows, user, status, ref>>
vars   == <<tables, queue, job, req, lost>>

NoJob     == [pc |-> "idle"]
Finished  == [pc |-> "done"]

-----------------------------------------------------------------------------
OptUser    == Users \cup {NoUser}
OptProfile == Ids \cup {NoProfile}

\* ProfileStatus as a query read it; UpdateProfile writes it back unchanged.
Snapshot == [status : {"REFERENCE", "MERGED"}, ref : OptProfile]

Read(p) == [status |-> status[p], ref |-> ref[p]]

Jobs == {NoJob}
  \cup [pc : {"list"}, id : Ids, user : OptUser, ref : OptProfile]
  \cup [pc : {"refs"}, id : Ids, user : OptUser, old : Ids, oldUser : OptUser]
  \cup [pc : {"insert"}, id : Ids, old : Ids]
  \cup [pc : {"adopt"}, id : Ids, master : Ids, todo : Seq(SUBSET Ids)]
  \cup [pc : {"fetch"}, id : Ids, master : Ids, left : 1..2]
  \cup [pc : {"save"}, id : Ids, master : Ids, left : 1..2, user : OptUser, row : Snapshot]
  \cup [pc : {"saveRef"}, id : Ids, master : Ids, left : 1..2, row : Snapshot]

Handlers == {[pc |-> "new"], Finished}
  \cup [pc : {"read"}, id : Ids, user : OptUser]
  \cup [pc : {"readMaster"}, id : Ids, seen : Ids, user : OptUser]
  \cup [pc : {"write"}, id : Ids, seen : Ids, user : OptUser, row : Snapshot]
  \cup [pc : {"writeRef"}, id : Ids, seen : Ids, row : Snapshot]
  \cup [pc : {"enqueue"}, id : Ids, seen : Ids]
  \cup [pc : {"family"}, id : Ids, row : Snapshot]
  \cup [pc : {"detach"}, id : Ids, master : Ids]
  \cup [pc : {"remove"}, id : Ids, todo : Seq(SUBSET Ids)]

TypeOK ==
  /\ rows \subseteq Ids
  /\ status \in [Ids -> {"unused", "none", "REFERENCE", "MERGED"}]
  /\ ref \in [Ids -> OptProfile]
  /\ user \in [Ids -> OptUser]
  /\ queue \in [Consumers -> Seq(Ids)]
  /\ job \in [Consumers -> Jobs]
  /\ req \in [Requests -> Handlers]
  /\ lost \subseteq Ids

Init ==
  /\ rows = Existing
  /\ status = [p \in Ids |-> IF p \in Existing THEN "REFERENCE" ELSE "unused"]
  /\ ref = [p \in Ids |-> NoProfile]
  /\ user = [p \in Ids |-> NoUser]
  /\ queue = [k \in Consumers |-> <<>>]
  /\ job = [k \in Consumers |-> NoJob]
  /\ req = [r \in Requests |-> [pc |-> "new"]]
  /\ lost = {}

-----------------------------------------------------------------------------
(***************************************************************************)
(* API requests.                                                           *)
(***************************************************************************)

\* Nothing is in flight: no request, no job, no message.
Settled ==
  /\ \A r \in Requests : req[r].pc \in {"new", "done"}
  /\ \A k \in Consumers : job[k] = NoJob /\ queue[k] = <<>>

Arrives(r) == req[r].pc = "new" /\ (Overlap \/ Settled)

\* GetProfile of the store joins the two rows; it panics on a profile without its
\* reference row.
HasReference(p) == status[p] \in {"REFERENCE", "MERGED"}
Readable(p) == p \in rows /\ HasReference(p)

\* GetProfile of the service: a child is shown with the user id of its master.
Shown(p) == Readable(p) /\ (status[p] = "REFERENCE" \/ Readable(ref[p]))

ShownUser(p) == IF status[p] = "REFERENCE" THEN user[p] ELSE user[ref[p]]

\* CreateProfile inserts the row and its reference row; the id is not known to
\* anybody until both are there.
Create(r, p, u) ==
  /\ Arrives(r)
  /\ p \in Profiles
  /\ status[p] = "unused"
  /\ rows' = rows \cup {p}
  /\ status' = [status EXCEPT ![p] = "REFERENCE"]
  /\ user' = [user EXCEPT ![p] = u]
  /\ req' = [req EXCEPT ![r] = [pc |-> "enqueue", id |-> p, seen |-> p]]
  /\ UNCHANGED <<ref, queue, job, lost>>

\* The update a handler asks UpdateProfile for.
Updates(r, p, u) ==
  /\ Arrives(r)
  /\ Shown(p)
  /\ req' = [req EXCEPT ![r] = [pc |-> "read", id |-> p, user |-> u]]
  /\ UNCHANGED <<tables, queue, job, lost>>

\* LinkProfile goes on only for a profile that shows no user.
Link(r, p, u) == u \in Users /\ Updates(r, p, u) /\ ShownUser(p) = NoUser

\* SyncProfile, AUTHENTICATION_SUCCESS: u logs in with a cookie of p.  Nothing is done
\* when p itself is the user's profile; whose profile p is otherwise is not looked at.
Login(r, p, u) ==
  /\ u \in Users
  /\ LET found == {q \in rows : status[q] = "REFERENCE" /\ user[q] = u}
     IN  found = {} \/ \E q \in found : q # p
  /\ Updates(r, p, u)

\* SyncProfile, ADD_USER: u signs up with a cookie of p.
SignUp(r, p, u) == u \in Users /\ Updates(r, p, u)

\* PatchProfile sends back the user id it read, like an update of a user's claims.
Patch(r, p) == Updates(r, p, ShownUser(p))

\* PUT carries the user id of the request's body, empty when the body has none; so does
\* a PATCH whose body names a user_id.
Put(r, p, u) == u \in OptUser /\ Updates(r, p, u)

\* Seeded fault: the update goes to the master without a test that there is one.
ReadProfile_AlwaysMaster(r) ==
  /\ req[r].pc = "read"
  /\ Readable(req[r].id)
  /\ req' = [req EXCEPT ![r] = [pc |-> "readMaster", id |-> ref[@.id], seen |-> @.id,
                                user |-> @.user]]
  /\ UNCHANGED <<tables, queue, job, lost>>

\* UpdateProfile reads the profile; for a child the update goes to its master.
ReadProfile(r) ==
  /\ req[r].pc = "read"
  /\ Readable(req[r].id)
  /\ LET p == req[r].id IN
     req' = [req EXCEPT ![r] =
               IF status[p] = "REFERENCE"
               THEN [pc |-> "write", id |-> p, seen |-> p, user |-> @.user, row |-> Read(p)]
               ELSE [pc |-> "readMaster", id |-> ref[p], seen |-> p, user |-> @.user]]
  /\ UNCHANGED <<tables, queue, job, lost>>

ReadMaster(r) ==
  /\ req[r].pc = "readMaster"
  /\ Readable(req[r].id)
  /\ req' = [req EXCEPT ![r] = [pc |-> "write", id |-> @.id, seen |-> @.seen,
                                user |-> @.user, row |-> Read(@.id)]]
  /\ UNCHANGED <<tables, queue, job, lost>>

\* The first statement of the store's UpdateProfile: the profiles row, if it is there.
WriteProfile(r) ==
  /\ req[r].pc = "write"
  /\ user' = [user EXCEPT ![req[r].id] = IF req[r].id \in rows THEN req[r].user ELSE @]
  /\ req' = [req EXCEPT ![r] = [pc |-> "writeRef", id |-> @.id, seen |-> @.seen,
                                row |-> @.row]]
  /\ UNCHANGED <<rows, status, ref, queue, job, lost>>

\* The second: the profile_reference row, if it is there, as it was when the profile was
\* read.
WriteReference(r) ==
  /\ req[r].pc = "writeRef"
  /\ LET p == req[r].id IN
     IF HasReference(p)
     THEN /\ status' = [status EXCEPT ![p] = req[r].row.status]
          /\ ref' = [ref EXCEPT ![p] = req[r].row.ref]
     ELSE UNCHANGED <<status, ref>>
  /\ req' = [req EXCEPT ![r] = [pc |-> "enqueue", id |-> @.id, seen |-> @.seen]]
  /\ UNCHANGED <<rows, user, queue, job, lost>>

\* The instance that serves the request reads the profile again, and enqueues the
\* profile it wrote.
Enqueue(r) ==
  /\ req[r].pc = "enqueue"
  /\ Shown(req[r].seen)
  /\ queue' = [queue EXCEPT ![Server[r]] = Append(@, req[r].id)]
  /\ req' = [req EXCEPT ![r] = Finished]
  /\ UNCHANGED <<tables, job, lost>>

\* DeleteProfile, also for a user the identity server deleted.
Delete(r, p) ==
  /\ Arrives(r)
  /\ p \in Deletable /\ Readable(p)
  /\ req' = [req EXCEPT ![r] = [pc |-> "family", id |-> p, row |-> Read(p)]]
  /\ UNCHANGED <<tables, queue, job, lost>>

\* The profiles that name p as their master (FetchReferencedProfiles).
Children(p) == {c \in Ids : HasReference(c) /\ ref[c] = p}

\* What a caller that ignores the error of FetchReferencedProfiles works with.
ChildrenOrNone(p) == {Children(p)} \cup (IF Failures THEN {{}} ELSE {})

\* What goes, and in which order: the children before their master; with an only child
\* its master first; one child of several after its reference row.
ReadFamily(r) ==
  /\ req[r].pc = "family"
  /\ LET p == req[r].id
         m == req[r].row.ref
         Removal(todo) == [pc |-> "remove", id |-> p, todo |-> todo]
     IN  IF req[r].row.status = "REFERENCE"
         THEN \E kids \in ChildrenOrNone(p) :
                req' = [req EXCEPT ![r] = Removal(IF kids = {} THEN << {p} >>
                                                  ELSE << kids, {p} >>)]
         ELSE /\ Readable(m)
              /\ \E kids \in ChildrenOrNone(m) :
                   req' = [req EXCEPT ![r] =
                             IF Cardinality(kids) = 1
                             THEN Removal(<< {m}, {p} >>)
                             ELSE [pc |-> "detach", id |-> p, master |-> m]]
  /\ UNCHANGED <<tables, queue, job, lost>>

Detach(r) ==
  /\ req[r].pc = "detach"
  /\ LET p == req[r].id IN
     /\ status' = [status EXCEPT ![p] = IF p \in Children(req[r].master) THEN "none" ELSE @]
     /\ req' = [req EXCEPT ![r] = [pc |-> "remove", id |-> p, todo |-> << {p} >>]]
  /\ UNCHANGED <<rows, user, ref, queue, job, lost>>

\* The store's DeleteProfile deletes a row of profiles and no row of profile_reference.
Remove(r) ==
  /\ req[r].pc = "remove"
  /\ LET todo == req[r].todo IN
     \E p \in Head(todo) :
       /\ rows' = rows \ {p}
       /\ user' = [user EXCEPT ![p] = NoUser]
       /\ req' = [req EXCEPT ![r] =
                    CASE Head(todo) # {p} ->
                           [@ EXCEPT !.todo = << Head(todo) \ {p} >> \o Tail(todo)]
                      [] Head(todo) = {p} /\ Len(todo) > 1 -> [@ EXCEPT !.todo = Tail(todo)]
                      [] OTHER -> Finished]
  /\ UNCHANGED <<status, ref, queue, job, lost>>

\* What the handler reads next is not there: it answers 404, or panics.
Gone(h) == CASE h.pc \in {"read", "readMaster"} -> ~Readable(h.id)
             [] h.pc = "enqueue" -> ~Shown(h.seen)
             [] h.pc = "family" -> h.row.status = "MERGED" /\ ~Readable(h.row.ref)
             [] OTHER -> FALSE

\* That, a failed call to the database, or a queue that is full or closed: the request ends
\* where it is, and what it wrote is not enqueued.
RequestFails(r) ==
  /\ req[r].pc \notin {"new", "done"}
  /\ Failures \/ Gone(req[r])
  /\ lost' = IF req[r].pc \in {"family", "detach", "remove"} THEN lost
             ELSE lost \cup {req[r].id}
  /\ req' = [req EXCEPT ![r] = Finished]
  /\ UNCHANGED <<tables, queue, job>>

-----------------------------------------------------------------------------
(***************************************************************************)
(* The unification worker.                                                 *)
(***************************************************************************)

\* StartProfileWorker's handler fetches the profile the message names, if it is there.
Fetch(k) ==
  /\ job[k].pc = "idle"
  /\ queue[k] # <<>>
  /\ Head(queue[k]) \in rows => HasReference(Head(queue[k]))
  /\ queue' = [queue EXCEPT ![k] = Tail(@)]
  /\ LET p == Head(queue[k]) IN
     job' = IF p \in rows
            THEN [job EXCEPT ![k] = [pc |-> "list", id |-> p, user |-> user[p], ref |-> ref[p]]]
            ELSE job
  /\ UNCHANGED <<tables, req, lost>>

\* Seeded fault: the query no longer leaves out the profile at hand.
Candidates_WithSelf(j) == {q \in rows \ {j.ref} : status[q] = "REFERENCE"}

\* unifyProfiles: the reference profiles other than the one at hand and its parent.
Candidates(j) == {q \in rows \ {j.id, j.ref} : status[q] = "REFERENCE"}

\* Seeded fault: without step 3a, only a rule brings two profiles of a user together.
SameUser_NoStep3a(j) == {}

\* Step 3a: a candidate with the same user id is taken before any rule is evaluated.
SameUser(j) == {q \in Candidates(j) : j.user # NoUser /\ user[q] = j.user}

\* One candidate is chosen.
Match(k) ==
  /\ job[k].pc = "list"
  /\ \E q \in IF SameUser(job[k]) # {} THEN SameUser(job[k]) ELSE Candidates(job[k]) :
       job' = [job EXCEPT ![k] = [pc |-> "refs", id |-> @.id, user |-> @.user,
                                  old |-> q, oldUser |-> user[q]]]
  /\ UNCHANGED <<tables, queue, req, lost>>

\* No user id is shared and no rule matches, or the parent came first.
NoMatch(k) ==
  /\ job[k].pc = "list"
  /\ SameUser(job[k]) = {}
  /\ job' = [job EXCEPT ![k] = NoJob]
  /\ UNCHANGED <<tables, queue, req, lost>>

\* Seeded fault: two different users are no reason not to merge.
Plan_AnyUsers(j, kids) ==
  LET Under(m, todo) == [pc |-> "adopt", id |-> j.id, master |-> m, todo |-> todo]
      permanentOld == j.oldUser # NoUser
      permanentNew == j.user # NoUser
  IN  CASE permanentOld -> Under(j.old, << {j.id} >>)
        [] ~permanentOld /\ permanentNew ->
             Under(j.id, IF kids = {} THEN << {j.old} >> ELSE << kids, {j.old} >>)
        [] ~permanentOld /\ ~permanentNew /\ kids # {} -> Under(j.old, << {j.id} >>)
        [] OTHER -> [pc |-> "insert", id |-> j.id, old |-> j.old]

\* mergeMatchedProfiles, mergePermanentAndTemporary and mergeSameKindProfiles: who becomes
\* master of whom, for an existing profile with these children.
Plan(j, kids) ==
  LET Under(m, todo) == [pc |-> "adopt", id |-> j.id, master |-> m, todo |-> todo]
      permanentOld == j.oldUser # NoUser
      permanentNew == j.user # NoUser
      others == permanentOld /\ permanentNew /\ j.user # j.oldUser
  IN  CASE others -> NoJob
        [] permanentOld /\ ~others -> Under(j.old, << {j.id} >>)
        [] ~permanentOld /\ permanentNew ->
             Under(j.id, IF kids = {} THEN << {j.old} >> ELSE << kids, {j.old} >>)
        [] ~permanentOld /\ ~permanentNew /\ kids # {} -> Under(j.old, << {j.id} >>)
        [] OTHER -> [pc |-> "insert", id |-> j.id, old |-> j.old]

\* The children of the existing profile are read; when that fails it is taken for childless.
Decide(k) ==
  /\ job[k].pc = "refs"
  /\ \E kids \in ChildrenOrNone(job[k].old) : job' = [job EXCEPT ![k] = Plan(@, kids)]
  /\ UNCHANGED <<tables, queue, req, lost>>

\* Both are temporary and the existing one has no children: a neutral master is created.
InsertMaster(k) ==
  /\ job[k].pc = "insert"
  /\ \E m \in Masters :
       /\ status[m] = "unused"
       /\ rows' = rows \cup {m}
       /\ status' = [status EXCEPT ![m] = "REFERENCE"]
       /\ job' = [job EXCEPT ![k] = [pc |-> "adopt", id |-> @.id, master |-> m,
                                     todo |-> << {@.id, @.old} >>]]
  /\ UNCHANGED <<user, ref, queue, req, lost>>

\* UpdateProfileReferences: one transaction that turns every named profile into a child.
Adopt(k) ==
  /\ job[k].pc = "adopt"
  /\ LET j == job[k]
         adopted == {c \in Head(j.todo) : HasReference(c)}
     IN  /\ status' = [c \in Ids |-> IF c \in adopted THEN "MERGED" ELSE status[c]]
         /\ ref' = [c \in Ids |-> IF c \in adopted THEN j.master ELSE ref[c]]
         /\ IF Tail(j.todo) # <<>>
            THEN job' = [job EXCEPT ![k].todo = Tail(@)]
            ELSE \E n \in 0..2 :
                   job' = [job EXCEPT ![k] =
                             IF n = 0 THEN NoJob
                             ELSE [pc |-> "fetch", id |-> j.id, master |-> j.master, left |-> n]]
  /\ UNCHANGED <<rows, user, queue, req, lost>>

\* persistMergedProfileData: the traits and then the identity attributes are each saved
\* by reading the whole master and writing the whole master; a profile without traits or
\* without identity attributes has one round less.
FetchMaster(k) ==
  /\ job[k].pc = "fetch"
  /\ Readable(job[k].master)
  /\ job' = [job EXCEPT ![k] = [pc |-> "save", id |-> @.id, master |-> @.master,
                                left |-> @.left, user |-> user[@.master],
                                row |-> Read(@.master)]]
  /\ UNCHANGED <<tables, queue, req, lost>>

SaveMaster(k) ==
  /\ job[k].pc = "save"
  /\ LET j == job[k] IN
     user' = [user EXCEPT ![j.master] = IF j.master \in rows THEN j.user ELSE @]
  /\ job' = [job EXCEPT ![k] = [pc |-> "saveRef", id |-> @.id, master |-> @.master,
                                left |-> @.left, row |-> @.row]]
  /\ UNCHANGED <<rows, status, ref, queue, req, lost>>

SaveReference(k) ==
  /\ job[k].pc = "saveRef"
  /\ LET j == job[k] IN
     /\ IF HasReference(j.master)
        THEN /\ status' = [status EXCEPT ![j.master] = j.row.status]
             /\ ref' = [ref EXCEPT ![j.master] = j.row.ref]
        ELSE UNCHANGED <<status, ref>>
     /\ job' = [job EXCEPT ![k] =
                  IF j.left = 1 THEN NoJob
                  ELSE [pc |-> "fetch", id |-> j.id, master |-> j.master, left |-> 1]]
  /\ UNCHANGED <<rows, user, queue, req, lost>>

\* A call to the database fails, or the master is gone: the error is logged, and the job
\* ends where it is.
Fail(k) ==
  /\ job[k].pc # "idle"
  /\ Failures \/ (job[k].pc = "fetch" /\ job[k].master \notin rows)
  /\ job' = [job EXCEPT ![k] = NoJob]
  /\ lost' = lost \cup {job[k].id}
  /\ UNCHANGED <<tables, queue, req>>

\* What the worker reads next with GetProfile.
NextRead(k) == CASE job[k].pc = "idle" /\ queue[k] # <<>> -> {Head(queue[k])}
                 [] job[k].pc = "fetch" -> {job[k].master}
                 [] OTHER -> {}

\* No goroutine recovers a panic of the worker: the process ends.
Panics(k) == \E p \in NextRead(k) : p \in rows /\ ~HasReference(p)

\* An instance ends, and a new one takes its place: the queue in memory, the job and the
\* requests it served are gone, the tables stay as they are.
Restart(k) ==
  LET cut == {r \in Requests : Server[r] = k /\ req[r].pc \notin {"new", "done"}} IN
  /\ Failures \/ Panics(k)
  /\ queue' = [queue EXCEPT ![k] = <<>>]
  /\ job' = [job EXCEPT ![k] = NoJob]
  /\ req' = [r \in Requests |-> IF r \in cut THEN Finished ELSE req[r]]
  /\ lost' = lost \cup Range(queue[k]) \cup {req[r].id : r \in cut}
                  \cup (IF job[k] = NoJob THEN {} ELSE {job[k].id})
  /\ UNCHANGED tables

-----------------------------------------------------------------------------
Handle(r) ==
  \/ \E p \in Profiles, u \in OptUser : Create(r, p, u)
  \/ \E p \in Ids, u \in Users : Link(r, p, u) \/ Login(r, p, u) \/ SignUp(r, p, u)
  \/ \E p \in Ids : Patch(r, p)
  \/ \E p \in Ids, u \in OptUser : Put(r, p, u)
  \/ ReadProfile(r) \/ ReadMaster(r) \/ WriteProfile(r) \/ WriteReference(r)
  \/ \E p \in Ids : Delete(r, p)
  \/ ReadFamily(r) \/ Detach(r) \/ Remove(r)
  \/ Enqueue(r) \/ RequestFails(r)

Unify(k) ==
  \/ Fetch(k) \/ Match(k) \/ NoMatch(k) \/ Decide(k) \/ InsertMaster(k) \/ Adopt(k)
  \/ FetchMaster(k) \/ SaveMaster(k) \/ SaveReference(k)
  \/ Fail(k) \/ Restart(k)

Next ==
  \/ \E r \in Requests : Handle(r)
  \/ \E k \in Consumers : Unify(k)

Spec == Init /\ [][Next]_vars

-----------------------------------------------------------------------------
\* profile_worker.go, step 3a: "Profiles with the same userId must always be merged".
\* When nothing is in flight, two master profiles share a user id only if a job of one of
\* them was lost, whatever the order in which requests and the worker read and wrote.
SameUserMerged ==
  Settled =>
    \A p, q \in {x \in rows : status[x] = "REFERENCE"} :
      p # q /\ user[p] = user[q] /\ user[p] # NoUser => lost \cap {p, q} # {}

\* profiles.md: merged_to "points to the master profile they were merged into".  When nothing
\* is in flight, following the references of merged profiles neither goes round in a circle
\* nor ends at a profile that is gone.
FamilyHasHead ==
  Settled =>
    \A C \in SUBSET {p \in rows : status[p] = "MERGED"} :
      C # {} => \E p \in C : ref[p] \in rows \ C

\* The smallest circle: when requests come one at a time, no profile is its own master,
\* though the worker takes the children of the profile it found from a second query.
NeverOwnMaster == \A p \in Ids : ref[p] # p

\* inmemory.go: the worker's goroutine "runs until the channel is closed".  No request can
\* make it end, with the process, by what it does to the profile the worker reads next.
WorkerNeverPanics == \A k \in Consumers : ~Panics(k)

\* profile_worker.go: "The permanent profile always becomes the master", and
\* how-unification-works.md: two permanent profiles "with different user IDs" are "not
\* merged".  A profile with a user id becomes the child of one with the same user id only, by
\* the user ids the profiles have then.
PermanentBecomesMaster ==
  [][\A p \in rows : status[p] = "REFERENCE" /\ status'[p] = "MERGED" =>
       user[p] \in {NoUser, user[ref'[p]]}]_vars
=============================================================================
