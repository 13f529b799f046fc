---------------------- MODULE ProfileUnification_proofs ----------------------
(***************************************************************************)
(* What ProfileUnification promises for any profiles, users and requests:  *)
(* with one instance, two master profiles of a user remain only when a job *)
(* was lost; with requests one at a time, no profile is put under another  *)
(* user's, and none under itself.                                          *)
(***************************************************************************)
EXTENDS ProfileUnification, SequenceTheorems, TLAPS

\* A row as a query read it, in a request or in a job, names a master just when it is merged.
Whole(s) == s.status = "REFERENCE" <=> s.ref = NoProfile

\* Nothing is known of an id that was never used; a merged profile has a master.
RowInv ==
  /\ \A p \in Ids :
       status[p] = "unused" => p \notin rows /\ user[p] = NoUser /\ ref[p] = NoProfile
  /\ \A p \in Ids : HasReference(p) => Whole(Read(p))
  /\ \A r \in Requests : req[r].pc \in {"write", "writeRef"} => Whole(req[r].row)
  /\ \A k \in Consumers : job[k].pc \in {"save", "saveRef"} => Whole(job[k].row)

\* There is something left to remove, or to adopt.
TodoInv ==
  /\ \A r \in Requests : req[r].pc = "remove" => req[r].todo # <<>>
  /\ \A k \in Consumers : job[k].pc = "adopt" => job[k].todo # <<>>

BaseInv == TypeOK /\ TodoInv /\ RowInv

-----------------------------------------------------------------------------
(* One instance.                                                           *)

\* Two master profiles of one user.
Twins(p, q) ==
  /\ p # q /\ status[p] = "REFERENCE" /\ status[q] = "REFERENCE"
  /\ user[p] = user[q] /\ user[p] # NoUser

\* A job for p is still to come, or was lost.
Pending(p) ==
  \/ p \in lost
  \/ \E r \in Requests : req[r].pc \in {"writeRef", "enqueue"} /\ req[r].id = p
  \/ \E k \in Consumers : p \in Range(queue[k])

\* The worker is at a job for p: it looks for the twins of p, has found one, or merges p.
AtHand(p) ==
  \E k \in Consumers :
    /\ job[k].pc \in {"list", "refs", "adopt"} /\ job[k].id = p
    /\ \/ job[k].pc = "list" /\ job[k].user = user[p] /\ job[k].ref = NoProfile
       \/ job[k].pc = "refs" /\ job[k].user = job[k].oldUser /\ job[k].user # NoUser
       \/ job[k].pc = "adopt" /\ \E i \in 1..Len(job[k].todo) : p \in job[k].todo[i]

\* Of two master profiles of one user, one is tended.
Tended(p) == Pending(p) \/ AtHand(p)

TwinsInv == \A p, q \in rows : Twins(p, q) => Tended(p) \/ Tended(q)

\* What the worker writes back to a master is what is there, or the master comes again.
SavedInv ==
  \A k \in Consumers :
    LET m == job[k].master IN
    /\ job[k].pc = "save" => Pending(m) \/ (m \in rows => user[m] = job[k].user)
    /\ job[k].pc \in {"save", "saveRef"} =>
         Pending(m) \/ (HasReference(m) => status[m] = job[k].row.status)

OneInstance == \A k, l \in Consumers : k = l

InstanceInv == BaseInv /\ TwinsInv /\ SavedInv

-----------------------------------------------------------------------------
(* One request at a time.                                                  *)

Busy(r)    == req[r].pc \notin {"new", "done"}
Working(k) == job[k] # NoJob \/ queue[k] # <<>>

\* One goroutine is at work, or one message waits.
SoloInv ==
  /\ \A r, s \in Requests : Busy(r) /\ Busy(s) => r = s
  /\ \A r \in Requests, k \in Consumers : ~ (Busy(r) /\ Working(k))
  /\ \A k, l \in Consumers : Working(k) /\ Working(l) => k = l
  /\ \A k \in Consumers : /\ queue[k] = <<>> \/ Tail(queue[k]) = <<>>
                          /\ job[k] # NoJob => queue[k] = <<>>

\* A merge of p under m is one that PermanentBecomesMaster and NeverOwnMaster allow.
MayAdopt(m, p) == m # p /\ (status[p] = "REFERENCE" => user[p] \in {NoUser, user[m]})

\* What a request read is still there when it writes.
FreshRequest(r) ==
  req[r].pc \in {"write", "writeRef"} =>
    /\ HasReference(req[r].id) => status[req[r].id] = req[r].row.status
    /\ req[r].row.ref # req[r].id

\* What a job has read as well, and what it is about to merge.
FreshJob(j) ==
  /\ j.pc = "list" => HasReference(j.id) /\ ref[j.id] = j.ref /\ user[j.id] = j.user
  /\ j.pc \in {"refs", "insert"} => HasReference(j.id) /\ status[j.old] = "REFERENCE"
                                      /\ j.old # j.id
  /\ j.pc = "refs" => /\ user[j.id] = j.user /\ user[j.old] = j.oldUser
                      /\ ref[j.id] # j.old
  /\ j.pc = "insert" => user[j.id] = NoUser /\ user[j.old] = NoUser
  /\ j.pc = "adopt" => \A i \in 1..Len(j.todo) : \A p \in j.todo[i] : MayAdopt(j.master, p)
  /\ j.pc \in {"save", "saveRef"} =>
       /\ HasReference(j.master) => status[j.master] = j.row.status
       /\ j.row.ref # j.master

FreshInv ==
  /\ \A r \in Requests : FreshRequest(r)
  /\ \A k \in Consumers : FreshJob(job[k])

SequentialInv == BaseInv /\ SoloInv /\ FreshInv /\ NeverOwnMaster

-----------------------------------------------------------------------------
(***************************************************************************)
(* Types.                                                                  *)
(***************************************************************************)

\* The fields a handler has where it is.
LEMMA HandlerFields ==
  ASSUME NEW h \in Handlers
  PROVE  /\ h.pc \notin {"new", "done"} => h.id \in Ids
         /\ h.pc = "done" => h = Finished
         /\ h.pc = "read" => h.user \in OptUser
         /\ h.pc = "readMaster" => h.seen \in Ids /\ h.user \in OptUser
         /\ h.pc = "write" => h.seen \in Ids /\ h.user \in OptUser /\ h.row \in Snapshot
         /\ h.pc = "writeRef" => h.seen \in Ids /\ h.row \in Snapshot
         /\ h.pc = "enqueue" => h.seen \in Ids
         /\ h.pc = "family" => h.row \in Snapshot
         /\ h.pc = "detach" => h.master \in Ids
         /\ h.pc = "remove" => /\ h.todo \in Seq(SUBSET Ids)
                               /\ h = [pc |-> "remove", id |-> h.id, todo |-> h.todo]
<1>1. h.pc \notin {"new", "done"} => h.id \in Ids
  BY DEF Handlers, Finished
<1>2. h.pc = "done" => h = Finished
  BY DEF Handlers, Finished
<1>3. h.pc = "read" => h.user \in OptUser
  BY DEF Handlers, Finished
<1>4. h.pc = "readMaster" => h.seen \in Ids /\ h.user \in OptUser
  BY DEF Handlers, Finished
<1>5. h.pc = "write" => h.seen \in Ids /\ h.user \in OptUser /\ h.row \in Snapshot
  BY DEF Handlers, Finished
<1>6. h.pc = "writeRef" => h.seen \in Ids /\ h.row \in Snapshot
  BY DEF Handlers, Finished
<1>7. h.pc = "enqueue" => h.seen \in Ids
  BY DEF Handlers, Finished
<1>8. h.pc = "family" => h.row \in Snapshot
  BY DEF Handlers, Finished
<1>9. h.pc = "detach" => h.master \in Ids
  BY DEF Handlers, Finished
<1>10. h.pc = "remove" => /\ h.todo \in Seq(SUBSET Ids)
                          /\ h = [pc |-> "remove", id |-> h.id, todo |-> h.todo]
  BY DEF Handlers, Finished
<1> QED
  BY <1>1, <1>2, <1>3, <1>4, <1>5, <1>6, <1>7, <1>8, <1>9, <1>10

\* The fields a job has where it is.
LEMMA JobFields ==
  ASSUME NEW j \in Jobs
  PROVE  /\ j.pc = "idle" <=> j = NoJob
         /\ j.pc # "idle" => j.id \in Ids
         /\ j.pc = "list" => j.user \in OptUser /\ j.ref \in OptProfile
         /\ j.pc = "refs" => j.user \in OptUser /\ j.old \in Ids /\ j.oldUser \in OptUser
         /\ j.pc = "insert" => j.old \in Ids
         /\ j.pc = "adopt" => /\ j.master \in Ids /\ j.todo \in Seq(SUBSET Ids)
                              /\ j = [pc |-> "adopt", id |-> j.id, master |-> j.master,
                                      todo |-> j.todo]
         /\ j.pc \in {"fetch", "save", "saveRef"} => j.master \in Ids /\ j.left \in 1..2
         /\ j.pc = "save" => j.user \in OptUser
         /\ j.pc \in {"save", "saveRef"} => j.row \in Snapshot
         /\ j.pc \in {"idle", "list", "refs", "insert", "adopt", "fetch", "save", "saveRef"}
<1>1. j.pc = "idle" <=> j = NoJob
  BY DEF Jobs, NoJob
<1>2. j.pc # "idle" => j.id \in Ids
  BY DEF Jobs, NoJob
<1>3. j.pc = "list" => j.user \in OptUser /\ j.ref \in OptProfile
  BY DEF Jobs, NoJob
<1>4. j.pc = "refs" => j.user \in OptUser /\ j.old \in Ids /\ j.oldUser \in OptUser
  BY DEF Jobs, NoJob
<1>5. j.pc = "insert" => j.old \in Ids
  BY DEF Jobs, NoJob
<1>6. j.pc = "adopt" => /\ j.master \in Ids /\ j.todo \in Seq(SUBSET Ids)
                        /\ j = [pc |-> "adopt", id |-> j.id, master |-> j.master,
                                todo |-> j.todo]
  BY DEF Jobs, NoJob
<1>7. j.pc \in {"fetch", "save", "saveRef"} => j.master \in Ids /\ j.left \in 1..2
  BY DEF Jobs, NoJob
<1>8. j.pc = "save" => j.user \in OptUser
  BY DEF Jobs, NoJob
<1>9. j.pc \in {"save", "saveRef"} => j.row \in Snapshot
  BY DEF Jobs, NoJob
<1>10. j.pc \in {"idle", "list", "refs", "insert", "adopt", "fetch", "save", "saveRef"}
  BY DEF Jobs, NoJob
<1> QED
  BY <1>1, <1>2, <1>3, <1>4, <1>5, <1>6, <1>7, <1>8, <1>9, <1>10

\* What a query reads of a profile with a reference row.
LEMMA ReadSnapshot ==
  ASSUME TypeOK, NEW p \in Ids, HasReference(p)
  PROVE  /\ Read(p) \in Snapshot /\ Read(p).status = status[p] /\ Read(p).ref = ref[p]
BY DEF TypeOK, HasReference, Read, Snapshot

LEMMA NoProfileIsNone ==
  NoProfile \notin Ids
BY IdsAssumption DEF Ids

\* A profile that a handler can show has its user id in one of the rows.
LEMMA ShownIsTyped ==
  ASSUME TypeOK, NEW p \in Ids, Shown(p)
  PROVE  ShownUser(p) \in OptUser
<1>1. status[p] # "REFERENCE" => ref[p] \in Ids
  BY DEF TypeOK, Shown, Readable
<1> QED
  BY <1>1 DEF TypeOK, ShownUser

\* Every step of a request is one of these: all that update a profile arrive in the same way.
Serve(r) ==
  \/ ReadProfile(r) \/ ReadMaster(r) \/ WriteProfile(r) \/ WriteReference(r)
  \/ ReadFamily(r) \/ Detach(r) \/ Remove(r) \/ Enqueue(r) \/ RequestFails(r)

Arrive(r) ==
  \/ \E p \in Profiles, u \in OptUser : Create(r, p, u)
  \/ \E p \in Ids, u \in OptUser : Updates(r, p, u)
  \/ \E p \in Ids : Delete(r, p)

LEMMA HandleSteps ==
  ASSUME TypeOK, NEW r \in Requests, Handle(r)
  PROVE  Arrive(r) \/ Serve(r)
<1>1. ASSUME NEW p \in Ids, NEW u \in Users, Link(r, p, u) \/ Login(r, p, u) \/ SignUp(r, p, u)
      PROVE  Updates(r, p, u)
  BY <1>1 DEF Link, Login, SignUp
<1>2. ASSUME NEW p \in Ids, Patch(r, p)
      PROVE  ShownUser(p) \in OptUser /\ Updates(r, p, ShownUser(p))
  BY <1>2, ShownIsTyped DEF Patch, Updates
<1>3. Users \subseteq OptUser
  BY DEF OptUser
<1> QED
  BY <1>1, <1>2, <1>3, Zenon DEF Handle, Arrive, Serve, Put

LEMMA InitBase == Init => BaseInv
<1> SUFFICES ASSUME Init PROVE BaseInv
  OBVIOUS
<1>1. Existing \subseteq Ids
  BY ExistingAssumption DEF Ids
<1>2. rows \subseteq Ids /\ lost \subseteq Ids
  BY <1>1 DEF Init
<1>3. status \in [Ids -> {"unused", "none", "REFERENCE", "MERGED"}]
  BY DEF Init
<1>4. ref \in [Ids -> OptProfile] /\ user \in [Ids -> OptUser]
  BY DEF Init, OptProfile, OptUser
<1>5. queue \in [Consumers -> Seq(Ids)]
  BY DEF Init
<1>6. job \in [Consumers -> Jobs] /\ req \in [Requests -> Handlers]
  BY DEF Init, Jobs, Handlers
<1>7. TypeOK
  BY <1>2, <1>3, <1>4, <1>5, <1>6 DEF TypeOK
<1>8. RowInv
  BY <1>1 DEF Init, RowInv, NoJob, HasReference, Whole, Read
<1>9. TodoInv
  BY DEF Init, TodoInv, NoJob
<1> QED
  BY <1>7, <1>8, <1>9 DEF BaseInv

\* What a step may make of a request, and of a job.
SoundHandler(h) ==
  /\ h \in Handlers
  /\ h.pc = "remove" => h.todo # <<>>
  /\ h.pc \in {"write", "writeRef"} => Whole(h.row)

SoundJob(j) ==
  /\ j \in Jobs
  /\ j.pc = "adopt" => j.todo # <<>>
  /\ j.pc \in {"save", "saveRef"} => Whole(j.row)

LEMMA Sound ==
  ASSUME BaseInv
  PROVE  /\ \A r \in Requests : SoundHandler(req[r])
         /\ \A k \in Consumers : SoundJob(job[k])
BY DEF BaseInv, TypeOK, TodoInv, RowInv, SoundHandler, SoundJob

\* What is read of a row is whole.
LEMMA ReadWhole ==
  ASSUME BaseInv, NEW p \in Ids, HasReference(p)
  PROVE  Read(p) \in Snapshot /\ Whole(Read(p))
BY ReadSnapshot DEF BaseInv, RowInv

LEMMA OneIsSound ==
  ASSUME NEW p \in Ids
  PROVE  << {p} >> \in Seq(SUBSET Ids) /\ << {p} >> # <<>>
OBVIOUS

LEMMA TwoIsSound ==
  ASSUME NEW S \in SUBSET Ids, NEW T \in SUBSET Ids
  PROVE  << S, T >> \in Seq(SUBSET Ids) /\ << S, T >> # <<>> /\ Len(<< S, T >>) = 2
OBVIOUS

LEMMA ChildrenAreIds ==
  ASSUME NEW p, NEW kids \in ChildrenOrNone(p)
  PROVE  kids \in SUBSET Ids /\ \A c \in kids : HasReference(c) /\ ref[c] = p
BY DEF ChildrenOrNone, Children

\* What is left of a queue or of a list of sets when its head is taken off.
LEMMA TakenOff ==
  ASSUME NEW S, NEW s \in Seq(S), s # <<>>
  PROVE  /\ Head(s) \in S /\ Head(s) = s[1] /\ Tail(s) \in Seq(S)
         /\ 1 \in 1..Len(s) /\ Len(Tail(s)) = Len(s) - 1
         /\ \A i \in 1..Len(Tail(s)) : i + 1 \in 1..Len(s) /\ Tail(s)[i] = s[i + 1]
         /\ \A i \in 1..Len(s) : i = 1 \/ (i - 1 \in 1..Len(Tail(s)) /\ s[i] = Tail(s)[i - 1])
         /\ Tail(s) = <<>> <=> Len(s) = 1
         /\ Len(s) > 1 => Tail(s) # <<>>
<1>1. /\ Head(s) \in S /\ Head(s) = s[1] /\ Tail(s) \in Seq(S)
      /\ Len(s) \in Nat /\ Len(s) # 0 /\ Len(Tail(s)) = Len(s) - 1
      /\ \A i \in 1..Len(Tail(s)) : Tail(s)[i] = s[i + 1]
  BY HeadTailProperties, EmptySeq
<1>2. Tail(s) = <<>> <=> Len(Tail(s)) = 0
  BY <1>1, EmptySeq
<1>3. \A i \in 1..Len(s) : i = 1 \/ (i - 1 \in 1..Len(Tail(s)) /\ s[i] = Tail(s)[i - 1])
  <2> TAKE i \in 1..Len(s)
  <2>1. i = 1 \/ i - 1 \in 1..Len(Tail(s))
    BY <1>1
  <2>2. i - 1 \in 1..Len(Tail(s)) => Tail(s)[i - 1] = s[(i - 1) + 1]
    BY <1>1
  <2>3. (i - 1) + 1 = i
    OBVIOUS
  <2> QED
    BY <2>1, <2>2, <2>3
<1> QED
  BY <1>1, <1>2, <1>3

LEMMA RequestSound ==
  ASSUME BaseInv, NEW r \in Requests, Arrive(r) \/ Serve(r)
  PROVE  \E h : SoundHandler(h) /\ req' = [req EXCEPT ![r] = h]
<1>0. SoundHandler(req[r]) /\ req[r] \in Handlers /\ TypeOK
  BY Sound DEF SoundHandler, BaseInv
<1>1. ASSUME NEW p \in Profiles, NEW u \in OptUser, Create(r, p, u)
      PROVE  SoundHandler([pc |-> "enqueue", id |-> p, seen |-> p])
  BY DEF SoundHandler, Handlers, Ids
<1>2. ASSUME NEW p \in Ids, NEW u \in OptUser
      PROVE  SoundHandler([pc |-> "read", id |-> p, user |-> u])
  BY DEF SoundHandler, Handlers
<1>3. ASSUME NEW p \in Ids, Delete(r, p)
      PROVE  SoundHandler([pc |-> "family", id |-> p, row |-> Read(p)])
  BY <1>3, <1>0, ReadSnapshot DEF SoundHandler, Handlers, Delete, Readable
<1>4. ASSUME Arrive(r)
      PROVE  \E h : SoundHandler(h) /\ req' = [req EXCEPT ![r] = h]
  BY <1>1, <1>2, <1>3, <1>4 DEF Arrive, Create, Updates, Delete
<1>5. CASE ReadProfile(r)
  <2>1. req[r].id \in Ids /\ req[r].user \in OptUser
    BY <1>0, <1>5, HandlerFields DEF ReadProfile
  <2>2. HasReference(req[r].id)
    BY <1>5 DEF ReadProfile, Readable
  <2>3. Read(req[r].id) \in Snapshot /\ Whole(Read(req[r].id))
    BY <2>1, <2>2, ReadWhole
  <2>4. SoundHandler([pc |-> "write", id |-> req[r].id, seen |-> req[r].id,
                      user |-> req[r].user, row |-> Read(req[r].id)])
    BY <2>1, <2>3 DEF SoundHandler, Handlers
  <2>5. status[req[r].id] # "REFERENCE" =>
          SoundHandler([pc |-> "readMaster", id |-> ref[req[r].id], seen |-> req[r].id,
                        user |-> req[r].user])
    <3>1. status[req[r].id] # "REFERENCE" => ref[req[r].id] \in Ids
      BY <1>0, <2>1, <2>2 DEF BaseInv, RowInv, Whole, Read, HasReference, TypeOK, OptProfile
    <3> QED
      BY <2>1, <3>1 DEF SoundHandler, Handlers
  <2> QED
    BY <2>4, <2>5, <1>5 DEF ReadProfile
<1>6. CASE ReadMaster(r)
  <2>1. req[r].id \in Ids /\ req[r].user \in OptUser /\ req[r].seen \in Ids
    BY <1>0, <1>6, HandlerFields DEF ReadMaster
  <2>2. Read(req[r].id) \in Snapshot /\ Whole(Read(req[r].id))
    BY <2>1, <1>6, ReadWhole DEF ReadMaster, Readable
  <2>3. SoundHandler([pc |-> "write", id |-> req[r].id, seen |-> req[r].seen,
                      user |-> req[r].user, row |-> Read(req[r].id)])
    BY <2>1, <2>2 DEF SoundHandler, Handlers
  <2> QED
    BY <2>3, <1>6 DEF ReadMaster
<1>7. CASE WriteProfile(r)
  <2>1. req[r].id \in Ids /\ req[r].seen \in Ids /\ req[r].row \in Snapshot /\ Whole(req[r].row)
    BY <1>0, <1>7, HandlerFields DEF WriteProfile, SoundHandler
  <2>2. SoundHandler([pc |-> "writeRef", id |-> req[r].id, seen |-> req[r].seen,
                      row |-> req[r].row])
    BY <2>1 DEF SoundHandler, Handlers
  <2> QED
    BY <2>2, <1>7 DEF WriteProfile
<1>8. CASE WriteReference(r)
  <2>1. req[r].id \in Ids /\ req[r].seen \in Ids
    BY <1>0, <1>8, HandlerFields DEF WriteReference
  <2>2. SoundHandler([pc |-> "enqueue", id |-> req[r].id, seen |-> req[r].seen])
    BY <2>1 DEF SoundHandler, Handlers
  <2> QED
    BY <2>2, <1>8 DEF WriteReference
<1>9. SoundHandler(Finished)
  BY DEF SoundHandler, Handlers, Finished
<1>10. CASE ReadFamily(r)
  <2>1. req[r].id \in Ids /\ req[r].row \in Snapshot
    BY <1>0, <1>10, HandlerFields DEF ReadFamily
  <2>2. ASSUME NEW todo \in Seq(SUBSET Ids), todo # <<>>
        PROVE  SoundHandler([pc |-> "remove", id |-> req[r].id, todo |-> todo])
    BY <2>1, <2>2 DEF SoundHandler, Handlers
  <2>3. CASE req[r].row.status = "REFERENCE"
    <3>1. PICK kids \in ChildrenOrNone(req[r].id) :
            req' = [req EXCEPT ![r] = [pc |-> "remove", id |-> req[r].id,
                                       todo |-> IF kids = {} THEN << {req[r].id} >>
                                                ELSE << kids, {req[r].id} >>]]
      BY <1>10, <2>3 DEF ReadFamily
    <3>2. kids \in SUBSET Ids
      BY <3>1, ChildrenAreIds
    <3>3. << {req[r].id} >> \in Seq(SUBSET Ids) /\ << {req[r].id} >> # <<>>
      BY <2>1, OneIsSound
    <3>4. << kids, {req[r].id} >> \in Seq(SUBSET Ids) /\ << kids, {req[r].id} >> # <<>>
      BY <2>1, <3>2, TwoIsSound
    <3> QED
      BY <2>2, <3>1, <3>3, <3>4
  <2>4. CASE req[r].row.status # "REFERENCE"
    <3>1. Readable(req[r].row.ref)
      BY <1>10, <2>4 DEF ReadFamily
    <3>2. req[r].row.ref \in Ids
      BY <1>0, <3>1 DEF Readable, TypeOK
    <3>3. SoundHandler([pc |-> "detach", id |-> req[r].id, master |-> req[r].row.ref])
      BY <2>1, <3>2 DEF SoundHandler, Handlers
    <3>4. SoundHandler([pc |-> "remove", id |-> req[r].id,
                        todo |-> << {req[r].row.ref}, {req[r].id} >>])
      BY <2>1, <2>2, <3>2, TwoIsSound
    <3> QED
      BY <1>10, <2>4, <3>3, <3>4 DEF ReadFamily
  <2> QED
    BY <2>3, <2>4
<1>11. CASE Detach(r)
  <2>1. req[r].id \in Ids
    BY <1>0, <1>11, HandlerFields DEF Detach
  <2>2. SoundHandler([pc |-> "remove", id |-> req[r].id, todo |-> << {req[r].id} >>])
    BY <2>1, OneIsSound DEF SoundHandler, Handlers
  <2> QED
    BY <2>2, <1>11 DEF Detach
<1>12. CASE Remove(r)
  <2> DEFINE todo == req[r].todo
  <2>1. /\ todo \in Seq(SUBSET Ids) /\ todo # <<>> /\ req[r].id \in Ids
        /\ req[r] = [pc |-> "remove", id |-> req[r].id, todo |-> todo]
    BY <1>0, <1>12, HandlerFields DEF Remove, SoundHandler
  <2>2. ASSUME NEW rest \in Seq(SUBSET Ids), rest # <<>>
        PROVE  SoundHandler([req[r] EXCEPT !.todo = rest])
    <3>1. [req[r] EXCEPT !.todo = rest] = [pc |-> "remove", id |-> req[r].id, todo |-> rest]
      BY <2>1
    <3> QED
      BY <2>1, <2>2, <3>1 DEF SoundHandler, Handlers
  <2>3. /\ Head(todo) \in SUBSET Ids /\ Tail(todo) \in Seq(SUBSET Ids)
        /\ Len(todo) > 1 => Tail(todo) # <<>>
    BY <2>1, TakenOff
  <2>4. ASSUME NEW p
        PROVE  /\ << Head(todo) \ {p} >> \o Tail(todo) \in Seq(SUBSET Ids)
               /\ << Head(todo) \ {p} >> \o Tail(todo) # <<>>
    <3>1. << Head(todo) \ {p} >> \in Seq(SUBSET Ids) /\ Len(<< Head(todo) \ {p} >>) = 1
      BY <2>3
    <3>2. Len(<< Head(todo) \ {p} >> \o Tail(todo)) = 1 + Len(Tail(todo))
      BY <2>3, <3>1, ConcatProperties
    <3>3. Len(Tail(todo)) \in Nat
      BY <2>3
    <3> QED
      BY <2>3, <3>1, <3>2, <3>3, ConcatProperties, EmptySeq
  <2>5. PICK p \in Head(todo) :
          req' = [req EXCEPT ![r] =
                    CASE Head(todo) # {p} ->
                           [req[r] EXCEPT !.todo = << Head(todo) \ {p} >> \o Tail(todo)]
                      [] Head(todo) = {p} /\ Len(todo) > 1 -> [req[r] EXCEPT !.todo = Tail(todo)]
                      [] OTHER -> Finished]
    BY <1>12 DEF Remove
  <2> HIDE DEF todo
  <2>6. CASE Head(todo) # {p}
    BY <2>2, <2>4, <2>5, <2>6
  <2>7. CASE Head(todo) = {p} /\ Len(todo) > 1
    BY <2>2, <2>3, <2>5, <2>7
  <2>8. CASE Head(todo) = {p} /\ ~ (Len(todo) > 1)
    BY <1>9, <2>5, <2>8
  <2> QED
    BY <2>6, <2>7, <2>8
<1>13. CASE Enqueue(r) \/ RequestFails(r)
  BY <1>9, <1>13 DEF Enqueue, RequestFails
<1> QED
  BY <1>4, <1>5, <1>6, <1>7, <1>8, <1>10, <1>11, <1>12, <1>13 DEF Serve

\* What the worker may plan for the two profiles it has compared.
Merge(j, m, todo) == [pc |-> "adopt", id |-> j.id, master |-> m, todo |-> todo]

LEMMA PlanCases ==
  ASSUME NEW j, NEW kids
  PROVE  \/ Plan(j, kids) = NoJob /\ j.user # j.oldUser
         \/ /\ Plan(j, kids) = Merge(j, j.old, << {j.id} >>)
            /\ j.user \in {NoUser, j.oldUser}
         \/ /\ Plan(j, kids) = Merge(j, j.id, << kids, {j.old} >>)
            /\ j.oldUser = NoUser /\ j.user # NoUser
         \/ /\ Plan(j, kids) = Merge(j, j.id, << {j.old} >>)
            /\ j.oldUser = NoUser /\ j.user # NoUser
         \/ /\ Plan(j, kids) = [pc |-> "insert", id |-> j.id, old |-> j.old]
            /\ j.oldUser = NoUser /\ j.user = NoUser
<1>1. CASE j.oldUser # NoUser /\ j.user \notin {NoUser, j.oldUser}
  BY <1>1 DEF Plan, Merge
<1>2. CASE \/ j.oldUser # NoUser /\ j.user \in {NoUser, j.oldUser}
           \/ j.oldUser = NoUser /\ j.user = NoUser /\ kids # {}
  BY <1>2 DEF Plan, Merge
<1>3. CASE j.oldUser = NoUser /\ j.user # NoUser
  <2>1. Plan(j, kids) = Merge(j, j.id, IF kids = {} THEN << {j.old} >> ELSE << kids, {j.old} >>)
    BY <1>3 DEF Plan, Merge
  <2> QED
    BY <1>3, <2>1
<1>4. CASE j.oldUser = NoUser /\ j.user = NoUser /\ kids = {}
  BY <1>4 DEF Plan, Merge
<1> QED
  BY <1>1, <1>2, <1>3, <1>4

LEMMA PlanSound ==
  ASSUME NEW j \in Jobs, j.pc = "refs", NEW kids \in SUBSET Ids
  PROVE  SoundJob(Plan(j, kids))
<1>1. j.id \in Ids /\ j.old \in Ids
  BY JobFields
<1>2. ASSUME NEW m \in Ids, NEW todo \in Seq(SUBSET Ids), todo # <<>>
      PROVE  SoundJob(Merge(j, m, todo))
  BY <1>1, <1>2 DEF SoundJob, Jobs, Merge
<1>3. SoundJob(Merge(j, j.old, << {j.id} >>)) /\ SoundJob(Merge(j, j.id, << {j.old} >>))
  BY <1>1, <1>2, OneIsSound
<1>4. SoundJob(Merge(j, j.id, << kids, {j.old} >>))
  BY <1>1, <1>2, TwoIsSound
<1>5. SoundJob([pc |-> "insert", id |-> j.id, old |-> j.old])
  BY <1>1 DEF SoundJob, Jobs
<1>6. SoundJob(NoJob)
  BY DEF SoundJob, Jobs, NoJob
<1> QED
  BY <1>3, <1>4, <1>5, <1>6, PlanCases

\* The steps of a worker that runs on.
Work(k) ==
  \/ Fetch(k) \/ Match(k) \/ NoMatch(k) \/ Decide(k) \/ InsertMaster(k) \/ Adopt(k)
  \/ FetchMaster(k) \/ SaveMaster(k) \/ SaveReference(k) \/ Fail(k)

LEMMA WorkSound ==
  ASSUME BaseInv, NEW k \in Consumers, Work(k)
  PROVE  \E j : SoundJob(j) /\ job' = [job EXCEPT ![k] = j]
<1>0. SoundJob(job[k]) /\ job[k] \in Jobs /\ TypeOK /\ job = [job EXCEPT ![k] = job[k]]
  BY Sound DEF SoundJob, BaseInv, TypeOK
<1>1. SoundJob(NoJob)
  BY DEF SoundJob, Jobs, NoJob
<1>2. CASE Fetch(k)
  <2> DEFINE p == Head(queue[k])
  <2>1. p \in Ids
    BY <1>0, <1>2, TakenOff DEF TypeOK, Fetch
  <2>2. SoundJob([pc |-> "list", id |-> p, user |-> user[p], ref |-> ref[p]])
    BY <1>0, <2>1 DEF SoundJob, Jobs, TypeOK
  <2>3. job' = IF p \in rows
               THEN [job EXCEPT ![k] = [pc |-> "list", id |-> p, user |-> user[p], ref |-> ref[p]]]
               ELSE job
    BY <1>2 DEF Fetch
  <2> HIDE DEF p
  <2> QED
    BY <1>0, <2>2, <2>3
<1>3. CASE Match(k)
  <2>1. PICK q \in SameUser(job[k]) \cup Candidates(job[k]) :
          job' = [job EXCEPT ![k] = [pc |-> "refs", id |-> job[k].id, user |-> job[k].user,
                                     old |-> q, oldUser |-> user[q]]]
    BY <1>3 DEF Match
  <2>2. q \in Ids /\ user[q] \in OptUser
    BY <1>0, <2>1 DEF SameUser, Candidates, TypeOK
  <2>3. job[k].id \in Ids /\ job[k].user \in OptUser
    BY <1>0, <1>3, JobFields DEF Match
  <2>4. SoundJob([pc |-> "refs", id |-> job[k].id, user |-> job[k].user, old |-> q,
                  oldUser |-> user[q]])
    BY <2>2, <2>3 DEF SoundJob, Jobs
  <2> QED
    BY <2>1, <2>4
<1>4. CASE NoMatch(k)
  BY <1>1, <1>4 DEF NoMatch
<1>5. CASE Decide(k)
  <2>1. PICK kids \in ChildrenOrNone(job[k].old) : job' = [job EXCEPT ![k] = Plan(job[k], kids)]
    BY <1>5 DEF Decide
  <2>2. kids \in SUBSET Ids
    BY ChildrenAreIds
  <2>3. SoundJob(Plan(job[k], kids))
    BY <1>0, <1>5, <2>2, PlanSound DEF Decide
  <2> QED
    BY <2>1, <2>3
<1>6. CASE InsertMaster(k)
  <2>1. job[k].id \in Ids /\ job[k].old \in Ids
    BY <1>0, <1>6, JobFields DEF InsertMaster
  <2>2. PICK m \in Masters :
          job' = [job EXCEPT ![k] = [pc |-> "adopt", id |-> job[k].id, master |-> m,
                                     todo |-> << {job[k].id, job[k].old} >>]]
    BY <1>6 DEF InsertMaster
  <2>3. << {job[k].id, job[k].old} >> \in Seq(SUBSET Ids) /\ << {job[k].id, job[k].old} >> # <<>>
    BY <2>1
  <2>4. SoundJob([pc |-> "adopt", id |-> job[k].id, master |-> m,
                  todo |-> << {job[k].id, job[k].old} >>])
    BY <2>1, <2>3 DEF SoundJob, Jobs, Ids
  <2> QED
    BY <2>2, <2>4
<1>7. CASE Adopt(k)
  <2> DEFINE j == job[k]
  <2>1. /\ j.id \in Ids /\ j.master \in Ids /\ j.todo \in Seq(SUBSET Ids) /\ j.todo # <<>>
        /\ j = [pc |-> "adopt", id |-> j.id, master |-> j.master, todo |-> j.todo]
    BY <1>0, <1>7, JobFields DEF Adopt, SoundJob
  <2>2. CASE Tail(j.todo) # <<>>
    <3>1. job' = [job EXCEPT ![k] = [j EXCEPT !.todo = Tail(j.todo)]]
      BY <1>0, <1>7, <2>2 DEF Adopt, TypeOK
    <3>2. [j EXCEPT !.todo = Tail(j.todo)]
            = [pc |-> "adopt", id |-> j.id, master |-> j.master, todo |-> Tail(j.todo)]
      <4> HIDE DEF j
      <4>1. \A rest : [[pc |-> "adopt", id |-> j.id, master |-> j.master, todo |-> j.todo]
                         EXCEPT !.todo = rest]
                      = [pc |-> "adopt", id |-> j.id, master |-> j.master, todo |-> rest]
        OBVIOUS
      <4> QED
        BY <2>1, <4>1, Zenon
    <3>3. Tail(j.todo) \in Seq(SUBSET Ids)
      BY <2>1, TakenOff
    <3>4. SoundJob([pc |-> "adopt", id |-> j.id, master |-> j.master, todo |-> Tail(j.todo)])
      BY <2>1, <2>2, <3>3 DEF SoundJob, Jobs
    <3> QED
      BY <3>1, <3>2, <3>4
  <2>3. CASE Tail(j.todo) = <<>>
    <3>1. PICK n \in 0..2 :
            job' = [job EXCEPT ![k] =
                      IF n = 0 THEN NoJob
                      ELSE [pc |-> "fetch", id |-> j.id, master |-> j.master, left |-> n]]
      BY <1>7, <2>3 DEF Adopt
    <3>2. n # 0 => SoundJob([pc |-> "fetch", id |-> j.id, master |-> j.master, left |-> n])
      BY <2>1 DEF SoundJob, Jobs
    <3> QED
      BY <1>1, <3>1, <3>2
  <2> QED
    BY <2>2, <2>3
<1>8. CASE FetchMaster(k)
  <2> DEFINE m == job[k].master
  <2>1. job[k].id \in Ids /\ m \in Ids /\ job[k].left \in 1..2
    BY <1>0, <1>8, JobFields DEF FetchMaster
  <2>2. Read(m) \in Snapshot /\ Whole(Read(m)) /\ user[m] \in OptUser
    BY <1>0, <1>8, <2>1, ReadWhole DEF FetchMaster, Readable, TypeOK
  <2>3. SoundJob([pc |-> "save", id |-> job[k].id, master |-> m, left |-> job[k].left,
                  user |-> user[m], row |-> Read(m)])
    BY <2>1, <2>2 DEF SoundJob, Jobs
  <2> QED
    BY <1>8, <2>3 DEF FetchMaster
<1>9. CASE SaveMaster(k)
  <2>1. /\ job[k].id \in Ids /\ job[k].master \in Ids /\ job[k].left \in 1..2
        /\ job[k].row \in Snapshot /\ Whole(job[k].row)
    BY <1>0, <1>9, JobFields DEF SaveMaster, SoundJob
  <2>2. SoundJob([pc |-> "saveRef", id |-> job[k].id, master |-> job[k].master,
                  left |-> job[k].left, row |-> job[k].row])
    BY <2>1 DEF SoundJob, Jobs
  <2> QED
    BY <1>9, <2>2 DEF SaveMaster
<1>10. CASE SaveReference(k)
  <2>1. job[k].id \in Ids /\ job[k].master \in Ids
    BY <1>0, <1>10, JobFields DEF SaveReference
  <2>2. SoundJob([pc |-> "fetch", id |-> job[k].id, master |-> job[k].master, left |-> 1])
    BY <2>1 DEF SoundJob, Jobs
  <2> QED
    BY <1>1, <1>10, <2>2 DEF SaveReference
<1>11. CASE Fail(k)
  BY <1>1, <1>11 DEF Fail
<1> QED
  BY <1>2, <1>3, <1>4, <1>5, <1>6, <1>7, <1>8, <1>9, <1>10, <1>11 DEF Work

\* What a step may make of everything but the requests and the jobs.
TablesInv ==
  /\ rows \subseteq Ids /\ lost \subseteq Ids
  /\ status \in [Ids -> {"unused", "none", "REFERENCE", "MERGED"}]
  /\ ref \in [Ids -> OptProfile]
  /\ user \in [Ids -> OptUser]
  /\ queue \in [Consumers -> Seq(Ids)]
  /\ \A p \in Ids :
       status[p] = "unused" => p \notin rows /\ user[p] = NoUser /\ ref[p] = NoProfile
  /\ \A p \in Ids : HasReference(p) => Whole(Read(p))

LEMMA BaseTables ==
  ASSUME BaseInv
  PROVE  TablesInv
BY DEF BaseInv, TypeOK, RowInv, TablesInv

LEMMA RequestTables ==
  ASSUME BaseInv, NEW r \in Requests, Arrive(r) \/ Serve(r)
  PROVE  TablesInv'
<1>0. /\ SoundHandler(req[r]) /\ req[r] \in Handlers /\ TypeOK /\ TablesInv
      /\ Profiles \subseteq Ids /\ Users \subseteq OptUser /\ NoUser \in OptUser
  BY Sound, BaseTables DEF SoundHandler, BaseInv, Ids, OptUser
<1>1. ASSUME NEW p \in Profiles, NEW u \in OptUser, Create(r, p, u)
      PROVE  TablesInv'
  <2>1. /\ p \in Ids /\ status' = [status EXCEPT ![p] = "REFERENCE"]
        /\ user' = [user EXCEPT ![p] = u] /\ rows' = rows \cup {p}
        /\ UNCHANGED <<ref, queue, lost>> /\ status[p] = "unused"
    BY <1>0, <1>1 DEF Create
  <2>2. ref[p] = NoProfile
    BY <1>0, <2>1 DEF TablesInv
  <2> QED
    BY <1>0, <2>1, <2>2 DEF TablesInv, HasReference, Whole, Read
<1>2. CASE UNCHANGED <<tables, queue, lost>>
  BY <1>0, <1>2 DEF tables, TablesInv, HasReference, Whole, Read
<1>3. ASSUME NEW p \in Ids, NEW u \in OptUser, Updates(r, p, u)
      PROVE  UNCHANGED <<tables, queue, lost>>
  BY <1>3 DEF Updates
<1>4. CASE ReadProfile(r) \/ ReadMaster(r) \/ ReadFamily(r)
  BY <1>2, <1>4 DEF ReadProfile, ReadMaster, ReadFamily
<1>5. CASE WriteProfile(r)
  <2> DEFINE p == req[r].id
  <2>1. /\ p \in Ids /\ req[r].user \in OptUser
        /\ user' = [user EXCEPT ![p] = IF p \in rows THEN req[r].user ELSE user[p]]
        /\ UNCHANGED <<rows, status, ref, queue, lost>>
    BY <1>0, <1>5, HandlerFields DEF WriteProfile, TablesInv
  <2> HIDE DEF p
  <2> QED
    BY <1>0, <2>1 DEF TablesInv, HasReference, Whole, Read
<1>6. CASE WriteReference(r)
  <2> DEFINE p == req[r].id  row == req[r].row
  <2>1. p \in Ids /\ row \in Snapshot /\ Whole(row)
    BY <1>0, <1>6, HandlerFields DEF WriteReference, SoundHandler
  <2>2. CASE ~HasReference(p)
    BY <1>2, <1>6, <2>2 DEF WriteReference, tables
  <2>3. CASE HasReference(p)
    <3>1. /\ status' = [status EXCEPT ![p] = row.status] /\ ref' = [ref EXCEPT ![p] = row.ref]
          /\ UNCHANGED <<rows, user, queue, lost>>
      BY <1>6, <2>3 DEF WriteReference
    <3>2. row.status \in {"REFERENCE", "MERGED"} /\ row.ref \in OptProfile
      BY <2>1 DEF Snapshot
    <3> HIDE DEF p, row
    <3> QED
      BY <1>0, <2>1, <3>1, <3>2 DEF TablesInv, HasReference, Whole, Read
  <2> QED
    BY <2>2, <2>3
<1>7. CASE Detach(r)
  <2> DEFINE p == req[r].id
  <2>1. /\ p \in Ids /\ UNCHANGED <<rows, user, ref, queue, lost>>
        /\ status' = [status EXCEPT ![p] = IF p \in Children(req[r].master) THEN "none" ELSE status[p]]
    BY <1>0, <1>7, HandlerFields DEF Detach, TablesInv
  <2>2. p \in Children(req[r].master) => HasReference(p)
    BY DEF Children
  <2> HIDE DEF p
  <2> QED
    BY <1>0, <2>1, <2>2 DEF TablesInv, HasReference, Whole, Read
<1>8. CASE Remove(r)
  <2>1. Head(req[r].todo) \in SUBSET Ids
    BY <1>0, <1>8, HandlerFields, TakenOff DEF Remove, SoundHandler
  <2>2. PICK p \in Head(req[r].todo) : rows' = rows \ {p} /\ user' = [user EXCEPT ![p] = NoUser]
    BY <1>8 DEF Remove
  <2>3. UNCHANGED <<status, ref, queue, lost>> /\ p \in Ids
    BY <1>8, <2>1 DEF Remove
  <2> QED
    BY <1>0, <2>2, <2>3 DEF TablesInv, HasReference, Whole, Read
<1>9. CASE Enqueue(r)
  <2> DEFINE k == Server[r]
  <2>1. req[r].id \in Ids /\ k \in Consumers
    BY <1>0, <1>9, HandlerFields, ServerAssumption DEF Enqueue
  <2>2. queue' = [queue EXCEPT ![k] = Append(queue[k], req[r].id)] /\ UNCHANGED <<tables, lost>>
    BY <1>0, <1>9, <2>1 DEF Enqueue, TablesInv
  <2> HIDE DEF k
  <2>3. Append(queue[k], req[r].id) \in Seq(Ids)
    BY <1>0, <2>1 DEF TablesInv
  <2>4. queue' \in [Consumers -> Seq(Ids)]
    BY <1>0, <2>1, <2>2, <2>3 DEF TablesInv
  <2> QED
    BY <1>0, <2>2, <2>4 DEF TablesInv, HasReference, Whole, Read, tables
<1>10. CASE RequestFails(r)
  <2>1. req[r].id \in Ids /\ lost' \subseteq lost \cup {req[r].id} /\ UNCHANGED <<tables, queue>>
    BY <1>0, <1>10, HandlerFields DEF RequestFails
  <2> QED
    BY <1>0, <2>1 DEF TablesInv, HasReference, Whole, Read, tables
<1>11. CASE Arrive(r)
  <2>1. CASE \E p \in Profiles, u \in OptUser : Create(r, p, u)
    BY <1>1, <2>1
  <2>2. CASE \E p \in Ids, u \in OptUser : Updates(r, p, u)
    BY <1>2, <1>3, <2>2
  <2>3. CASE \E p \in Ids : Delete(r, p)
    BY <1>0, <1>2, <2>3 DEF Delete
  <2> QED
    BY <1>11, <2>1, <2>2, <2>3, Zenon DEF Arrive
<1> QED
  BY <1>4, <1>5, <1>6, <1>7, <1>8, <1>9, <1>10, <1>11 DEF Serve

LEMMA WorkTables ==
  ASSUME BaseInv, NEW k \in Consumers, Work(k)
  PROVE  TablesInv'
<1>0. SoundJob(job[k]) /\ job[k] \in Jobs /\ TypeOK /\ TablesInv
  BY Sound, BaseTables DEF SoundJob, BaseInv
<1>1. CASE UNCHANGED <<tables, queue, lost>>
  BY <1>0, <1>1 DEF tables, TablesInv, HasReference, Whole, Read
<1>2. CASE Fetch(k)
  <2>1. queue[k] \in Seq(Ids) /\ queue[k] # <<>>
    BY <1>0, <1>2 DEF Fetch, TablesInv
  <2>2. Tail(queue[k]) \in Seq(Ids)
    BY <2>1, TakenOff
  <2>3. queue' = [queue EXCEPT ![k] = Tail(queue[k])] /\ UNCHANGED <<tables, lost>>
    BY <1>2 DEF Fetch
  <2>4. queue' \in [Consumers -> Seq(Ids)]
    BY <1>0, <2>2, <2>3 DEF TablesInv
  <2> QED
    BY <1>0, <2>3, <2>4 DEF TablesInv, HasReference, Whole, Read, tables
<1>3. CASE Match(k) \/ NoMatch(k) \/ Decide(k) \/ FetchMaster(k)
  BY <1>1, <1>3 DEF Match, NoMatch, Decide, FetchMaster
<1>4. CASE InsertMaster(k)
  <2>1. PICK m \in Masters :
          /\ status[m] = "unused" /\ rows' = rows \cup {m}
          /\ status' = [status EXCEPT ![m] = "REFERENCE"]
    BY <1>4 DEF InsertMaster
  <2>2. UNCHANGED <<user, ref, queue, lost>> /\ m \in Ids
    BY <1>4 DEF InsertMaster, Ids
  <2>3. ref[m] = NoProfile
    BY <1>0, <2>1, <2>2 DEF TablesInv
  <2> QED
    BY <1>0, <2>1, <2>2, <2>3 DEF TablesInv, HasReference, Whole, Read
<1>5. CASE Adopt(k)
  <2> DEFINE m == job[k].master
  <2>1. m \in Ids /\ m # NoProfile
    BY <1>0, <1>5, JobFields, NoProfileIsNone DEF Adopt
  <2>2. PICK adopted : /\ \A c \in adopted : HasReference(c)
                       /\ status' = [c \in Ids |-> IF c \in adopted THEN "MERGED" ELSE status[c]]
                       /\ ref' = [c \in Ids |-> IF c \in adopted THEN m ELSE ref[c]]
    BY <1>5 DEF Adopt
  <2>3. UNCHANGED <<rows, user, queue, lost>>
    BY <1>5 DEF Adopt
  <2> HIDE DEF m
  <2>4. ref' \in [Ids -> OptProfile]
    BY <1>0, <2>1, <2>2 DEF TablesInv, OptProfile
  <2> QED
    BY <1>0, <2>1, <2>2, <2>3, <2>4 DEF TablesInv, HasReference, Whole, Read
<1>6. CASE SaveMaster(k)
  <2> DEFINE m == job[k].master
  <2>1. /\ m \in Ids /\ job[k].user \in OptUser
        /\ user' = [user EXCEPT ![m] = IF m \in rows THEN job[k].user ELSE user[m]]
        /\ UNCHANGED <<rows, status, ref, queue, lost>>
    BY <1>0, <1>6, JobFields DEF SaveMaster, TablesInv
  <2> HIDE DEF m
  <2> QED
    BY <1>0, <2>1 DEF TablesInv, HasReference, Whole, Read
<1>7. CASE SaveReference(k)
  <2> DEFINE m == job[k].master  row == job[k].row
  <2>1. m \in Ids /\ row \in Snapshot /\ Whole(row)
    BY <1>0, <1>7, JobFields DEF SaveReference, SoundJob
  <2>2. CASE ~HasReference(m)
    BY <1>1, <1>7, <2>2 DEF SaveReference, tables
  <2>3. CASE HasReference(m)
    <3>1. /\ status' = [status EXCEPT ![m] = row.status] /\ ref' = [ref EXCEPT ![m] = row.ref]
          /\ UNCHANGED <<rows, user, queue, lost>>
      BY <1>7, <2>3 DEF SaveReference
    <3>2. row.status \in {"REFERENCE", "MERGED"} /\ row.ref \in OptProfile
      BY <2>1 DEF Snapshot
    <3> HIDE DEF m, row
    <3> QED
      BY <1>0, <2>1, <3>1, <3>2 DEF TablesInv, HasReference, Whole, Read
  <2> QED
    BY <2>2, <2>3
<1>8. CASE Fail(k)
  <2>1. job[k].id \in Ids /\ lost' = lost \cup {job[k].id} /\ UNCHANGED <<tables, queue>>
    BY <1>0, <1>8, JobFields DEF Fail
  <2> QED
    BY <1>0, <2>1 DEF TablesInv, HasReference, Whole, Read, tables
<1> QED
  BY <1>2, <1>3, <1>4, <1>5, <1>6, <1>7, <1>8 DEF Work

\* A restart leaves the tables alone; what it cut short is known as lost.
LEMMA RestartTables ==
  ASSUME BaseInv, NEW k \in Consumers, Restart(k)
  PROVE  TablesInv'
<1>0. /\ TypeOK /\ TablesInv /\ job[k] \in Jobs /\ \A r \in Requests : req[r] \in Handlers
      /\ queue[k] \in Seq(Ids)
  BY BaseTables DEF BaseInv, TypeOK
<1> DEFINE cut == {r \in Requests : Server[r] = k /\ req[r].pc \notin {"new", "done"}}
<1>1. lost' = lost \cup Range(queue[k]) \cup {req[r].id : r \in cut}
                   \cup (IF job[k] = NoJob THEN {} ELSE {job[k].id})
  BY DEF Restart
<1>2. {req[r].id : r \in cut} \subseteq Ids
  BY <1>0, HandlerFields
<1>3. job[k] # NoJob => job[k].id \in Ids
  BY <1>0, JobFields
<1>4. Range(queue[k]) \subseteq Ids
  BY <1>0 DEF Range
<1> HIDE DEF cut
<1>5. lost' \subseteq Ids
  BY <1>0, <1>1, <1>2, <1>3, <1>4 DEF TablesInv
<1>6. queue' \in [Consumers -> Seq(Ids)]
  <2>1. queue' = [queue EXCEPT ![k] = <<>>] /\ <<>> \in Seq(Ids)
    BY EmptySeq DEF Restart
  <2> QED
    BY <1>0, <2>1 DEF TablesInv
<1>7. UNCHANGED tables
  BY DEF Restart
<1> QED
  BY <1>0, <1>5, <1>6, <1>7 DEF TablesInv, HasReference, Whole, Read, tables

\* A step is a step of one request, of one worker, or the restart of one instance.
LEMMA Steps ==
  ASSUME TypeOK, Next
  PROVE  \/ \E r \in Requests : Arrive(r) \/ Serve(r)
         \/ \E k \in Consumers : Work(k) \/ Restart(k)
BY HandleSteps DEF Next, Unify, Work

\* What a step leaves of the others.
LEMMA RequestFrame ==
  ASSUME NEW r \in Requests, Arrive(r) \/ Serve(r)
  PROVE  UNCHANGED job
<1>1. Arrive(r) => UNCHANGED job
  BY DEF Arrive, Create, Updates, Delete
<1>2. Serve(r) => UNCHANGED job
  BY DEF Serve, ReadProfile, ReadMaster, WriteProfile, WriteReference, ReadFamily, Detach,
         Remove, Enqueue, RequestFails
<1> QED
  BY <1>1, <1>2

LEMMA WorkFrame ==
  ASSUME NEW k \in Consumers, Work(k)
  PROVE  UNCHANGED req
BY DEF Work, Fetch, Match, NoMatch, Decide, InsertMaster, Adopt, FetchMaster, SaveMaster,
       SaveReference, Fail

LEMMA RestartFrame ==
  ASSUME TypeOK, NEW k \in Consumers, Restart(k)
  PROVE  /\ \A r \in Requests : req'[r] \in {req[r], Finished}
         /\ \A l \in Consumers : job'[l] \in {job[l], NoJob} /\ queue'[l] \in {queue[l], <<>>}
         /\ job'[k] = NoJob /\ queue'[k] = <<>>
         /\ req' \in [Requests -> Handlers] /\ job' \in [Consumers -> Jobs]
<1>1. /\ job' = [job EXCEPT ![k] = NoJob] /\ queue' = [queue EXCEPT ![k] = <<>>]
      /\ req' = [r \in Requests |->
                   IF r \in {q \in Requests : Server[q] = k /\ req[q].pc \notin {"new", "done"}}
                   THEN Finished ELSE req[r]]
  BY DEF Restart
<1>2. NoJob \in Jobs /\ Finished \in Handlers
  BY DEF Jobs, Handlers
<1> QED
  BY <1>1, <1>2 DEF TypeOK

LEMMA NextBase ==
  ASSUME BaseInv, [Next]_vars
  PROVE  BaseInv'
<1>0. TypeOK
  BY DEF BaseInv
<1>1. ASSUME TablesInv', req' \in [Requests -> Handlers], job' \in [Consumers -> Jobs],
             \A r \in Requests : SoundHandler(req[r])', \A k \in Consumers : SoundJob(job[k])'
      PROVE  BaseInv'
  BY <1>1 DEF BaseInv, TypeOK, TodoInv, RowInv, TablesInv, SoundHandler, SoundJob
<1>2. ASSUME NEW r \in Requests, Arrive(r) \/ Serve(r) PROVE BaseInv'
  <2>1. PICK h : SoundHandler(h) /\ req' = [req EXCEPT ![r] = h]
    BY <1>2, RequestSound
  <2>2. req' \in [Requests -> Handlers] /\ \A q \in Requests : req'[q] = h \/ req'[q] = req[q]
    BY <1>0, <2>1 DEF TypeOK, SoundHandler
  <2>3. \A q \in Requests : SoundHandler(req'[q])
    BY <2>1, <2>2, Sound
  <2>4. job' = job /\ \A k \in Consumers : SoundJob(job'[k])
    BY <1>2, RequestFrame, Sound
  <2> QED
    BY <1>0, <1>1, <1>2, <2>2, <2>3, <2>4, RequestTables DEF TypeOK, SoundHandler, SoundJob, Whole
<1>3. ASSUME NEW k \in Consumers, Work(k) PROVE BaseInv'
  <2>1. PICK j : SoundJob(j) /\ job' = [job EXCEPT ![k] = j]
    BY <1>3, WorkSound
  <2>2. job' \in [Consumers -> Jobs] /\ \A l \in Consumers : job'[l] = j \/ job'[l] = job[l]
    BY <1>0, <2>1 DEF TypeOK, SoundJob
  <2>3. \A l \in Consumers : SoundJob(job'[l])
    BY <2>1, <2>2, Sound
  <2>4. req' = req /\ \A r \in Requests : SoundHandler(req'[r])
    BY <1>3, WorkFrame, Sound
  <2> QED
    BY <1>0, <1>1, <1>3, <2>2, <2>3, <2>4, WorkTables DEF TypeOK, SoundHandler, SoundJob, Whole
<1>4. ASSUME NEW k \in Consumers, Restart(k) PROVE BaseInv'
  <2>1. SoundHandler(Finished) /\ SoundJob(NoJob)
    BY DEF SoundHandler, Handlers, Finished, SoundJob, Jobs, NoJob
  <2>2. /\ \A r \in Requests : SoundHandler(req'[r])
        /\ \A l \in Consumers : SoundJob(job'[l])
        /\ req' \in [Requests -> Handlers] /\ job' \in [Consumers -> Jobs]
    BY <1>0, <1>4, <2>1, RestartFrame, Sound
  <2> QED
    BY <1>1, <1>4, <2>2, RestartTables DEF SoundHandler, SoundJob, Whole
<1>5. CASE UNCHANGED vars
  BY <1>5 DEF vars, tables, BaseInv, TypeOK, TodoInv, RowInv, HasReference, Whole, Read
<1> QED
  BY <1>0, <1>2, <1>3, <1>4, <1>5, Steps

THEOREM Base == Spec => []BaseInv
<1>1. Init => BaseInv
  BY InitBase
<1>2. BaseInv /\ [Next]_vars => BaseInv'
  BY NextBase
<1> QED
  BY <1>1, <1>2, PTL DEF Spec

\* Every variable keeps its type: whatever overlaps, fails or restarts, what a handler or a
\* job carries from one statement to the next is an id, a user or a row that it has read.
THEOREM TypeCorrect == Spec => []TypeOK
<1>1. BaseInv => TypeOK
  BY DEF BaseInv
<1> QED
  BY <1>1, Base, PTL

-----------------------------------------------------------------------------
(***************************************************************************)
(* One instance: SameUserMerged.                                           *)
(***************************************************************************)

\* A profile is pending until the worker takes its job.
LEMMA RequestPending ==
  ASSUME BaseInv, NEW r \in Requests, Arrive(r) \/ Serve(r), NEW p \in Ids, Pending(p)
  PROVE  Pending(p)'
<1>0. TypeOK /\ \A k \in Consumers : queue[k] \in Seq(Ids)
  BY DEF BaseInv, TypeOK
<1>1. PICK h : req' = [req EXCEPT ![r] = h]
  BY RequestSound
<1>2. \A q \in Requests \ {r} : req'[q] = req[q]
  BY <1>0, <1>1 DEF TypeOK
<1>3. CASE Arrive(r)
  <2>1. req[r].pc = "new" /\ UNCHANGED <<queue, lost>>
    BY <1>3 DEF Arrive, Create, Updates, Delete, Arrives
  <2> QED
    BY <1>2, <2>1 DEF Pending
<1>4. CASE ReadProfile(r) \/ ReadMaster(r) \/ WriteProfile(r) \/ ReadFamily(r) \/ Detach(r)
             \/ Remove(r)
  <2>1. req[r].pc \notin {"writeRef", "enqueue"} /\ UNCHANGED <<queue, lost>>
    BY <1>4 DEF ReadProfile, ReadMaster, WriteProfile, ReadFamily, Detach, Remove
  <2> QED
    BY <1>2, <2>1 DEF Pending
<1>5. CASE WriteReference(r)
  <2>1. req'[r].pc = "enqueue" /\ req'[r].id = req[r].id /\ UNCHANGED <<queue, lost>>
    BY <1>0, <1>5 DEF WriteReference, TypeOK
  <2> QED
    BY <1>2, <2>1 DEF Pending
<1>6. CASE Enqueue(r)
  <2> DEFINE l == Server[r]
  <2>1. l \in Consumers /\ lost' = lost /\ req[r].id \in Ids
    BY <1>0, <1>6, ServerAssumption, HandlerFields DEF Enqueue, TypeOK
  <2>2. queue' = [queue EXCEPT ![l] = Append(queue[l], req[r].id)]
    BY <1>0, <1>6, <2>1 DEF Enqueue, TypeOK
  <2> HIDE DEF l
  <2>3. Append(queue[l], req[r].id) = queue'[l] /\ \A k \in Consumers \ {l} : queue'[k] = queue[k]
    BY <1>0, <2>1, <2>2 DEF TypeOK
  <2>4. req[r].id \in Range(queue'[l]) /\ Range(queue[l]) \subseteq Range(queue'[l])
    <3>1. /\ Len(queue'[l]) = Len(queue[l]) + 1 /\ DOMAIN queue'[l] = 1..Len(queue'[l])
          /\ queue'[l][Len(queue[l]) + 1] = req[r].id
          /\ \A i \in 1..Len(queue[l]) : queue'[l][i] = queue[l][i]
          /\ DOMAIN queue[l] = 1..Len(queue[l]) /\ Len(queue[l]) \in Nat
      BY <1>0, <2>1, <2>3, AppendProperties
    <3> QED
      BY <3>1 DEF Range
  <2> QED
    BY <1>2, <2>1, <2>3, <2>4 DEF Pending
<1>7. CASE RequestFails(r)
  <2>1. UNCHANGED queue /\ lost \subseteq lost'
    BY <1>7 DEF RequestFails
  <2>2. req[r].pc \in {"writeRef", "enqueue"} => req[r].id \in lost'
    BY <1>7 DEF RequestFails
  <2> QED
    BY <1>2, <2>1, <2>2 DEF Pending
<1> QED
  BY <1>3, <1>4, <1>5, <1>6, <1>7 DEF Serve

LEMMA WorkPending ==
  ASSUME NEW k \in Consumers, Work(k), ~Fetch(k), NEW p, Pending(p)
  PROVE  Pending(p)'
<1>1. UNCHANGED <<req, queue>> /\ lost \subseteq lost'
  BY DEF Work, Match, NoMatch, Decide, InsertMaster, Adopt, FetchMaster, SaveMaster,
         SaveReference, Fail
<1> QED
  BY <1>1 DEF Pending

LEMMA RestartPending ==
  ASSUME BaseInv, NEW k \in Consumers, Restart(k), NEW p, Pending(p)
  PROVE  Pending(p)'
<1> DEFINE cut == {r \in Requests : Server[r] = k /\ req[r].pc \notin {"new", "done"}}
<1>1. /\ lost \subseteq lost' /\ Range(queue[k]) \subseteq lost'
      /\ \A r \in cut : req[r].id \in lost'
  BY DEF Restart
<1>2. \A r \in Requests : r \in cut \/ req'[r] = req[r]
  BY DEF Restart
<1>3. \A l \in Consumers : l = k \/ queue'[l] = queue[l]
  BY DEF Restart, BaseInv, TypeOK
<1> HIDE DEF cut
<1> QED
  BY <1>1, <1>2, <1>3 DEF Pending

\* A request changes a user id or a status only of a profile that it enqueues afterwards, or
\* that is gone.
LEMMA RequestWrites ==
  ASSUME BaseInv, NEW r \in Requests, Arrive(r) \/ Serve(r), NEW p \in Ids
  PROVE  \/ Pending(p)'
         \/ /\ p \in rows' => p \in rows /\ user'[p] = user[p]
            /\ HasReference(p)' => HasReference(p) /\ status'[p] = status[p]
<1>0. TypeOK /\ req[r] \in Handlers
  BY DEF BaseInv, TypeOK
<1>1. CASE UNCHANGED tables
  BY <1>1 DEF tables, HasReference
<1>2. ASSUME NEW x \in Profiles, NEW u \in OptUser, Create(r, x, u)
      PROVE  \/ Pending(p)'
             \/ /\ p \in rows' => p \in rows /\ user'[p] = user[p]
                /\ HasReference(p)' => HasReference(p) /\ status'[p] = status[p]
  <2>1. req'[r].pc = "enqueue" /\ req'[r].id = x
    BY <1>0, <1>2 DEF Create, TypeOK
  <2>2. CASE p = x
    BY <2>1, <2>2 DEF Pending
  <2>3. CASE p # x
    BY <1>0, <1>2, <2>3 DEF Create, TypeOK, HasReference
  <2> QED
    BY <2>2, <2>3
<1>3. CASE Arrive(r)
  <2>1. CASE \E x \in Profiles, u \in OptUser : Create(r, x, u)
    BY <1>2, <2>1
  <2>2. CASE \E x \in Ids, u \in OptUser : Updates(r, x, u)
    BY <1>1, <2>2 DEF Updates
  <2>3. CASE \E x \in Ids : Delete(r, x)
    BY <1>1, <2>3 DEF Delete
  <2> QED
    BY <1>3, <2>1, <2>2, <2>3, Zenon DEF Arrive
<1>4. CASE ReadProfile(r) \/ ReadMaster(r) \/ ReadFamily(r) \/ Enqueue(r) \/ RequestFails(r)
  BY <1>1, <1>4 DEF ReadProfile, ReadMaster, ReadFamily, Enqueue, RequestFails
<1>5. CASE WriteProfile(r)
  <2>1. /\ req'[r].pc = "writeRef" /\ req'[r].id = req[r].id /\ UNCHANGED <<rows, status>>
        /\ \A x \in Ids \ {req[r].id} : user'[x] = user[x]
    BY <1>0, <1>5 DEF WriteProfile, TypeOK
  <2> QED
    BY <2>1 DEF Pending, HasReference
<1>6. CASE WriteReference(r)
  <2>1. /\ req'[r].pc = "enqueue" /\ req'[r].id = req[r].id /\ UNCHANGED <<rows, user>>
        /\ \A x \in Ids \ {req[r].id} : status'[x] = status[x]
    BY <1>0, <1>6 DEF WriteReference, TypeOK
  <2> QED
    BY <2>1 DEF Pending, HasReference
<1>7. CASE Detach(r)
  <2>1. UNCHANGED <<rows, user>> /\ status'[p] \in {status[p], "none"}
    BY <1>0, <1>7 DEF Detach, TypeOK
  <2> QED
    BY <2>1 DEF HasReference
<1>8. CASE Remove(r)
  <2>1. UNCHANGED status
    BY <1>8 DEF Remove
  <2>2. PICK x : rows' = rows \ {x} /\ user' = [user EXCEPT ![x] = NoUser]
    BY <1>8 DEF Remove
  <2>3. p # x => user'[p] = user[p]
    BY <1>0, <2>2 DEF TypeOK
  <2> QED
    BY <2>1, <2>2, <2>3 DEF HasReference
<1> QED
  BY <1>3, <1>4, <1>5, <1>6, <1>7, <1>8 DEF Serve

LEMMA InitInstance == Init => InstanceInv
<1> SUFFICES ASSUME Init PROVE InstanceInv
  OBVIOUS
<1>1. BaseInv
  BY InitBase
<1>2. TwinsInv
  BY <1>1 DEF Init, TwinsInv, Twins, BaseInv, TypeOK
<1>3. SavedInv
  BY DEF Init, SavedInv, NoJob
<1> QED
  BY <1>1, <1>2, <1>3 DEF InstanceInv

LEMMA RequestInstance ==
  ASSUME InstanceInv, NEW r \in Requests, Arrive(r) \/ Serve(r), BaseInv'
  PROVE  TwinsInv' /\ SavedInv'
<1>0. /\ BaseInv /\ TwinsInv /\ SavedInv /\ job' = job
      /\ rows \subseteq Ids /\ rows' \subseteq Ids /\ \A k \in Consumers : job[k] \in Jobs
  BY RequestFrame DEF InstanceInv, BaseInv, TypeOK
<1>1. ASSUME NEW p \in rows'
      PROVE  \/ Tended(p)'
             \/ /\ p \in rows /\ user'[p] = user[p] /\ ~Tended(p)
                /\ status'[p] = "REFERENCE" => status[p] = "REFERENCE"
  <2>1. Pending(p) => Pending(p)'
    BY <1>0, RequestPending
  <2>2. CASE p \in rows /\ user'[p] = user[p] /\ AtHand(p)
    BY <1>0, <2>2 DEF Tended, AtHand
  <2> QED
    BY <1>0, <2>1, <2>2, RequestWrites DEF Tended, HasReference
<1>2. TwinsInv'
  <2> SUFFICES ASSUME NEW p \in rows', NEW q \in rows', Twins(p, q)', ~Tended(p)', ~Tended(q)'
               PROVE  FALSE
    BY DEF TwinsInv
  <2>1. p \in rows /\ q \in rows /\ Twins(p, q) /\ ~Tended(p) /\ ~Tended(q)
    BY <1>1 DEF Twins
  <2> QED
    BY <1>0, <2>1 DEF TwinsInv
<1>3. SavedInv'
  <2> SUFFICES ASSUME NEW k \in Consumers, job[k].pc \in {"save", "saveRef"},
                      ~Pending(job[k].master)'
               PROVE  /\ job[k].pc = "save" =>
                           (job[k].master \in rows' => user'[job[k].master] = job[k].user)
                      /\ HasReference(job[k].master)' =>
                           status'[job[k].master] = job[k].row.status
    BY <1>0 DEF SavedInv
  <2>1. job[k].master \in Ids
    BY <1>0, JobFields
  <2>2. ~Pending(job[k].master)
    BY <1>0, <2>1, RequestPending
  <2> QED
    BY <1>0, <2>1, <2>2, RequestWrites DEF SavedInv
<1> QED
  BY <1>2, <1>3

\* A job that looks for the twins of a profile that has one finds one.
LEMMA TwinIsFound ==
  ASSUME BaseInv, NEW k \in Consumers, job[k].pc = "list", NEW p \in rows, NEW q \in rows,
         Twins(p, q), job[k].id = p, job[k].user = user[p], job[k].ref = NoProfile
  PROVE  q \in SameUser(job[k])
<1>1. q # NoProfile
  BY NoProfileIsNone DEF BaseInv, TypeOK
<1> QED
  BY <1>1 DEF SameUser, Candidates, Twins

LEMMA WorkInstance ==
  ASSUME OneInstance, InstanceInv, NEW k \in Consumers, Work(k), BaseInv'
  PROVE  TwinsInv' /\ SavedInv'
<1>0. /\ BaseInv /\ TwinsInv /\ SavedInv /\ TypeOK /\ \A l \in Consumers : l = k
      /\ rows \subseteq Ids /\ rows' \subseteq Ids /\ job[k] \in Jobs /\ job'[k] \in Jobs
      /\ SoundJob(job[k])
  BY Sound DEF InstanceInv, BaseInv, TypeOK, OneInstance
<1>1. \A p : Pending(p) /\ ~Fetch(k) => Pending(p)'
  BY WorkPending
\* It is enough that profiles do not come to be twins, and that the tended ones stay tended.
<1>2. ASSUME \A p, q \in rows' : Twins(p, q)' =>
               \/ Tended(p)' \/ Tended(q)'
               \/ /\ p \in rows /\ q \in rows /\ Twins(p, q)
                  /\ Tended(p) => Tended(p)' \/ Tended(q)'
                  /\ Tended(q) => Tended(p)' \/ Tended(q)'
      PROVE  TwinsInv'
  BY <1>0, <1>2 DEF TwinsInv
<1>3. ASSUME job'[k].pc \notin {"save", "saveRef"}
      PROVE  SavedInv'
  BY <1>0, <1>3 DEF SavedInv
<1>4. ASSUME NEW p, AtHand(p)
      PROVE  /\ job[k].pc \in {"list", "refs", "adopt"} /\ job[k].id = p
             /\ job[k].pc = "list" => job[k].user = user[p] /\ job[k].ref = NoProfile
             /\ job[k].pc = "refs" => job[k].user = job[k].oldUser /\ job[k].user # NoUser
             /\ job[k].pc = "adopt" => \E i \in 1..Len(job[k].todo) : p \in job[k].todo[i]
  BY <1>0, <1>4 DEF AtHand
<1>5. CASE Fetch(k)
  <2> DEFINE x == Head(queue[k])
  <2>1. /\ UNCHANGED <<tables, req, lost>> /\ job[k].pc = "idle" /\ queue[k] # <<>>
        /\ queue' = [queue EXCEPT ![k] = Tail(queue[k])]
        /\ x \in rows => job' = [job EXCEPT ![k] = [pc |-> "list", id |-> x, user |-> user[x],
                                                    ref |-> ref[x]]]
        /\ x \notin rows => job' = job
    BY <1>5 DEF Fetch
  <2>2. job'[k].pc \in {"idle", "list"}
    BY <1>0, <2>1 DEF TypeOK
  <2>3. ASSUME NEW p \in rows, status[p] = "REFERENCE", Pending(p)
        PROVE  Tended(p)'
    <3>1. CASE p = x
      <4>1. ref[p] = NoProfile
        BY <1>0, <2>3 DEF BaseInv, RowInv, HasReference, Whole, Read
      <4>2. /\ job'[k].pc = "list" /\ job'[k].id = p /\ job'[k].user = user[p]
            /\ job'[k].ref = NoProfile
        BY <1>0, <2>1, <3>1, <4>1 DEF TypeOK
      <4> QED
        BY <2>1, <4>2 DEF Tended, AtHand, tables
    <3>2. CASE p # x /\ p \in Range(queue[k])
      <4>1. queue[k] \in Seq(Ids)
        BY <1>0 DEF TypeOK
      <4>2. PICK i \in 1..Len(queue[k]) : queue[k][i] = p
        BY <3>2, <4>1 DEF Range
      <4>3. /\ i - 1 \in 1..Len(Tail(queue[k])) /\ Tail(queue[k])[i - 1] = p
            /\ Tail(queue[k]) \in Seq(Ids)
        BY <2>1, <3>2, <4>1, <4>2, TakenOff
      <4>4. p \in Range(Tail(queue[k]))
        <5>1. DOMAIN Tail(queue[k]) = 1..Len(Tail(queue[k]))
          BY <4>3, LenProperties
        <5> QED
          BY <4>3, <5>1, Zenon DEF Range
      <4>5. queue'[k] = Tail(queue[k])
        BY <1>0, <2>1 DEF TypeOK
      <4> QED
        BY <4>4, <4>5 DEF Tended, Pending
    <3>3. CASE p \notin Range(queue[k])
      BY <1>0, <2>1, <2>3, <3>3 DEF Tended, Pending
    <3> QED
      BY <3>1, <3>2, <3>3
  <2>4. \A p : ~AtHand(p)
    BY <1>4, <2>1
  <2>5. TwinsInv'
    BY <1>2, <2>1, <2>3, <2>4 DEF Twins, Tended, tables
  <2> QED
    BY <1>3, <2>2, <2>5
<1>6. CASE Match(k)
  <2>1. PICK q \in IF SameUser(job[k]) # {} THEN SameUser(job[k]) ELSE Candidates(job[k]) :
          job' = [job EXCEPT ![k] = [pc |-> "refs", id |-> job[k].id, user |-> job[k].user,
                                     old |-> q, oldUser |-> user[q]]]
    BY <1>6 DEF Match
  <2>2. /\ UNCHANGED <<tables, queue, req, lost>> /\ job[k].pc = "list" /\ ~Fetch(k)
        /\ job'[k].pc = "refs" /\ job'[k].id = job[k].id /\ job'[k].user = job[k].user
        /\ job'[k].oldUser = user[q]
    BY <1>0, <1>6, <2>1 DEF Match, TypeOK, Fetch
  <2>3. ASSUME NEW p \in rows, NEW y \in rows, Twins(p, y), AtHand(p)
        PROVE  AtHand(p)'
    <3>1. job[k].id = p /\ job[k].user = user[p] /\ job[k].ref = NoProfile
      BY <1>4, <2>2, <2>3
    <3>2. q \in SameUser(job[k])
      BY <1>0, <2>1, <2>2, <2>3, <3>1, TwinIsFound
    <3>3. job[k].user # NoUser /\ user[q] = job[k].user
      BY <3>2 DEF SameUser
    <3> QED
      BY <2>2, <3>1, <3>3 DEF AtHand
  <2>4. \A p, y : Twins(p, y) => Twins(y, p)
    BY DEF Twins
  <2>5. TwinsInv'
    BY <1>1, <1>2, <2>2, <2>3, <2>4 DEF Twins, Tended, tables
  <2> QED
    BY <1>3, <2>2, <2>5
<1>7. CASE NoMatch(k)
  <2>1. /\ UNCHANGED <<tables, queue, req, lost>> /\ job[k].pc = "list" /\ ~Fetch(k)
        /\ job'[k] = NoJob /\ SameUser(job[k]) = {}
    BY <1>0, <1>7 DEF NoMatch, TypeOK, Fetch
  <2>2. ASSUME NEW p \in rows, NEW y \in rows, Twins(p, y)
        PROVE  ~AtHand(p)
    BY <1>0, <1>4, <2>1, <2>2, TwinIsFound
  <2>3. \A p, y : Twins(p, y) => Twins(y, p)
    BY DEF Twins
  <2>4. TwinsInv'
    BY <1>1, <1>2, <2>1, <2>2, <2>3 DEF Twins, Tended, tables
  <2> QED
    BY <1>3, <2>1, <2>4 DEF NoJob
<1>8. CASE Decide(k)
  <2>1. PICK kids : job' = [job EXCEPT ![k] = Plan(job[k], kids)]
    BY <1>8 DEF Decide
  <2>2. /\ UNCHANGED <<tables, queue, req, lost>> /\ job[k].pc = "refs" /\ ~Fetch(k)
        /\ job'[k] = Plan(job[k], kids)
    BY <1>0, <1>8, <2>1 DEF Decide, TypeOK, Fetch
  <2>3. ASSUME NEW p, AtHand(p)
        PROVE  AtHand(p)'
    <3>1. job[k].id = p /\ job[k].user = job[k].oldUser /\ job[k].user # NoUser
      BY <1>4, <2>2, <2>3
    <3>2. job'[k] = Merge(job[k], job[k].old, << {p} >>)
      BY <2>2, <3>1, PlanCases
    <3>3. /\ job'[k].pc = "adopt" /\ job'[k].id = p /\ job'[k].todo = << {p} >>
          /\ 1 \in 1..Len(<< {p} >>) /\ p \in << {p} >>[1]
      BY <3>1, <3>2 DEF Merge
    <3> QED
      BY <3>3 DEF AtHand
  <2>4. TwinsInv'
    BY <1>1, <1>2, <2>2, <2>3 DEF Twins, Tended, tables
  <2>5. job'[k].pc \in {"idle", "adopt", "insert"}
    BY <2>2, PlanCases DEF Merge, NoJob
  <2> QED
    BY <1>3, <2>4, <2>5
<1>9. CASE InsertMaster(k)
  <2>1. PICK m \in Masters :
          /\ status[m] = "unused" /\ rows' = rows \cup {m}
          /\ status' = [status EXCEPT ![m] = "REFERENCE"]
    BY <1>9 DEF InsertMaster
  <2>2. /\ UNCHANGED <<user, ref, queue, req, lost>> /\ job[k].pc = "insert" /\ ~Fetch(k)
        /\ job'[k].pc = "adopt" /\ m \in Ids
    BY <1>0, <1>9 DEF InsertMaster, TypeOK, Fetch, Ids
  <2>3. user[m] = NoUser
    BY <1>0, <2>1, <2>2 DEF BaseInv, RowInv
  <2>4. \A p \in Ids : p # m => status'[p] = status[p]
    BY <1>0, <2>1 DEF TypeOK
  <2>5. \A p, q \in rows' : Twins(p, q)' => p \in rows /\ q \in rows /\ Twins(p, q)
    BY <1>0, <2>1, <2>2, <2>3, <2>4 DEF Twins
  <2>6. \A p : ~AtHand(p)
    BY <1>4, <2>2
  <2>7. TwinsInv'
    BY <1>1, <1>2, <2>2, <2>5, <2>6 DEF Tended
  <2> QED
    BY <1>3, <2>2, <2>7
<1>10. CASE Adopt(k)
  <2> DEFINE j == job[k]
             adopted == {c \in Head(j.todo) : HasReference(c)}
  <2>1. /\ status' = [c \in Ids |-> IF c \in adopted THEN "MERGED" ELSE status[c]]
        /\ UNCHANGED <<rows, user, queue, req, lost>> /\ j.pc = "adopt" /\ ~Fetch(k)
    BY <1>10 DEF Adopt, Fetch
  <2>2. j.todo \in Seq(SUBSET Ids) /\ j.todo # <<>>
    BY <1>0, <2>1, JobFields DEF SoundJob
  <2>3. /\ Tail(j.todo) # <<>> => job' = [job EXCEPT ![k].todo = Tail(j.todo)]
        /\ Tail(j.todo) = <<>> => job'[k].pc \in {"idle", "fetch"}
    BY <1>0, <1>10 DEF Adopt, TypeOK, NoJob
  <2>4. \A p \in rows : status'[p] = "REFERENCE" =>
                          status[p] = "REFERENCE" /\ p \notin Head(j.todo)
    BY <1>0, <2>1 DEF HasReference
  <2>5. ASSUME NEW p \in rows, AtHand(p), p \notin Head(j.todo)
        PROVE  AtHand(p)'
    <3>1. PICK i \in 1..Len(j.todo) : p \in j.todo[i]
      BY <1>4, <2>1, <2>5
    <3>2. /\ i - 1 \in 1..Len(Tail(j.todo)) /\ p \in Tail(j.todo)[i - 1]
          /\ i # 1 /\ Len(j.todo) \in Nat
      BY <2>2, <2>5, <3>1, TakenOff
    <3>3. Tail(j.todo) # <<>>
      BY <2>2, <3>2, TakenOff
    <3>4. job'[k] = [job[k] EXCEPT !.todo = Tail(j.todo)]
      BY <1>0, <2>3, <3>3 DEF TypeOK
    <3>5. job[k] = [pc |-> "adopt", id |-> j.id, master |-> j.master, todo |-> j.todo]
      BY <1>0, <2>1, JobFields
    <3>6. job'[k].pc = "adopt" /\ job'[k].id = j.id /\ job'[k].todo = Tail(j.todo)
      BY <3>4, <3>5
    <3> QED
      BY <1>4, <2>5, <3>2, <3>6 DEF AtHand
  <2> HIDE DEF adopted
  <2>6. \A p, q \in rows' : Twins(p, q)' =>
          /\ p \in rows /\ q \in rows /\ Twins(p, q)
          /\ p \notin Head(j.todo) /\ q \notin Head(j.todo)
    BY <2>1, <2>4 DEF Twins
  <2>7. TwinsInv'
    BY <1>1, <1>2, <2>1, <2>5, <2>6 DEF Tended
  <2>8. job'[k].pc \notin {"save", "saveRef"}
    <3>1. CASE Tail(j.todo) # <<>>
      <4>1. job[k] = [pc |-> "adopt", id |-> j.id, master |-> j.master, todo |-> j.todo]
        BY <1>0, <2>1, JobFields
      <4> QED
        BY <1>0, <2>3, <3>1, <4>1 DEF TypeOK
    <3> QED
      BY <2>3, <3>1
  <2> QED
    BY <1>3, <2>7, <2>8
<1>11. CASE FetchMaster(k)
  <2> DEFINE m == job[k].master
  <2>1. /\ UNCHANGED <<tables, queue, req, lost>> /\ job[k].pc = "fetch" /\ ~Fetch(k)
        /\ job'[k].pc = "save" /\ job'[k].master = m /\ job'[k].user = user[m]
        /\ job'[k].row = Read(m)
    BY <1>0, <1>11 DEF FetchMaster, TypeOK, Fetch
  <2>2. \A p : ~AtHand(p)
    BY <1>4, <2>1
  <2>3. TwinsInv'
    BY <1>1, <1>2, <2>1, <2>2 DEF Twins, Tended, tables
  <2>4. SavedInv'
    BY <1>0, <2>1 DEF SavedInv, Read, HasReference, tables
  <2> QED
    BY <2>3, <2>4
<1>12. CASE SaveMaster(k)
  <2> DEFINE m == job[k].master
  <2>1. /\ UNCHANGED <<rows, status, ref, queue, req, lost>> /\ job[k].pc = "save" /\ ~Fetch(k)
        /\ user' = [user EXCEPT ![m] = IF m \in rows THEN job[k].user ELSE user[m]]
        /\ job'[k].pc = "saveRef" /\ job'[k].master = m /\ job'[k].row = job[k].row
    BY <1>0, <1>12 DEF SaveMaster, TypeOK, Fetch
  <2>2. \A p : ~AtHand(p)
    BY <1>4, <2>1
  <2>3. \A p \in rows : user'[p] = user[p] \/ Pending(p)'
    BY <1>0, <1>1, <2>1 DEF SavedInv, TypeOK
  <2>4. TwinsInv'
    BY <1>1, <1>2, <2>1, <2>2, <2>3 DEF Twins, Tended
  <2>5. SavedInv'
    BY <1>0, <1>1, <2>1 DEF SavedInv, HasReference
  <2> QED
    BY <2>4, <2>5
<1>13. CASE SaveReference(k)
  <2> DEFINE m == job[k].master
  <2>1. /\ UNCHANGED <<rows, user, queue, req, lost>> /\ job[k].pc = "saveRef" /\ ~Fetch(k)
        /\ job'[k].pc \in {"idle", "fetch"}
    BY <1>0, <1>13 DEF SaveReference, TypeOK, Fetch, NoJob
  <2>2. \A p : ~AtHand(p)
    BY <1>4, <2>1
  <2>3. \A p \in Ids : status'[p] = status[p] \/ Pending(p)'
    <3>1. CASE ~HasReference(m)
      BY <1>13, <3>1 DEF SaveReference
    <3>2. CASE HasReference(m)
      <4>1. status' = [status EXCEPT ![m] = job[k].row.status]
        BY <1>13, <3>2 DEF SaveReference
      <4>2. Pending(m) \/ status[m] = job[k].row.status
        BY <1>0, <2>1, <3>2 DEF SavedInv
      <4> QED
        BY <1>0, <1>1, <2>1, <4>1, <4>2 DEF TypeOK
    <3> QED
      BY <3>1, <3>2
  <2>4. TwinsInv'
    BY <1>0, <1>1, <1>2, <2>1, <2>2, <2>3 DEF Twins, Tended
  <2> QED
    BY <1>3, <2>1, <2>4
<1>14. CASE Fail(k)
  <2>1. /\ UNCHANGED <<tables, queue, req>> /\ lost' = lost \cup {job[k].id} /\ ~Fetch(k)
        /\ job'[k] = NoJob
    BY <1>0, <1>14 DEF Fail, TypeOK, Fetch
  <2>2. \A p : AtHand(p) => Pending(p)'
    BY <1>4, <2>1 DEF Pending
  <2>3. TwinsInv'
    BY <1>1, <1>2, <2>1, <2>2 DEF Twins, Tended, tables
  <2> QED
    BY <1>3, <2>1, <2>3 DEF NoJob
<1> QED
  BY <1>5, <1>6, <1>7, <1>8, <1>9, <1>10, <1>11, <1>12, <1>13, <1>14 DEF Work

LEMMA RestartInstance ==
  ASSUME OneInstance, InstanceInv, NEW k \in Consumers, Restart(k)
  PROVE  TwinsInv' /\ SavedInv'
<1>0. BaseInv /\ TwinsInv /\ TypeOK /\ (\A l \in Consumers : l = k) /\ UNCHANGED tables
  BY DEF InstanceInv, BaseInv, OneInstance, Restart
<1>1. \A p : Pending(p) => Pending(p)'
  BY <1>0, RestartPending
<1>2. \A p : AtHand(p) => Pending(p)'
  <2>1. job[k] # NoJob => job[k].id \in lost'
    BY DEF Restart
  <2>2. \A p : AtHand(p) => job[k].id = p /\ job[k] # NoJob
    BY <1>0 DEF AtHand, NoJob
  <2> QED
    BY <2>1, <2>2 DEF Pending
<1>3. TwinsInv'
  BY <1>0, <1>1, <1>2 DEF TwinsInv, Twins, Tended, tables
<1>4. \A l \in Consumers : job'[l].pc = "idle"
  BY <1>0, RestartFrame DEF NoJob
<1> QED
  BY <1>3, <1>4 DEF SavedInv

LEMMA NextInstance ==
  ASSUME OneInstance, InstanceInv, [Next]_vars
  PROVE  InstanceInv'
<1>1. BaseInv /\ BaseInv' /\ TypeOK
  BY NextBase DEF InstanceInv, BaseInv
<1>2. CASE UNCHANGED vars
  <2>1. TwinsInv'
    BY <1>2 DEF InstanceInv, vars, tables, TwinsInv, Twins, Tended, Pending, AtHand
  <2>2. SavedInv'
    BY <1>2 DEF InstanceInv, vars, tables, SavedInv, Pending, HasReference
  <2> QED
    BY <1>1, <2>1, <2>2 DEF InstanceInv
<1>3. CASE Next
  <2>1. TwinsInv' /\ SavedInv'
    BY <1>1, <1>3, Steps, RequestInstance, WorkInstance, RestartInstance
  <2> QED
    BY <1>1, <2>1 DEF InstanceInv
<1> QED
  BY <1>2, <1>3

\* profile_worker.go, step 3a, with one instance: when nothing is in flight, two master
\* profiles share a user id only if a job of one of them was lost.
THEOREM UserSafety ==
  ASSUME OneInstance
  PROVE  Spec => []SameUserMerged
<1>1. Init => InstanceInv
  BY InitInstance
<1>2. InstanceInv /\ [Next]_vars => InstanceInv'
  BY NextInstance
<1>3. InstanceInv => SameUserMerged
  <2> SUFFICES ASSUME InstanceInv, Settled,
                      NEW p \in rows, NEW q \in rows, Twins(p, q)
               PROVE  lost \cap {p, q} # {}
    BY DEF SameUserMerged, Twins
  <2>1. ASSUME NEW x, Tended(x)
        PROVE  x \in lost
    <3>1. /\ \A r \in Requests : req[r].pc \notin {"writeRef", "enqueue"}
          /\ \A k \in Consumers : job[k].pc = "idle" /\ Range(queue[k]) = {}
      BY DEF Settled, NoJob, Range
    <3> QED
      BY <2>1, <3>1 DEF Tended, Pending, AtHand
  <2> QED
    BY <2>1 DEF InstanceInv, TwinsInv
<1> QED
  BY <1>1, <1>2, <1>3, PTL DEF Spec

-----------------------------------------------------------------------------
(***************************************************************************)
(* One request at a time: PermanentBecomesMaster and NeverOwnMaster.       *)
(***************************************************************************)

\* While a request is served nothing else is at work, and it leaves no job behind; when one
\* arrives nothing at all is.
LEMMA RequestAlone ==
  ASSUME ~Overlap, BaseInv, SoloInv, NEW r \in Requests, Arrive(r) \/ Serve(r)
  PROVE  /\ Arrive(r) \/ Busy(r)
         /\ \A q \in Requests \ {r} : ~Busy(q) /\ req'[q] = req[q]
         /\ \A k \in Consumers : job[k] = NoJob /\ job'[k] = NoJob /\ queue[k] = <<>>
<1>1. PICK h : req' = [req EXCEPT ![r] = h]
  BY RequestSound
<1>2. \A q \in Requests \ {r} : req'[q] = req[q]
  BY <1>1 DEF BaseInv, TypeOK
<1>3. job' = job
  BY RequestFrame
<1>4. CASE Arrive(r)
  <2>1. Settled
    BY <1>4 DEF Arrive, Create, Updates, Delete, Arrives
  <2> QED
    BY <1>2, <1>3, <1>4, <2>1 DEF Settled, Busy
<1>5. CASE Serve(r)
  <2>1. Busy(r)
    BY <1>5 DEF Busy, Serve, ReadProfile, ReadMaster, WriteProfile, WriteReference, ReadFamily,
                Detach, Remove, Enqueue, RequestFails
  <2> QED
    BY <1>2, <1>3, <2>1 DEF SoloInv, Working
<1> QED
  BY <1>4, <1>5

\* While a job is done nothing else is at work.
LEMMA WorkAlone ==
  ASSUME BaseInv, SoloInv, NEW k \in Consumers, Work(k)
  PROVE  /\ Working(k) /\ req' = req /\ \A r \in Requests : ~Busy(r)
         /\ \A l \in Consumers \ {k} : ~Working(l) /\ job'[l] = NoJob /\ queue'[l] = <<>>
         /\ \A l \in Consumers : queue'[l] = <<>>
<1>1. CASE Fetch(k)
  <2>1. /\ queue[k] # <<>> /\ queue' = [queue EXCEPT ![k] = Tail(queue[k])]
        /\ \A l \in Consumers \ {k} : job'[l] = job[l]
    BY <1>1 DEF Fetch, BaseInv, TypeOK
  <2>2. Working(k) /\ queue'[k] = <<>> /\ \A l \in Consumers \ {k} : queue'[l] = queue[l]
    BY <2>1 DEF SoloInv, Working, BaseInv, TypeOK
  <2>3. \A l \in Consumers \ {k} : ~Working(l)
    BY <2>2 DEF SoloInv
  <2> QED
    BY <2>1, <2>2, <2>3, WorkFrame DEF SoloInv, Working
<1>2. CASE ~Fetch(k)
  <2>1. job[k].pc # "idle" /\ queue' = queue
    BY <1>2 DEF Work, Match, NoMatch, Decide, InsertMaster, Adopt, FetchMaster, SaveMaster,
                SaveReference, Fail
  <2>2. PICK j : job' = [job EXCEPT ![k] = j]
    BY WorkSound
  <2>3. \A l \in Consumers \ {k} : job'[l] = job[l]
    BY <2>2 DEF BaseInv, TypeOK
  <2>4. Working(k) /\ job[k] # NoJob
    BY <2>1 DEF Working, NoJob
  <2>5. \A l \in Consumers \ {k} : ~Working(l)
    BY <2>4 DEF SoloInv
  <2> QED
    BY <2>1, <2>3, <2>4, <2>5, WorkFrame DEF SoloInv, Working
<1> QED
  BY <1>1, <1>2

LEMMA TailOfOne ==
  ASSUME NEW S, NEW s \in Seq(S), Len(s) = 1
  PROVE  Tail(s) = <<>>
<1>1. s # <<>>
  BY EmptySeq
<1> QED
  BY <1>1, TakenOff

LEMMA SoloKept ==
  ASSUME ~Overlap, BaseInv, SoloInv, Next
  PROVE  SoloInv'
<1>0. TypeOK
  BY DEF BaseInv
<1>1. ASSUME NEW r \in Requests, Arrive(r) \/ Serve(r)
      PROVE  SoloInv'
  <2>1. /\ \A q \in Requests \ {r} : ~Busy(q)'
        /\ \A k \in Consumers : job'[k] = NoJob /\ queue[k] = <<>>
    BY <1>1, RequestAlone DEF Busy
  <2>2. CASE queue' = queue
    BY <2>1, <2>2 DEF SoloInv, Working
  <2>3. CASE Enqueue(r)
    <3> DEFINE l == Server[r]
    <3>1. l \in Consumers /\ req'[r] = Finished
      BY <1>0, <2>3, ServerAssumption DEF Enqueue, TypeOK
    <3>2. queue' = [queue EXCEPT ![l] = Append(queue[l], req[r].id)]
      BY <1>0, <2>3, <3>1 DEF Enqueue, TypeOK
    <3> HIDE DEF l
    <3>3. /\ queue'[l] = Append(queue[l], req[r].id) /\ queue[l] = <<>>
          /\ \A k \in Consumers \ {l} : queue'[k] = <<>>
      BY <1>0, <2>1, <3>1, <3>2 DEF TypeOK
    <3>4. Tail(queue'[l]) = <<>>
      <4>1. queue[l] \in Seq({req[r].id}) /\ Len(queue[l]) = 0
        BY <3>3, EmptySeq
      <4>2. queue'[l] \in Seq({req[r].id}) /\ Len(queue'[l]) = 1
        BY <3>3, <4>1, AppendProperties
      <4> QED
        BY <4>2, TailOfOne
    <3>5. \A q \in Requests : ~Busy(q)'
      BY <2>1, <3>1 DEF Busy, Finished
    <3> QED
      BY <2>1, <3>1, <3>3, <3>4, <3>5 DEF SoloInv, Working
  <2>4. Arrive(r) \/ (Serve(r) /\ ~Enqueue(r)) => queue' = queue
    <3>1. Arrive(r) => queue' = queue
      BY DEF Arrive, Create, Updates, Delete
    <3>2. Serve(r) /\ ~Enqueue(r) => queue' = queue
      BY DEF Serve, ReadProfile, ReadMaster, WriteProfile, WriteReference, ReadFamily, Detach,
             Remove, RequestFails
    <3> QED
      BY <3>1, <3>2
  <2> QED
    BY <1>1, <2>2, <2>3, <2>4
<1>2. ASSUME NEW k \in Consumers, Work(k)
      PROVE  SoloInv'
  BY <1>2, WorkAlone DEF SoloInv, Busy, Working
<1>3. ASSUME NEW k \in Consumers, Restart(k)
      PROVE  SoloInv'
  <2>1. \A r \in Requests : Busy(r)' => Busy(r)
    BY <1>0, <1>3, RestartFrame DEF Busy, Finished
  <2>2. \A l \in Consumers : Working(l)' => Working(l)
    BY <1>0, <1>3, RestartFrame DEF Working
  <2>3. \A l \in Consumers : /\ queue'[l] = <<>> \/ Tail(queue'[l]) = <<>>
                             /\ job'[l] # NoJob => queue'[l] = <<>>
    BY <1>0, <1>3, RestartFrame DEF SoloInv
  <2> QED
    BY <2>1, <2>2, <2>3 DEF SoloInv
<1> QED
  BY <1>0, <1>1, <1>2, <1>3, Steps

LEMMA RequestFresh ==
  ASSUME ~Overlap, SequentialInv, NEW r \in Requests, Arrive(r) \/ Serve(r)
  PROVE  FreshInv' /\ NeverOwnMaster'
<1>0. /\ BaseInv /\ SoloInv /\ FreshInv /\ NeverOwnMaster /\ TypeOK /\ req[r] \in Handlers
      /\ \A p \in Ids : ref[p] # p
  BY DEF SequentialInv, BaseInv, TypeOK, NeverOwnMaster
<1>1. /\ \A q \in Requests \ {r} : ~Busy(q) /\ req'[q] = req[q]
      /\ \A k \in Consumers : job'[k] = NoJob
  BY <1>0, RequestAlone
<1>2. ASSUME FreshRequest(r)'
      PROVE  FreshInv'
  BY <1>1, <1>2 DEF FreshInv, FreshRequest, FreshJob, Busy, NoJob
<1>3. CASE Arrive(r)
  <2>1. ref' = ref
    BY <1>3 DEF Arrive, Create, Updates, Delete, tables
  <2>2. req'[r].pc \in {"enqueue", "read", "family"}
    BY <1>0, <1>3 DEF Arrive, Create, Updates, Delete, TypeOK
  <2> QED
    BY <1>0, <1>2, <2>1, <2>2 DEF FreshRequest, NeverOwnMaster
<1>4. CASE ReadProfile(r) \/ ReadMaster(r)
  <2>1. UNCHANGED tables /\ req[r].id \in Ids /\ HasReference(req[r].id)
    BY <1>0, <1>4, HandlerFields DEF ReadProfile, ReadMaster, Readable
  <2>2. \/ req'[r].pc = "readMaster"
        \/ req'[r].pc = "write" /\ req'[r].id = req[r].id /\ req'[r].row = Read(req[r].id)
    BY <1>0, <1>4 DEF ReadProfile, ReadMaster, TypeOK
  <2> QED
    BY <1>0, <1>2, <2>1, <2>2 DEF FreshRequest, NeverOwnMaster, HasReference, Read, tables
<1>5. CASE WriteProfile(r)
  <2>1. /\ UNCHANGED <<status, ref>> /\ req[r].pc = "write"
        /\ req'[r].id = req[r].id /\ req'[r].row = req[r].row
    BY <1>0, <1>5 DEF WriteProfile, TypeOK
  <2> QED
    BY <1>0, <1>2, <2>1 DEF FreshInv, FreshRequest, NeverOwnMaster, HasReference
<1>6. CASE WriteReference(r)
  <2>1. req[r].row.ref # req[r].id /\ req[r].id \in Ids
    BY <1>0, <1>6, HandlerFields DEF WriteReference, FreshInv, FreshRequest
  <2>2. \/ ref' = ref
        \/ ref' = [ref EXCEPT ![req[r].id] = req[r].row.ref]
    BY <1>6 DEF WriteReference
  <2>3. NeverOwnMaster'
    BY <1>0, <2>1, <2>2 DEF NeverOwnMaster, TypeOK
  <2>4. req'[r].pc = "enqueue"
    BY <1>0, <1>6 DEF WriteReference, TypeOK
  <2> QED
    BY <1>2, <2>3, <2>4 DEF FreshRequest
<1>7. CASE ReadFamily(r) \/ Detach(r) \/ Remove(r) \/ Enqueue(r) \/ RequestFails(r)
  <2>1. ref' = ref
    BY <1>7 DEF ReadFamily, Detach, Remove, Enqueue, RequestFails, tables
  <2>2. req'[r].pc \notin {"write", "writeRef"}
    <3>1. CASE ReadFamily(r)
      <4>1. \/ \E todo : req' = [req EXCEPT ![r] = [pc |-> "remove", id |-> req[r].id,
                                                    todo |-> todo]]
            \/ req' = [req EXCEPT ![r] = [pc |-> "detach", id |-> req[r].id,
                                          master |-> req[r].row.ref]]
        <5>1. CASE req[r].row.status = "REFERENCE"
          BY <3>1, <5>1 DEF ReadFamily
        <5>2. CASE req[r].row.status # "REFERENCE"
          BY <3>1, <5>2 DEF ReadFamily
        <5> QED
          BY <5>1, <5>2
      <4> QED
        BY <1>0, <4>1 DEF TypeOK
    <3>2. CASE Remove(r)
      <4> DEFINE todo == req[r].todo
      <4>1. req[r] = [pc |-> "remove", id |-> req[r].id, todo |-> todo]
        BY <1>0, <3>2, HandlerFields DEF Remove
      <4>2. \A rest : [req[r] EXCEPT !.todo = rest].pc = "remove"
        BY <4>1
      <4>3. PICK p \in Head(todo) :
              req'[r] = CASE Head(todo) # {p} ->
                               [req[r] EXCEPT !.todo = << Head(todo) \ {p} >> \o Tail(todo)]
                          [] Head(todo) = {p} /\ Len(todo) > 1 ->
                               [req[r] EXCEPT !.todo = Tail(todo)]
                          [] OTHER -> Finished
        BY <1>0, <3>2 DEF Remove, TypeOK
      <4> HIDE DEF todo
      <4>4. CASE Head(todo) # {p}
        BY <4>2, <4>3, <4>4
      <4>5. CASE Head(todo) = {p} /\ Len(todo) > 1
        BY <4>2, <4>3, <4>5
      <4>6. CASE Head(todo) = {p} /\ ~ (Len(todo) > 1)
        BY <4>3, <4>6 DEF Finished
      <4> QED
        BY <4>4, <4>5, <4>6
    <3>3. CASE Detach(r) \/ Enqueue(r) \/ RequestFails(r)
      BY <1>0, <3>3 DEF Detach, Enqueue, RequestFails, TypeOK, Finished
    <3> QED
      BY <1>7, <3>1, <3>2, <3>3
  <2> QED
    BY <1>0, <1>2, <2>1, <2>2 DEF FreshRequest, NeverOwnMaster
<1> QED
  BY <1>3, <1>4, <1>5, <1>6, <1>7 DEF Serve

\* A master profile has no master, so a child of another is none.
LEMMA ChildIsMerged ==
  ASSUME BaseInv, NEW old \in Ids, NEW kids \in ChildrenOrNone(old), NEW c \in kids
  PROVE  c \in Ids /\ ref[c] = old /\ status[c] = "MERGED"
<1>1. c \in Ids /\ HasReference(c) /\ ref[c] = old
  BY ChildrenAreIds
<1>2. Whole(Read(c))
  BY <1>1 DEF BaseInv, RowInv
<1>3. status[c] # "REFERENCE"
  BY <1>1, <1>2, NoProfileIsNone DEF Whole, Read
<1> QED
  BY <1>1, <1>3 DEF HasReference

\* Whom a plan puts under whom.
LEMMA PlanAllowed ==
  ASSUME SequentialInv, NEW j \in Jobs, j.pc = "refs", FreshJob(j),
         NEW kids \in ChildrenOrNone(j.old)
  PROVE  FreshJob(Plan(j, kids))
<1>0. /\ BaseInv /\ j.id \in Ids /\ j.old \in Ids /\ j.id # j.old /\ HasReference(j.id)
      /\ user[j.id] = j.user /\ user[j.old] = j.oldUser /\ ref[j.id] # j.old
      /\ status[j.old] = "REFERENCE"
  BY JobFields DEF SequentialInv, FreshJob
<1>1. ASSUME NEW m, NEW todo, \A i \in 1..Len(todo) : \A p \in todo[i] : MayAdopt(m, p)
      PROVE  FreshJob(Merge(j, m, todo))
  BY <1>1 DEF FreshJob, Merge
<1>2. ASSUME NEW m, NEW p, MayAdopt(m, p)
      PROVE  FreshJob(Merge(j, m, << {p} >>))
  <2>1. \A i \in 1..Len(<< {p} >>) : << {p} >>[i] = {p}
    OBVIOUS
  <2> QED
    BY <1>1, <1>2, <2>1
<1>3. CASE Plan(j, kids) = NoJob
  BY <1>3 DEF FreshJob, NoJob
<1>4. CASE /\ Plan(j, kids) = Merge(j, j.old, << {j.id} >>)
           /\ j.user \in {NoUser, j.oldUser}
  <2>1. MayAdopt(j.old, j.id)
    BY <1>0, <1>4 DEF MayAdopt
  <2> QED
    BY <1>2, <1>4, <2>1
<1>5. j.oldUser = NoUser => MayAdopt(j.id, j.old)
  BY <1>0 DEF MayAdopt
<1>6. CASE /\ Plan(j, kids) = Merge(j, j.id, << kids, {j.old} >>)
           /\ j.oldUser = NoUser /\ j.user # NoUser
  <2>1. \A c \in kids : MayAdopt(j.id, c)
    BY <1>0, ChildIsMerged DEF MayAdopt
  <2>2. \A i \in 1..Len(<< kids, {j.old} >>) :
          << kids, {j.old} >>[i] = kids \/ << kids, {j.old} >>[i] = {j.old}
    OBVIOUS
  <2> QED
    BY <1>1, <1>5, <1>6, <2>1, <2>2
<1>7. CASE /\ Plan(j, kids) = Merge(j, j.id, << {j.old} >>)
           /\ j.oldUser = NoUser /\ j.user # NoUser
  BY <1>2, <1>5, <1>7
<1>8. CASE /\ Plan(j, kids) = [pc |-> "insert", id |-> j.id, old |-> j.old]
           /\ j.oldUser = NoUser /\ j.user = NoUser
  BY <1>0, <1>8 DEF FreshJob
<1> QED
  BY <1>3, <1>4, <1>6, <1>7, <1>8, PlanCases

LEMMA WorkFresh ==
  ASSUME SequentialInv, NEW k \in Consumers, Work(k)
  PROVE  FreshInv' /\ NeverOwnMaster'
<1>0. /\ BaseInv /\ SoloInv /\ TypeOK /\ job[k] \in Jobs /\ SoundJob(job[k]) /\ FreshJob(job[k])
      /\ \A p \in Ids : ref[p] # p
  BY Sound DEF SequentialInv, BaseInv, TypeOK, FreshInv, NeverOwnMaster
<1>1. /\ req' = req /\ \A r \in Requests : ~Busy(r)
      /\ \A l \in Consumers \ {k} : job'[l] = NoJob
  BY <1>0, WorkAlone
<1>2. ASSUME FreshJob(job[k])'
      PROVE  FreshInv'
  BY <1>1, <1>2 DEF FreshInv, FreshRequest, FreshJob, Busy, NoJob
<1>3. ASSUME UNCHANGED tables, FreshJob(job'[k])
      PROVE  FreshInv' /\ NeverOwnMaster'
  <2>1. FreshJob(job[k])'
    BY <1>3 DEF FreshJob, MayAdopt, HasReference, tables
  <2> QED
    BY <1>0, <1>2, <1>3, <2>1 DEF NeverOwnMaster, tables
<1>4. FreshJob(NoJob)
  BY DEF FreshJob, NoJob
<1>5. CASE Fetch(k)
  <2> DEFINE p == Head(queue[k])
  <2>1. UNCHANGED tables /\ (p \in rows => HasReference(p)) /\ p \in Ids
    BY <1>0, <1>5, TakenOff DEF Fetch, TypeOK
  <2>2. \/ job'[k] = job[k]
        \/ p \in rows /\ job'[k] = [pc |-> "list", id |-> p, user |-> user[p], ref |-> ref[p]]
    BY <1>0, <1>5 DEF Fetch, TypeOK
  <2> HIDE DEF p
  <2>3. FreshJob(job'[k])
    BY <1>0, <2>1, <2>2 DEF FreshJob
  <2> QED
    BY <1>3, <2>1, <2>3
<1>6. CASE Match(k)
  <2>1. PICK q \in Candidates(job[k]) :
          job' = [job EXCEPT ![k] = [pc |-> "refs", id |-> job[k].id, user |-> job[k].user,
                                     old |-> q, oldUser |-> user[q]]]
    BY <1>6 DEF Match, SameUser
  <2>2. /\ UNCHANGED tables /\ status[q] = "REFERENCE" /\ q # job[k].id /\ q # job[k].ref
        /\ job[k].pc = "list"
    BY <1>6 DEF Match, Candidates
  <2>3. job'[k] = [pc |-> "refs", id |-> job[k].id, user |-> job[k].user,
                   old |-> q, oldUser |-> user[q]]
    BY <1>0, <2>1 DEF TypeOK
  <2>4. FreshJob(job'[k])
    BY <1>0, <2>2, <2>3 DEF FreshJob
  <2> QED
    BY <1>3, <2>2, <2>4
<1>7. CASE NoMatch(k) \/ Fail(k)
  BY <1>0, <1>3, <1>4, <1>7 DEF NoMatch, Fail, TypeOK
<1>8. CASE Decide(k)
  <2>1. PICK kids \in ChildrenOrNone(job[k].old) : job' = [job EXCEPT ![k] = Plan(job[k], kids)]
    BY <1>8 DEF Decide
  <2>2. UNCHANGED tables /\ job[k].pc = "refs" /\ job'[k] = Plan(job[k], kids)
    BY <1>0, <1>8, <2>1 DEF Decide, TypeOK
  <2> QED
    BY <1>0, <1>3, <2>2, PlanAllowed
<1>9. CASE InsertMaster(k)
  <2>1. PICK m \in Masters :
          /\ status[m] = "unused" /\ status' = [status EXCEPT ![m] = "REFERENCE"]
          /\ job' = [job EXCEPT ![k] = [pc |-> "adopt", id |-> job[k].id, master |-> m,
                                        todo |-> << {job[k].id, job[k].old} >>]]
    BY <1>9 DEF InsertMaster
  <2>2. UNCHANGED <<user, ref>> /\ job[k].pc = "insert" /\ m \in Ids /\ job[k].id \in Ids
        /\ job[k].old \in Ids
    BY <1>0, <1>9, JobFields DEF InsertMaster, Ids
  <2>3. /\ user[job[k].id] = NoUser /\ user[job[k].old] = NoUser
        /\ m # job[k].id /\ m # job[k].old
    BY <1>0, <2>1, <2>2 DEF FreshJob, HasReference
  <2>4. \A p \in {job[k].id, job[k].old} : MayAdopt(m, p)'
    BY <2>2, <2>3 DEF MayAdopt
  <2>5. job'[k].pc = "adopt" /\ job'[k].master = m /\ job'[k].todo = << {job[k].id, job[k].old} >>
    BY <1>0, <2>1 DEF TypeOK
  <2>6. \A i \in 1..Len(job'[k].todo) : job'[k].todo[i] = {job[k].id, job[k].old}
    BY <2>5
  <2>7. FreshJob(job[k])'
    BY <2>4, <2>5, <2>6 DEF FreshJob
  <2> QED
    BY <1>0, <1>2, <2>2, <2>7 DEF NeverOwnMaster
<1>10. CASE Adopt(k)
  <2> DEFINE j == job[k]
             adopted == {c \in Head(j.todo) : HasReference(c)}
  <2>1. /\ status' = [c \in Ids |-> IF c \in adopted THEN "MERGED" ELSE status[c]]
        /\ ref' = [c \in Ids |-> IF c \in adopted THEN j.master ELSE ref[c]]
        /\ user' = user /\ j.pc = "adopt"
    BY <1>10 DEF Adopt
  <2>2. j.todo \in Seq(SUBSET Ids) /\ j.todo # <<>>
    BY <1>0, <2>1, JobFields DEF SoundJob
  <2>3. /\ Tail(j.todo) # <<>> => job' = [job EXCEPT ![k].todo = Tail(j.todo)]
        /\ Tail(j.todo) = <<>> => job'[k].pc \in {"idle", "fetch"}
    BY <1>0, <1>10 DEF Adopt, TypeOK, NoJob
  <2>4. \A i \in 1..Len(j.todo) : \A p \in j.todo[i] : MayAdopt(j.master, p)
    BY <1>0, <2>1 DEF FreshJob
  <2>5. \A p \in Head(j.todo) : MayAdopt(j.master, p)
    BY <2>2, <2>4, TakenOff
  <2>6. NeverOwnMaster'
    BY <1>0, <2>1, <2>5 DEF NeverOwnMaster, MayAdopt
  <2>7. \A p \in Ids : status'[p] = "REFERENCE" => status[p] = "REFERENCE"
    BY <2>1
  <2> HIDE DEF adopted
  <2>8. CASE Tail(j.todo) = <<>>
    BY <1>2, <2>3, <2>6, <2>8 DEF FreshJob
  <2>9. CASE Tail(j.todo) # <<>>
    <3>1. job'[k] = [job[k] EXCEPT !.todo = Tail(j.todo)]
      BY <1>0, <2>3, <2>9 DEF TypeOK
    <3>2. job[k] = [pc |-> "adopt", id |-> j.id, master |-> j.master, todo |-> j.todo]
      BY <1>0, <2>1, JobFields
    <3>3. /\ job'[k].pc = "adopt" /\ job'[k].master = j.master /\ job'[k].todo = Tail(j.todo)
          /\ Tail(j.todo) \in Seq(SUBSET Ids)
      BY <2>2, <3>1, <3>2, TakenOff
    <3>4. ASSUME NEW i \in 1..Len(Tail(j.todo)), NEW p \in Tail(j.todo)[i]
          PROVE  MayAdopt(j.master, p)'
      <4>1. i + 1 \in 1..Len(j.todo) /\ Tail(j.todo)[i] = j.todo[i + 1]
        BY <2>2, TakenOff
      <4>2. p \in Ids /\ MayAdopt(j.master, p)
        BY <2>2, <2>4, <3>4, <4>1
      <4>3. job'[k].master = job[k].master
        BY <3>3
      <4> QED
        BY <2>1, <2>7, <4>2, <4>3 DEF MayAdopt
    <3>5. FreshJob(job[k])'
      BY <3>3, <3>4 DEF FreshJob
    <3> QED
      BY <1>2, <2>6, <3>5
  <2> QED
    BY <2>8, <2>9
<1>11. CASE FetchMaster(k)
  <2> DEFINE m == job[k].master
  <2>1. /\ UNCHANGED tables /\ m \in Ids /\ job'[k].pc = "save" /\ job'[k].master = m
        /\ job'[k].row = Read(m)
    BY <1>0, <1>11, JobFields DEF FetchMaster, TypeOK
  <2>2. FreshJob(job'[k])
    BY <1>0, <2>1 DEF FreshJob, Read
  <2> QED
    BY <1>3, <2>1, <2>2
<1>12. CASE SaveMaster(k)
  <2>1. /\ UNCHANGED <<status, ref>> /\ job[k].pc = "save"
        /\ job'[k].pc = "saveRef" /\ job'[k].master = job[k].master /\ job'[k].row = job[k].row
    BY <1>0, <1>12 DEF SaveMaster, TypeOK
  <2>2. FreshJob(job[k])'
    BY <1>0, <2>1 DEF FreshJob, HasReference
  <2> QED
    BY <1>0, <1>2, <2>1, <2>2 DEF NeverOwnMaster
<1>13. CASE SaveReference(k)
  <2> DEFINE m == job[k].master
  <2>1. job[k].pc = "saveRef" /\ m \in Ids /\ job[k].row.ref # m
    BY <1>0, <1>13, JobFields DEF SaveReference, FreshJob
  <2>2. ref' = ref \/ ref' = [ref EXCEPT ![m] = job[k].row.ref]
    BY <1>13 DEF SaveReference
  <2>3. NeverOwnMaster'
    BY <1>0, <2>1, <2>2 DEF NeverOwnMaster, TypeOK
  <2>4. job'[k].pc \in {"idle", "fetch"}
    BY <1>0, <1>13 DEF SaveReference, TypeOK, NoJob
  <2>5. FreshJob(job[k])'
    BY <2>4 DEF FreshJob
  <2> QED
    BY <1>2, <2>3, <2>5
<1> QED
  BY <1>5, <1>6, <1>7, <1>8, <1>9, <1>10, <1>11, <1>12, <1>13 DEF Work

LEMMA RestartFresh ==
  ASSUME SequentialInv, NEW k \in Consumers, Restart(k)
  PROVE  FreshInv' /\ NeverOwnMaster'
<1>1. TypeOK /\ FreshInv /\ NeverOwnMaster /\ UNCHANGED tables
  BY DEF SequentialInv, BaseInv, Restart
<1>2. \A r \in Requests : FreshRequest(r)'
  <2> TAKE r \in Requests
  <2>1. req'[r] = req[r] \/ req'[r] = Finished
    BY <1>1, RestartFrame
  <2> QED
    BY <1>1, <2>1 DEF FreshInv, FreshRequest, Finished, HasReference, tables
<1>3. \A l \in Consumers : FreshJob(job[l])'
  <2> TAKE l \in Consumers
  <2>1. FreshJob(job[l]) /\ FreshJob(NoJob)
    BY <1>1 DEF FreshInv, FreshJob, NoJob
  <2>2. FreshJob(job'[l])
    BY <1>1, <2>1, RestartFrame
  <2> QED
    BY <1>1, <2>2 DEF FreshJob, MayAdopt, HasReference, tables
<1> QED
  BY <1>1, <1>2, <1>3 DEF FreshInv, NeverOwnMaster, tables

LEMMA InitSequential == Init => SequentialInv
<1> SUFFICES ASSUME Init PROVE SequentialInv
  OBVIOUS
<1>1. BaseInv
  BY InitBase
<1>2. SoloInv
  BY DEF Init, SoloInv, Busy, Working
<1>3. FreshInv
  BY DEF Init, FreshInv, FreshRequest, FreshJob, NoJob
<1>4. NeverOwnMaster
  BY NoProfileIsNone DEF Init, NeverOwnMaster
<1> QED
  BY <1>1, <1>2, <1>3, <1>4 DEF SequentialInv

LEMMA NextSequential ==
  ASSUME ~Overlap, SequentialInv, [Next]_vars
  PROVE  SequentialInv'
<1>1. BaseInv /\ BaseInv' /\ TypeOK /\ SoloInv
  BY NextBase DEF SequentialInv, BaseInv
<1>2. CASE UNCHANGED vars
  BY <1>1, <1>2 DEF SequentialInv, vars, tables, SoloInv, Busy, Working, FreshInv, FreshRequest,
                    FreshJob, MayAdopt, HasReference, NeverOwnMaster
<1>3. CASE Next
  <2>1. SoloInv'
    BY <1>1, <1>3, SoloKept
  <2>2. FreshInv' /\ NeverOwnMaster'
    BY <1>1, <1>3, Steps, RequestFresh, WorkFresh, RestartFresh
  <2> QED
    BY <1>1, <2>1, <2>2 DEF SequentialInv
<1> QED
  BY <1>2, <1>3

\* Only a merge turns a master into a child: what is written back has the status it had.
LEMMA OnlyMergesMerge ==
  ASSUME ~Overlap, SequentialInv, Next, NEW p \in rows,
         status[p] = "REFERENCE", status'[p] = "MERGED"
  PROVE  \E k \in Consumers : /\ job[k].pc = "adopt" /\ ref'[p] = job[k].master
                              /\ MayAdopt(job[k].master, p)
<1>0. BaseInv /\ TypeOK /\ FreshInv /\ p \in Ids /\ HasReference(p)
  BY DEF SequentialInv, BaseInv, TypeOK, HasReference
<1>1. ASSUME NEW r \in Requests, Arrive(r) \/ Serve(r)
      PROVE  FALSE
  <2>1. CASE Arrive(r)
    <3>1. \/ status' = status
          \/ \E q \in Profiles : status' = [status EXCEPT ![q] = "REFERENCE"]
      BY <2>1 DEF Arrive, Create, Updates, Delete, tables
    <3> QED
      BY <1>0, <3>1 DEF TypeOK
  <2>2. CASE WriteReference(r)
    <3>1. \/ status' = status
          \/ /\ status' = [status EXCEPT ![req[r].id] = req[r].row.status]
             /\ HasReference(req[r].id)
      BY <2>2 DEF WriteReference
    <3>2. HasReference(req[r].id) => status[req[r].id] = req[r].row.status
      BY <1>0, <2>2 DEF WriteReference, FreshInv, FreshRequest
    <3> QED
      BY <1>0, <3>1, <3>2 DEF TypeOK
  <2>3. CASE Detach(r)
    <3>1. status' = [status EXCEPT ![req[r].id] =
                       IF req[r].id \in Children(req[r].master) THEN "none"
                       ELSE status[req[r].id]]
      BY <2>3 DEF Detach
    <3> QED
      BY <1>0, <3>1 DEF TypeOK
  <2>4. CASE Serve(r) /\ ~WriteReference(r) /\ ~Detach(r)
    BY <2>4 DEF Serve, ReadProfile, ReadMaster, WriteProfile, ReadFamily, Remove, Enqueue,
                RequestFails, tables
  <2> QED
    BY <1>1, <2>1, <2>2, <2>3, <2>4
<1>2. ASSUME NEW k \in Consumers, Work(k)
      PROVE  Adopt(k)
  <2>1. CASE InsertMaster(k)
    <3>1. PICK m : status' = [status EXCEPT ![m] = "REFERENCE"]
      BY <2>1 DEF InsertMaster
    <3> QED
      BY <1>0, <3>1 DEF TypeOK
  <2>2. CASE SaveReference(k)
    <3>1. \/ status' = status
          \/ /\ status' = [status EXCEPT ![job[k].master] = job[k].row.status]
             /\ HasReference(job[k].master)
      BY <2>2 DEF SaveReference
    <3>2. HasReference(job[k].master) => status[job[k].master] = job[k].row.status
      BY <1>0, <2>2 DEF SaveReference, FreshInv, FreshJob
    <3> QED
      BY <1>0, <3>1, <3>2 DEF TypeOK
  <2>3. CASE Work(k) /\ ~InsertMaster(k) /\ ~SaveReference(k) /\ ~Adopt(k)
    BY <2>3 DEF Work, Fetch, Match, NoMatch, Decide, FetchMaster, SaveMaster, Fail, tables
  <2> QED
    BY <1>2, <2>1, <2>2, <2>3
<1>3. \A k \in Consumers : ~Restart(k)
  BY DEF Restart, tables
<1>4. PICK k \in Consumers : Adopt(k)
  BY <1>0, <1>1, <1>2, <1>3, Steps
<1>5. job[k].pc = "adopt" /\ job[k] \in Jobs /\ SoundJob(job[k]) /\ FreshJob(job[k])
  BY <1>0, <1>4, Sound DEF Adopt, TypeOK, FreshInv
<1>6. p \in Head(job[k].todo) /\ ref'[p] = job[k].master
  BY <1>0, <1>4 DEF Adopt, TypeOK
<1>7. 1 \in 1..Len(job[k].todo) /\ Head(job[k].todo) = job[k].todo[1]
  BY <1>5, JobFields, TakenOff DEF SoundJob
<1>8. MayAdopt(job[k].master, p)
  BY <1>5, <1>6, <1>7 DEF FreshJob
<1> QED
  BY <1>5, <1>6, <1>8

LEMMA SequentialAlways ==
  ASSUME ~Overlap
  PROVE  Spec => []SequentialInv
BY InitSequential, NextSequential, PTL DEF Spec

\* profile_worker.go and how-unification-works.md, with requests one at a time: a profile
\* with a user id is put under a profile of the same user only, whatever else was merged
\* before, failed or was lost.
THEOREM MasterSafety ==
  ASSUME ~Overlap
  PROVE  Spec => PermanentBecomesMaster
<1>1. SequentialInv /\ [Next]_vars =>
        [\A p \in rows : status[p] = "REFERENCE" /\ status'[p] = "MERGED" =>
           user[p] \in {NoUser, user[ref'[p]]}]_vars
  BY OnlyMergesMerge DEF MayAdopt
<1> QED
  BY <1>1, SequentialAlways, PTL DEF Spec, PermanentBecomesMaster

\* profiles.md, with requests one at a time: merged_to never points to the profile itself.
THEOREM OwnSafety ==
  ASSUME ~Overlap
  PROVE  Spec => []NeverOwnMaster
<1>1. SequentialInv => NeverOwnMaster
  BY DEF SequentialInv
<1> QED
  BY <1>1, SequentialAlways, PTL
=============================================================================
