----------------------------- MODULE ProfileList -----------------------------
(***************************************************************************)
(* The list of profiles, read page by page with a cursor, while profiles   *)
(* are created, deleted, merged and changed.                               *)
(*                                                                         *)
(*   internal/profile/handler/profile_handler.go    walk                   *)
(*   internal/profile/service/profile_service.go    walk                   *)
(*   internal/profile/store/profile_store.go        there, root, match     *)
(*   internal/system/workers/profile_worker.go      time, root, job        *)
(*                                                                         *)
(* One client walks, as far as it likes and in either direction; another   *)
(* would not disturb it, for a walk writes nothing.  An id is a number:    *)
(* what the list needs of ids is their order.  How the worker comes to     *)
(* merge profiles is the matter of ProfileUnification; here it merges any. *)
(***************************************************************************)
EXTENDS Naturals, FiniteSets

CONSTANTS Profiles,  \* ids that requests create profiles under
          Masters,   \* ids the worker creates neutral masters under (a bound)
          Existing,  \* profiles that are there at the start
          Changing,  \* profiles that may start or cease to match a filter (a bound)
          Times,     \* creation times
          PageSizes, \* values of page_size but 0, which asks for an empty page
          Writes,    \* what may change the list during the walk (a bound)
          Failures   \* may a call to the database fail?

Ids == Profiles \cup Masters
NoProfile == 0

ASSUME ListAssumption ==
  /\ IsFiniteSet(Ids)
  /\ Ids \subseteq Nat \ {NoProfile}
  /\ Profiles \cap Masters = {}
  /\ Existing \subseteq Profiles
  /\ Changing \subseteq Ids
  /\ Times \subseteq Nat /\ Times # {}
  /\ PageSizes \subseteq Nat \ {0}
  /\ Writes \in Nat
  /\ Failures \in BOOLEAN

VARIABLES
  there,  \* profiles with both their rows
  time,   \* created_at, which no statement changes
  root,   \* the end of the reference_profile_ids that start at a profile
  match,  \* profiles that match the filter
  job,    \* the neutral master that the worker has created and has yet to attach to
  walk,   \* the client's walk: the request or the page it is at
  seen,   \* profiles on the pages it was answered
  steady, \* profiles that were on the list ever since the walk began
  before, \* the page before the one in walk
  quiet,  \* pages read since a profile last came to or left the list, up to two
  left    \* writes that may still happen

rows == <<there, time, root, match, job>>
vars == <<rows, walk, seen, steady, before, quiet, left>>

OptId == Ids \cup {NoProfile}

NoJob == [master |-> NoProfile, kids |-> {}]
NotBegun == [pc |-> "new"]

\* A cursor is the creation time and the id of a profile, and a direction.  The time is left
\* out: it stays what it was, also when the profile is gone.
Begun ==
  [pc : {"ask", "answer", "shown"}, size : PageSizes, filtered : BOOLEAN,
   came : {"next", "prev"}, dir : {"next", "prev"}, at : OptId, back : BOOLEAN,
   page : SUBSET Ids, more : BOOLEAN, next : OptId, prev : OptId]
Walks == {NotBegun} \cup Begun

TypeOK ==
  /\ there \subseteq Ids
  /\ time \in [Ids -> Times]
  /\ root \in [Ids -> OptId]
  /\ match \subseteq Ids
  /\ job \in [master : Masters \cup {NoProfile}, kids : SUBSET Ids]
  /\ walk \in Walks
  /\ walk.pc # "new" => Cardinality(walk.page) <= walk.size
  /\ seen \subseteq Ids
  /\ steady \subseteq Ids
  /\ before \subseteq Ids
  /\ quiet \in 0..2
  /\ left \in 0..Writes

\* `time` says also what the profiles to come are created at: the clocks of two instances
\* differ, and a row is inserted some time after its time was taken.
Init ==
  /\ there = Existing
  /\ \E created \in [Profiles -> Times] :
       time = [p \in Ids |-> IF p \in Profiles THEN created[p] ELSE CHOOSE t \in Times : TRUE]
  /\ root = [p \in Ids |-> IF p \in Existing THEN p ELSE NoProfile]
  /\ match = Ids
  /\ job = NoJob
  /\ walk = NotBegun
  /\ seen = {} /\ steady = {} /\ before = {} /\ quiet = 0 /\ left = Writes

-----------------------------------------------------------------------------
(***************************************************************************)
(* The order of the list.                                                  *)
(***************************************************************************)

\* The row-value comparison of (created_at, profile_id).
Newer(p, q) == time[p] > time[q] \/ (time[p] = time[q] /\ p > q)

Toward(dir, p, q) == IF dir = "next" THEN Newer(p, q) ELSE Newer(q, p)

\* Reference profiles, with a filter those that match.
Listed(filtered) == {p \in there : root[p] = p /\ (filtered => p \in match)}

\* Seeded fault: the cursor compares creation times only.
Beyond_TimeOnly(w) ==
  {p \in Listed(w.filtered) :
     \/ w.at = NoProfile
     \/ IF w.dir = "next" THEN time[w.at] > time[p] ELSE time[p] > time[w.at]}

\* Seeded fault: the comparison with the cursor is not strict.
Beyond_AtCursor(w) ==
  {p \in Listed(w.filtered) : w.at = NoProfile \/ ~Toward(w.dir, p, w.at)}

\* The WHERE clause: profiles on the cursor's side that is asked for.
Beyond(w) == {p \in Listed(w.filtered) : w.at = NoProfile \/ Toward(w.dir, w.at, p)}

\* Seeded fault: the row that is read ahead stays on the page.
Nearest_ReadAhead(S, w) ==
  /\ S # Beyond(w) => Cardinality(S) = w.size + 1
  /\ Cardinality(S) <= w.size + 1
  /\ \A p \in S, q \in Beyond(w) \ S : Toward(w.dir, p, q)

\* Seeded fault: newer rows, too, are read newest first.
Nearest_NewestFirst(S, w) ==
  /\ S # Beyond(w) => Cardinality(S) = w.size
  /\ Cardinality(S) <= w.size
  /\ \A p \in S, q \in Beyond(w) \ S : Newer(p, q)

\* ORDER BY and LIMIT: S is as many of them as fit the page, closest to the cursor first.
Nearest(S, w) ==
  /\ S # Beyond(w) => Cardinality(S) = w.size
  /\ Cardinality(S) <= w.size
  /\ \A p \in S, q \in Beyond(w) \ S : Toward(w.dir, p, q)

\* The first and the last profile of a page: it is answered newest first in either direction.
IsFirst(p, S) == \A q \in S \ {p} : Newer(p, q)
IsLast(p, S)  == \A q \in S \ {p} : Newer(q, p)

-----------------------------------------------------------------------------
(***************************************************************************)
(* The walk.                                                               *)
(***************************************************************************)

\* GET /profiles without a cursor, with or without a filter.
Begin(size, filtered) ==
  /\ walk = NotBegun
  /\ walk' = [pc |-> "ask", size |-> size, filtered |-> filtered,
              came |-> "next", dir |-> "next", at |-> NoProfile, back |-> FALSE,
              page |-> {}, more |-> FALSE, next |-> NoProfile, prev |-> NoProfile]
  /\ steady' = Listed(filtered)
  /\ UNCHANGED <<rows, seen, before, quiet, left>>

\* GET /profiles with one of the two cursors of the last answer.
Follow(dir) ==
  /\ walk.pc = "shown"
  /\ LET at == IF dir = "next" THEN walk.next ELSE walk.prev IN
     /\ at # NoProfile
     /\ walk' = [walk EXCEPT !.pc = "ask", !.came = walk.dir, !.dir = dir, !.at = at,
                             !.back = @ \/ dir = "prev", !.next = NoProfile,
                             !.prev = NoProfile]
  /\ UNCHANGED <<rows, seen, steady, before, quiet, left>>

\* GetAllProfiles, GetAllProfilesWithFilter: one row is read ahead, to know of more.
ReadPage ==
  /\ walk.pc = "ask"
  /\ \E S \in SUBSET Beyond(walk) :
       /\ Nearest(S, walk)
       /\ walk' = [walk EXCEPT !.pc = "answer", !.page = S, !.more = S # Beyond(walk)]
  /\ before' = walk.page
  /\ quiet' = IF quiet = 2 THEN 2 ELSE quiet + 1
  /\ UNCHANGED <<rows, seen, steady, left>>

\* Going back there is a next page for certain, and going on a previous one but at first.
NextCursor(w, last) ==
  IF (w.dir = "next" /\ w.more) \/ (w.dir = "prev" /\ w.at # NoProfile) THEN last ELSE NoProfile
PrevCursor(w, first) ==
  IF (w.dir = "prev" /\ w.more) \/ (w.dir = "next" /\ w.at # NoProfile) THEN first ELSE NoProfile

\* The profiles merged into each are read, and the page is answered, with no cursors if it is
\* empty.
Answer ==
  /\ walk.pc = "answer"
  /\ IF walk.page = {}
     THEN walk' = [walk EXCEPT !.pc = "shown", !.next = NoProfile, !.prev = NoProfile]
     ELSE \E first, last \in walk.page :
            /\ IsFirst(first, walk.page) /\ IsLast(last, walk.page)
            /\ walk' = [walk EXCEPT !.pc = "shown", !.next = NextCursor(walk, last),
                                    !.prev = PrevCursor(walk, first)]
  /\ seen' = seen \cup walk.page
  /\ UNCHANGED <<rows, steady, before, quiet, left>>

\* A call to the database fails after the page was read, or before: an error is answered, and
\* the client asks again.
ListFails ==
  /\ Failures /\ walk.pc = "answer"
  /\ walk' = [walk EXCEPT !.pc = "ask", !.page = {}]
  /\ before' = {} /\ quiet' = 0
  /\ UNCHANGED <<rows, seen, steady, left>>

-----------------------------------------------------------------------------
(***************************************************************************)
(* What changes the list meanwhile.                                        *)
(***************************************************************************)

\* The walk is at what it was at.  What was written before it began has led to Existing.
Notice ==
  /\ walk # NotBegun
  /\ UNCHANGED <<walk, seen>>
  /\ LET now == Listed(walk.filtered)' IN
     /\ steady' = steady \cap now
     /\ IF now = Listed(walk.filtered) THEN UNCHANGED <<before, quiet>>
                                       ELSE before' = {} /\ quiet' = 0

\* The writes that begin by themselves are bounded, what ends a merge is not counted.
Counted == left > 0 /\ left' = left - 1

Create(p) ==
  /\ root[p] = NoProfile
  /\ there' = there \cup {p}
  /\ root' = [root EXCEPT ![p] = p]
  /\ UNCHANGED <<time, match, job>>
  /\ Notice /\ Counted

\* DeleteProfile: a master goes with its children, and with its only child.
Delete(p) ==
  /\ p \in there \ (job.kids \cup {job.master})
  /\ LET kin == {q \in there : root[q] = root[p]} IN
     there' = there \ (IF root[p] = p \/ kin = {p, root[p]} THEN kin ELSE {p})
  /\ UNCHANGED <<time, root, match, job>>
  /\ Notice /\ Counted

\* A profile comes to match the filter or ceases to.
Change(p) ==
  /\ walk # NotBegun /\ walk.filtered
  /\ match' = IF p \in match THEN match \ {p} ELSE match \cup {p}
  /\ UNCHANGED <<there, time, root, job>>
  /\ Notice /\ Counted

\* What leads to any of `kids` leads to m.
Under(m, kids) == [p \in Ids |-> IF root[p] \in kids THEN m ELSE root[p]]

\* One of two reference profiles becomes the child of the other.
Merge(p, q) ==
  /\ job = NoJob
  /\ p # q /\ {p, q} \subseteq Listed(FALSE)
  /\ root' = Under(q, {p})
  /\ UNCHANGED <<there, time, match, job>>
  /\ Notice /\ Counted

\* The worker inserts a neutral master for p and the existing q, created when q was.
InsertMaster(p, q, m) ==
  /\ job = NoJob
  /\ p # q /\ {p, q} \subseteq Listed(FALSE)
  /\ root[m] = NoProfile
  /\ there' = there \cup {m}
  /\ time' = [time EXCEPT ![m] = time[q]]
  /\ root' = [root EXCEPT ![m] = m]
  /\ job' = [master |-> m, kids |-> {p, q}]
  /\ UNCHANGED match
  /\ Notice /\ Counted

\* It makes them the master's children.
Attach ==
  /\ job # NoJob
  /\ root' = Under(job.master, job.kids)
  /\ job' = NoJob
  /\ UNCHANGED <<there, time, match>>
  /\ Notice /\ UNCHANGED left

\* That fails, or the process ends before.
MergeFails ==
  /\ Failures /\ job # NoJob
  /\ job' = NoJob
  /\ UNCHANGED <<there, time, root, match>>
  /\ Notice /\ UNCHANGED left

-----------------------------------------------------------------------------
Walk ==
  \/ \E size \in PageSizes, filtered \in BOOLEAN : Begin(size, filtered)
  \/ \E dir \in {"next", "prev"} : Follow(dir)
  \/ ReadPage \/ Answer \/ ListFails

Write ==
  \/ \E p \in Profiles : Create(p)
  \/ \E p \in Ids : Delete(p)
  \/ \E p \in Changing : Change(p)
  \/ \E p, q \in Ids : Merge(p, q)
  \/ \E p, q \in Ids, m \in Masters : InsertMaster(p, q, m)
  \/ Attach \/ MergeFails

Next == Walk \/ Write

Spec == Init /\ [][Next]_vars

-----------------------------------------------------------------------------
\* The walk has come to the end of the list.
AtEnd == walk.pc = "shown" /\ walk.dir = "next" /\ ~walk.more

\* profile_pagination_test.go: "Paging forward visits every profile exactly once".  Whatever
\* is created, deleted, merged and changed between the pages, and however the client went back
\* and forth, at the end it has seen every profile that was on the list all the time; and a
\* client that never went back was shown none of them twice.
VisitsEvery == AtEnd => steady \subseteq seen

VisitsOnce ==
  [][walk.pc = "answer" /\ walk'.pc = "shown" /\ ~walk.back => seen \cap walk.page = {}]_vars

\* "Stepping back from the start of the second page must reproduce the first page", and
\* stepping on again the second, if no profile came to or left the list meanwhile.
TurningReturns ==
  [][walk.pc = "ask" /\ walk'.pc = "answer" /\ quiet = 2 /\ walk.came # walk.dir
       => walk'.page = before]_vars
=============================================================================
