--------------------------- MODULE SessionCookies ---------------------------
(***************************************************************************)
(* Browsers, the cookie that names a browser's profile, and the events the *)
(* identity server sends when a user logs in, logs out or is deleted.      *)
(*                                                                         *)
(*   internal/profile/handler/profile_handler.go         req               *)
(*   internal/profile/service/profile_service.go         req               *)
(*   internal/profile/store/profile_store.go             profile, user,    *)
(*                                                       parent, cookie, of*)
(*   internal/system/workers/cookie_cleanup_worker.go    sweep             *)
(*                                                                         *)
(* Each step is one statement on the database, except that creating a      *)
(* profile, updating one and merging two of the same user are one step     *)
(* each: ProfileUnification has their details.  There are no unification   *)
(* rules, and no unification job is lost.                                  *)
(***************************************************************************)
EXTENDS Naturals, Sequences, FiniteSets, FiniteSetsExt, Functions

CONSTANTS Browsers,
          Users,     \* user ids of the identity server
          NoUser,    \* the empty user id
          Requests,  \* handler goroutines, each free again when it has answered
          ProfileIds, \* a bound: profiles get the ids 1..ProfileIds
          CookieIds,  \* a bound: cookies get the ids 1..CookieIds
          Visited,   \* the cookie and profile that each browser has at the start
          LoggedIn,  \* the user, if any, who is logged in there and whose profile it is, the
                     \* only one, for the jobs of earlier requests are done
          Arrivals,  \* requests that arrive in all (a bound)
          Failures,  \* may a call to the database fail?
          Batch      \* rows that one statement of the sweep deletes at most

Profiles  == 1..ProfileIds
Cookies   == 1..CookieIds
NoProfile == 0
NoCookie  == 0
OptUser   == Users \cup {NoUser}

ASSUME SessionAssumption == /\ NoUser \notin Users /\ Browsers # {}
                            /\ ProfileIds \in Nat /\ CookieIds \in Nat
                            /\ Failures \in BOOLEAN
                            /\ Arrivals \in Nat
                            /\ Visited \in [Browsers -> Profiles \cap Cookies]
                            /\ IsInjective(Visited)
                            /\ LoggedIn \in [Browsers -> OptUser]
                            /\ \A b, d \in Browsers :
                                 b # d /\ LoggedIn[b] = LoggedIn[d] => LoggedIn[b] = NoUser
                            /\ Batch \in Nat \ {0}

VARIABLES
  profile, \* the row of profiles: not yet there, there, or deleted
  user,    \* its user_id
  parent,  \* its master, or NoProfile for a reference profile
  cookie,  \* the row of profile_cookies: is_active when it is there
  of,      \* its profile_id
  jar,     \* the cookie each browser sends
  session, \* the user the identity server has logged in at each browser
  queue,   \* the unification queue
  req,     \* what each handler goroutine is at
  sweep,   \* does the sweep of the cookie cleanup worker go on for another batch?
  left,    \* requests that may still arrive
  ended,   \* cookies that a session termination has deactivated
  crossed  \* have two requests that write profiles or end sessions overlapped, or one
           \* failed, or has one come before the job of another was done?

tables == <<profile, user, parent, cookie, of>>
vars   == <<tables, jar, session, queue, req, sweep, left, ended, crossed>>

Free == [op |-> "none", pc |-> "free"]

\* A request that resolved its profile from its cookie keeps that cookie as `via`;
\* `late` says whether the session of the cookie had ended when the request arrived.
Handlers == {Free}
  \cup [op : {"init", "me", "patch", "login", "signup", "logout", "delete"},
        pc : {"cookie", "show", "create", "insert", "find", "act", "write", "owned",
              "deactivate", "remove"},
        browser : Browsers, sent : Cookies \cup {NoCookie}, late : BOOLEAN,
        via : Cookies \cup {NoCookie}, id : Profiles \cup {NoProfile}, user : OptUser,
        family : SUBSET Profiles]

TypeOK ==
  /\ profile \in [Profiles -> {"unused", "live", "gone"}]
  /\ user \in [Profiles -> OptUser]
  /\ parent \in [Profiles -> Profiles \cup {NoProfile}]
  /\ cookie \in [Cookies -> {"unused", "active", "inactive", "gone"}]
  /\ of \in [Cookies -> Profiles \cup {NoProfile}]
  /\ jar \in [Browsers -> Cookies \cup {NoCookie}]
  /\ session \in [Browsers -> OptUser]
  /\ queue \in Seq(Profiles)
  /\ req \in [Requests -> Handlers]
  /\ sweep \in {"over", "next"}
  /\ left \in 0..Arrivals
  /\ ended \subseteq Cookies
  /\ crossed \in BOOLEAN

Init ==
  /\ profile = [p \in Profiles |-> IF p \in Range(Visited) THEN "live" ELSE "unused"]
  /\ user = [p \in Profiles |-> IF p \in Range(Visited)
                                THEN LoggedIn[CHOOSE b \in Browsers : Visited[b] = p]
                                ELSE NoUser]
  /\ parent = [p \in Profiles |-> NoProfile]
  /\ cookie = [c \in Cookies |-> IF c \in Range(Visited) THEN "active" ELSE "unused"]
  /\ of = [c \in Cookies |-> IF c \in Range(Visited) THEN c ELSE NoProfile]
  /\ jar = Visited
  /\ session = LoggedIn
  /\ queue = <<>>
  /\ req = [r \in Requests |-> Free]
  /\ sweep = "over"
  /\ left = Arrivals
  /\ ended = {}
  /\ crossed = FALSE

-----------------------------------------------------------------------------
(***************************************************************************)
(* The tables.                                                             *)
(***************************************************************************)

Live == {p \in Profiles : profile[p] = "live"}

Master(p) == IF parent[p] = NoProfile THEN p ELSE parent[p]

\* GetProfile answers with the data of the master.
Shown(p) == p \in Live /\ Master(p) \in Live

\* GetProfileWithUserId: the reference profiles with that user id, in no order.
ReferencesOf(u) == {p \in Live : parent[p] = NoProfile /\ user[p] = u}

\* FetchReferencedProfiles.
Children(p) == {c \in Profiles : parent[c] = p}

\* The user whose profile a cookie leads to.
SessionUser(c) == user[Master(of[c])]

ActiveCookies   == {c \in Cookies : cookie[c] = "active"}
InactiveCookies == {c \in Cookies : cookie[c] = "inactive"}

Unused(rows) == {x \in DOMAIN rows : rows[x] = "unused"}

-----------------------------------------------------------------------------
(***************************************************************************)
(* Requests.  Those that write profiles or end sessions are writers; no    *)
(* two of them overlap when each comes after the other's answer and the    *)
(* unification job that the other caused.                                  *)
(***************************************************************************)

Writers == {"patch", "login", "signup", "logout", "delete"}

Quiet == queue = <<>> /\ \A r \in Requests : req[r].op \notin Writers

Arrive(r, op, pc, b, u) ==
  /\ req[r] = Free /\ left > 0
  /\ left' = left - 1
  /\ req' = [req EXCEPT ![r] =
               [op |-> op, pc |-> pc, browser |-> b, sent |-> jar[b],
                late |-> jar[b] \in ended, via |-> NoCookie, id |-> NoProfile,
                user |-> u, family |-> {}]]
  /\ crossed' = (crossed \/ (op \in Writers /\ ~Quiet))
  /\ UNCHANGED <<tables, jar, queue, sweep, ended>>

\* POST /profiles, GET and PATCH /profiles/me of a browser and the user of its token.
Visit(r, b) ==
  /\ \E op \in {"init", "me", "patch"} : Arrive(r, op, "cookie", b, session[b])
  /\ UNCHANGED session

\* AUTHENTICATION_SUCCESS, and ADD_USER of a user who signs up and has no profile yet: the
\* session that the event tells of begins.
LogIn(r, b, u) ==
  /\ session[b] = NoUser
  /\ \/ Arrive(r, "login", "cookie", b, u)
     \/ ReferencesOf(u) = {} /\ Arrive(r, "signup", "cookie", b, u)
  /\ session' = [session EXCEPT ![b] = u]

\* SESSION_TERMINATION; without a cookie nothing is looked at.
LogOut(r, b) ==
  /\ session[b] # NoUser /\ jar[b] # NoCookie
  /\ \A q \in Requests : req[q].op = "logout" => req[q].browser # b
  /\ Arrive(r, "logout", "find", b, session[b])
  /\ UNCHANGED session

\* DELETE_USER comes from no browser.
DeleteUser(r, u) ==
  /\ Arrive(r, "delete", "find", CHOOSE b \in Browsers : TRUE, u)
  /\ UNCHANGED session

Goto(r, pc) == req' = [req EXCEPT ![r].pc = pc]

\* The request is answered; a session ends with the answer to its termination.
Answered(r) ==
  /\ req' = [req EXCEPT ![r] = Free]
  /\ session' = IF req[r].op = "logout" THEN [session EXCEPT ![req[r].browser] = NoUser]
                ELSE session

\* Seeded fault: a row of profile_cookies is enough, active or not.
CookieProfile_AnyRow(c) ==
  IF c \in ActiveCookies \cup InactiveCookies THEN of[c] ELSE NoProfile

\* The profile of a cookie whose session is live.
CookieProfile(c) == IF c \in ActiveCookies THEN of[c] ELSE NoProfile

\* InitProfile, GetCurrentUserProfile, PatchCurrentUserProfile and SyncProfile look the
\* cookie up; when that fails, all but a login go on as without a cookie.
ReadCookie(r) ==
  /\ req[r].op # "logout" /\ req[r].pc = "cookie"
  /\ LET h == req[r]
         Without == CASE h.op = "init" -> Goto(r, "create") /\ UNCHANGED session
                      [] h.op \in {"me", "patch"} /\ h.user # NoUser ->
                           Goto(r, "find") /\ UNCHANGED session
                      [] OTHER -> Answered(r)
     IN  \/ /\ CookieProfile(h.sent) # NoProfile
            /\ req' = [req EXCEPT ![r].via = h.sent, ![r].id = CookieProfile(h.sent),
                                  ![r].pc = IF h.op \in {"me", "patch"} THEN "act" ELSE "show"]
            /\ UNCHANGED session
         \/ CookieProfile(h.sent) = NoProfile /\ Without
         \/ Failures /\ h.op # "login" /\ Without
  /\ UNCHANGED <<tables, jar, queue, sweep, left, ended, crossed>>

\* GetProfile: InitProfile answers with it and sets the same cookie, a sign-up attaches the
\* user to it, a login looks first for a profile that the user has.
Show(r) ==
  /\ req[r].pc = "show"
  /\ IF ~Shown(req[r].id) \/ req[r].op = "init" THEN Answered(r)
     ELSE Goto(r, IF req[r].op = "signup" THEN "write" ELSE "find") /\ UNCHANGED session
  /\ UNCHANGED <<tables, jar, queue, sweep, left, ended, crossed>>

\* CreateProfile of an anonymous profile.
CreateProfile(r) ==
  /\ req[r].pc = "create"
  /\ Unused(profile) # {}
  /\ LET p == Min(Unused(profile)) IN
     /\ profile' = [profile EXCEPT ![p] = "live"]
     /\ req' = [req EXCEPT ![r].pc = "insert", ![r].id = p]
  /\ UNCHANGED <<user, parent, cookie, of, jar, session, queue, sweep, left, ended, crossed>>

\* CreateProfileCookie: the foreign key refuses a cookie of a profile that is gone.
InsertCookie(r) ==
  /\ req[r].pc = "insert"
  /\ Unused(cookie) # {}
  /\ LET c == Min(Unused(cookie)) IN
     IF req[r].id \in Live
     THEN /\ cookie' = [cookie EXCEPT ![c] = "active"]
          /\ of' = [of EXCEPT ![c] = req[r].id]
          /\ jar' = [jar EXCEPT ![req[r].browser] = c]
     ELSE UNCHANGED <<cookie, of, jar>>
  /\ Answered(r)
  /\ UNCHANGED <<profile, user, parent, queue, sweep, left, ended, crossed>>

\* FindProfileByUserId.  A login goes on unless its profile is the user's already; a
\* termination and a deletion need the user's profile, as does a visit without a cookie.
Find(r) ==
  /\ req[r].pc = "find"
  /\ LET h == req[r]
         found == ReferencesOf(h.user)
     IN  \/ /\ h.op = "login"
            /\ \/ found = {} /\ Goto(r, "write") /\ UNCHANGED session
               \/ \E q \in found : IF q = h.id THEN Answered(r)
                                   ELSE Goto(r, "write") /\ UNCHANGED session
         \/ h.op # "login" /\ found = {} /\ Answered(r)
         \/ /\ h.op # "login"
            /\ \E q \in found :
                 req' = [req EXCEPT ![r].id = q, ![r].family = {q} \cup Children(q),
                                    ![r].pc = CASE h.op = "logout" -> "owned"
                                                [] h.op = "delete" -> "remove"
                                                [] OTHER -> "act"]
            /\ UNCHANGED session
  /\ UNCHANGED <<tables, jar, queue, sweep, left, ended, crossed>>

\* GET answers; PATCH reads the profile, and with it the user id that it will write back.
Act(r) ==
  /\ req[r].pc = "act"
  /\ IF Shown(req[r].id) /\ req[r].op = "patch"
     THEN /\ req' = [req EXCEPT ![r].pc = "write", ![r].user = user[Master(req[r].id)]]
          /\ UNCHANGED session
     ELSE Answered(r)
  /\ UNCHANGED <<tables, jar, queue, sweep, left, ended, crossed>>

\* Seeded fault: what is enqueued is the profile that the written one refers to.
Write_EnqueueReference(r) ==
  /\ req[r].pc = "write"
  /\ Len(queue) < Cardinality(Requests)
  /\ LET p == req[r].id IN
     IF Shown(p) THEN /\ user' = [user EXCEPT ![Master(p)] = req[r].user]
                      /\ queue' = Append(queue, parent[p])
                 ELSE UNCHANGED <<user, queue>>
  /\ Answered(r)
  /\ UNCHANGED <<profile, parent, cookie, of, jar, sweep, left, ended, crossed>>

\* UpdateProfile writes the master of the profile and enqueues it (a bound on the queue).
Write(r) ==
  /\ req[r].pc = "write"
  /\ Len(queue) < Cardinality(Requests)
  /\ LET p == req[r].id IN
     IF Shown(p) THEN /\ user' = [user EXCEPT ![Master(p)] = req[r].user]
                      /\ queue' = Append(queue, Master(p))
                 ELSE UNCHANGED <<user, queue>>
  /\ Answered(r)
  /\ UNCHANGED <<profile, parent, cookie, of, jar, sweep, left, ended, crossed>>

\* Seeded fault: only a cookie of the user's own profile counts, not one of a profile that
\* was merged into it.
Owned_NoChildren(r) ==
  /\ req[r].pc = "owned"
  /\ LET c == req[r].sent IN
     IF cookie[c] \in {"active", "inactive"} /\ of[c] = req[r].id
     THEN Goto(r, "deactivate") /\ UNCHANGED session
     ELSE Answered(r)
  /\ UNCHANGED <<tables, jar, queue, sweep, left, ended, crossed>>

\* SESSION_TERMINATION: is the cookie of the user's profile, or of one merged into it?
Owned(r) ==
  /\ req[r].pc = "owned"
  /\ LET c == req[r].sent IN
     IF cookie[c] \in {"active", "inactive"} /\ of[c] \in req[r].family
     THEN Goto(r, "deactivate") /\ UNCHANGED session
     ELSE Answered(r)
  /\ UNCHANGED <<tables, jar, queue, sweep, left, ended, crossed>>

\* Seeded fault: the status is set by the id of the user's profile, not of the cookie.
Deactivate_ByProfile(r) ==
  /\ req[r].pc = "deactivate"
  /\ cookie' = [c \in Cookies |-> IF c \in ActiveCookies /\ of[c] = req[r].id
                                 THEN "inactive" ELSE cookie[c]]
  /\ ended' = ended \cup {req[r].sent}
  /\ Answered(r)
  /\ UNCHANGED <<profile, user, parent, of, jar, queue, sweep, left, crossed>>

\* UpdateCookieStatusByCookieId, of a row that may have gone since.
Deactivate(r) ==
  /\ req[r].pc = "deactivate"
  /\ LET c == req[r].sent IN
     /\ cookie' = [cookie EXCEPT ![c] = IF c \in ActiveCookies THEN "inactive" ELSE @]
     /\ ended' = ended \cup {c}
  /\ Answered(r)
  /\ UNCHANGED <<profile, user, parent, of, jar, queue, sweep, left, crossed>>

\* DeleteProfile, row by row and the master last; the cookies of a row go with it.
Remove(r) ==
  /\ req[r].pc = "remove"
  /\ LET h == req[r] IN
     \E p \in IF h.family = {h.id} THEN {h.id} ELSE h.family \ {h.id} :
       /\ profile' = [profile EXCEPT ![p] = "gone"]
       /\ user' = [user EXCEPT ![p] = NoUser]
       /\ parent' = [parent EXCEPT ![p] = NoProfile]
       /\ cookie' = [c \in Cookies |-> IF of[c] = p THEN "gone" ELSE cookie[c]]
       /\ IF p = h.id THEN Answered(r)
          ELSE req' = [req EXCEPT ![r].family = @ \ {p}] /\ UNCHANGED session
  /\ UNCHANGED <<of, jar, queue, sweep, left, ended, crossed>>

\* A call to the database fails: the request is answered with an error where it is.
RequestFails(r) ==
  /\ Failures /\ req[r] # Free
  /\ crossed' = (crossed \/ req[r].op \in Writers)
  /\ Answered(r)
  /\ UNCHANGED <<tables, jar, queue, sweep, left, ended>>

-----------------------------------------------------------------------------
(***************************************************************************)
(* The workers.                                                            *)
(***************************************************************************)

\* The unification worker merges the profile of its next job into another reference profile
\* of the same user; what had been merged into that profile stays where it is.
Unify ==
  /\ queue # <<>>
  /\ queue' = Tail(queue)
  /\ LET p == Head(queue)
         others == IF p \in Live /\ parent[p] = NoProfile /\ user[p] # NoUser
                   THEN ReferencesOf(user[p]) \ {p} ELSE {}
     IN  \/ others = {} /\ UNCHANGED parent
         \/ \E q \in others : parent' = [parent EXCEPT ![p] = q]
  /\ UNCHANGED <<profile, user, cookie, of, jar, session, req, sweep, left, ended, crossed>>

\* What a DELETE without RETURNING lets ExecuteQueryContext collect.
RowsReturned(rows) == 0

\* Seeded fault: the statement picks active cookies.
Doomed_Active == {S \in SUBSET ActiveCookies :
                    Cardinality(S) = Min({Batch, Cardinality(ActiveCookies)})}

\* DeleteInactiveCookies: Batch rows, or all when there are fewer, in no order.
Doomed == {S \in SUBSET InactiveCookies :
             Cardinality(S) = Min({Batch, Cardinality(InactiveCookies)})}

\* A round of runCookieCleanup: the first one at a tick of StartCookieCleanupWorker, and
\* another when this one deleted a whole batch.  A statement that fails ends the sweep and
\* changes nothing.
SweepBatch ==
  /\ InactiveCookies # {}
  /\ \E S \in Doomed :
       /\ cookie' = [c \in Cookies |-> IF c \in S THEN "gone" ELSE cookie[c]]
       /\ sweep' = IF RowsReturned(S) < Batch THEN "over" ELSE "next"
  /\ UNCHANGED <<profile, user, parent, of, jar, session, queue, req, left, ended, crossed>>

-----------------------------------------------------------------------------
Handle(r) ==
  \/ \E b \in Browsers : Visit(r, b) \/ LogOut(r, b)
  \/ \E b \in Browsers, u \in Users : LogIn(r, b, u)
  \/ \E u \in Users : DeleteUser(r, u)
  \/ ReadCookie(r) \/ Show(r) \/ CreateProfile(r) \/ InsertCookie(r) \/ Find(r)
  \/ Act(r) \/ Write(r) \/ Owned(r) \/ Deactivate(r) \/ Remove(r) \/ RequestFails(r)

Next ==
  \/ \E r \in Requests : Handle(r)
  \/ Unify \/ SweepBatch

\* The ticker goes on, and the database does not refuse every sweep.
Fairness == WF_vars(SweepBatch)

Spec == Init /\ [][Next]_vars /\ Fairness

-----------------------------------------------------------------------------
\* is-sync.md, SESSION_TERMINATE: a request that arrives after the termination was carried
\* out does not act on the profile of that session's cookie, whatever it reads when.
NoUseAfterLogout ==
  \A r \in Requests : req[r] # Free /\ req[r].via # NoCookie => ~req[r].late

\* The same page: "Deactivates the cookie".  When a termination has been answered, the
\* cookie no longer stands for a profile of the user who logged out, if the requests that
\* change profiles came one after the other and none failed.
LogoutEndsSession ==
  [][\A r \in Requests, c \in Cookies :
       req[r].op = "logout" /\ req'[r] = Free /\ ~crossed' /\ c = req[r].sent
         /\ c \in ActiveCookies' => SessionUser(c)' # req[r].user]_vars

\* profiles.md: "Promotes the anonymous profile".  Under the same conditions no cookie ever
\* leads the events of one user to the profile of another.
ProfileKeepsUser ==
  [][\A p \in Profiles :
       user[p] \in Users /\ user'[p] \in Users /\ ~crossed' => user'[p] = user[p]]_vars

\* profiles.md: inactive cookie records "are batch-deleted by the cookie cleanup worker":
\* each of them in the end, although a sweep stops after one batch.
InactiveCookiesGo ==
  \A c \in Cookies : cookie[c] = "inactive" ~> cookie[c] = "gone"

\* cookie_cleanup_worker.go: a sweep "deletes the inactive cookie records in batches".  The
\* batch that it ends with, without an error, leaves none.
SweepComplete ==
  [][SweepBatch /\ sweep' = "over" => InactiveCookies' = {}]_vars

\* is-sync.md: a termination "verifies the cookie belongs to the profile (or one of its
\* merged children)" and "deactivates the cookie".  When no call fails, it leaves no cookie
\* active that stands for a profile of the user.
TerminationDeactivates ==
  [][\A r \in Requests, c \in Cookies :
       req[r].op = "logout" /\ req'[r] = Free /\ c = req[r].sent
         /\ c \in ActiveCookies' => SessionUser(c)' # req[r].user]_vars
=============================================================================
