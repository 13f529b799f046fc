------------------------ MODULE SessionCookies_proofs ------------------------
(***************************************************************************)
(* What SessionCookies promises for any number of browsers, users,         *)
(* requests, profiles and cookies.                                         *)
(*                                                                         *)
(*   LogoutSafety  a request that arrives after the end of a session does  *)
(*                 not act on the profile of that session's cookie         *)
(*   EndSafety     a termination leaves its cookie leading to no profile   *)
(*                 of its user, if the requests that write come one after  *)
(*                 the other and none fails                                *)
(*   UserSafety    and a profile keeps the user that it has                *)
(***************************************************************************)
EXTENDS SessionCookies, FunctionTheorems, SequenceTheorems, NaturalsInduction,
        WellFoundedInduction, TLAPS

-----------------------------------------------------------------------------
(* The rows that an insert takes.                                          *)

\* Min of a set of natural numbers that is not empty is one of them.
LEMMA MinOfNat ==
  ASSUME NEW S \in SUBSET Nat, S # {}
  PROVE  Min(S) \in S /\ \A x \in S : Min(S) <= x
<1>1. PICK m \in S : \A x \in S : ~ (<<x, m>> \in OpToRel(<, Nat))
  BY NatLessThanWellFounded, WFMin
<1>2. \A x \in S : ~ (x < m)
  BY <1>1, Zenon DEF OpToRel
<1>3. \E m0 \in S : \A x \in S : m0 =< x
  BY <1>2, SMT
<1> QED
  BY <1>3, Zenon DEF Min

\* The row that an insert takes is one that was never used.
LEMMA NextProfile ==
  ASSUME TypeOK, Unused(profile) # {}
  PROVE  Min(Unused(profile)) \in Profiles /\ profile[Min(Unused(profile))] = "unused"
<1>1. \A S \in SUBSET Nat : S # {} => Min(S) \in S
  BY MinOfNat
<1>2. /\ \A p \in Unused(profile) : p \in Profiles /\ profile[p] = "unused"
      /\ Unused(profile) \in SUBSET Nat
  BY DEF TypeOK, Unused, Profiles
<1>3. Min(Unused(profile)) \in Unused(profile)
  BY <1>1, <1>2
<1> QED
  BY <1>2, <1>3

LEMMA NextCookie ==
  ASSUME TypeOK, Unused(cookie) # {}
  PROVE  Min(Unused(cookie)) \in Cookies /\ cookie[Min(Unused(cookie))] = "unused"
<1>1. \A S \in SUBSET Nat : S # {} => Min(S) \in S
  BY MinOfNat
<1>2. /\ \A c \in Unused(cookie) : c \in Cookies /\ cookie[c] = "unused"
      /\ Unused(cookie) \in SUBSET Nat
  BY DEF TypeOK, Unused, Cookies
<1>3. Min(Unused(cookie)) \in Unused(cookie)
  BY <1>1, <1>2
<1> QED
  BY <1>2, <1>3

-----------------------------------------------------------------------------
(***************************************************************************)
(* Handlers.                                                               *)
(***************************************************************************)

Busy ==
  [op : {"init", "me", "patch", "login", "signup", "logout", "delete"},
   pc : {"cookie", "show", "create", "insert", "find", "act", "write", "owned",
         "deactivate", "remove"},
   browser : Browsers, sent : Cookies \cup {NoCookie}, late : BOOLEAN,
   via : Cookies \cup {NoCookie}, id : Profiles \cup {NoProfile}, user : OptUser,
   family : SUBSET Profiles]

\* A goroutine that is anywhere but free holds a request.
LEMMA AtWork ==
  ASSUME TypeOK, NEW r \in Requests
  PROVE  /\ req[r] = Free \/ req[r] \in Busy
         /\ req[r] = Free <=> req[r].pc = "free"
         /\ req[r] = Free <=> req[r].op = "none"
<1>1. req[r] \in Handlers
  BY DEF TypeOK
<1>2. req[r] = Free \/ req[r] \in Busy
  BY <1>1 DEF Handlers, Busy
<1>3. req[r] \in Busy => req[r].pc # "free" /\ req[r].op # "none"
  BY DEF Busy
<1>4. Free.pc = "free" /\ Free.op = "none"
  BY DEF Free
<1> QED
  BY <1>2, <1>3, <1>4

\* What a step of a request may make of it: the request is answered, or it goes on with what
\* it arrived with; it takes its profile from its cookie only when that is active.
GoesOn(r, h) ==
  /\ req' = [req EXCEPT ![r] = h]
  /\ h \in Busy
  /\ h.op = req[r].op /\ h.browser = req[r].browser /\ h.sent = req[r].sent
  /\ h.late = req[r].late
  /\ h.via = req[r].via \/ (h.via = req[r].sent /\ req[r].sent \in ActiveCookies)
  /\ h.pc \in {"owned", "deactivate"} => h.op = "logout" \/ req[r].pc = "owned"

Proceeds(r) == req' = [req EXCEPT ![r] = Free] \/ \E h \in Busy : GoesOn(r, h)

Serve(r) ==
  \/ ReadCookie(r) \/ Show(r) \/ CreateProfile(r) \/ InsertCookie(r) \/ Find(r)
  \/ Act(r) \/ Write(r) \/ Owned(r) \/ Deactivate(r) \/ Remove(r) \/ RequestFails(r)

LEMMA GotoProceeds ==
  ASSUME NEW r \in Requests, req[r] \in Busy,
         \E to \in {"create", "find", "write", "act", "show", "remove", "insert"} : Goto(r, to)
  PROVE  Proceeds(r)
<1>1. PICK to \in {"create", "find", "write", "act", "show", "remove", "insert"} : Goto(r, to)
  OBVIOUS
<1>2. PICK h : h = [req[r] EXCEPT !.pc = to]
  OBVIOUS
<1>3. h \in Busy
  BY <1>2 DEF Busy
<1>4. /\ h.op = req[r].op /\ h.browser = req[r].browser /\ h.sent = req[r].sent
      /\ h.late = req[r].late /\ h.via = req[r].via /\ h.pc = to
  BY <1>2 DEF Busy
<1>5. req' = [req EXCEPT ![r] = h]
  BY <1>1, <1>2 DEF Goto
<1> QED
  BY <1>3, <1>4, <1>5 DEF Proceeds, GoesOn

LEMMA AnswerProceeds ==
  ASSUME NEW r \in Requests, Answered(r)
  PROVE  Proceeds(r)
BY DEF Answered, Proceeds

\* Every step of a request is one of these.
LEMMA ServeProceeds ==
  ASSUME TypeOK, NEW r \in Requests, Serve(r)
  PROVE  Proceeds(r)
<1>0. req[r] \in Busy \/ req[r] = Free
  BY AtWork
<1>1. CASE ReadCookie(r)
  <2>1. req[r] \in Busy
    BY <1>1, AtWork DEF ReadCookie
  <2>2. CASE /\ CookieProfile(req[r].sent) # NoProfile
             /\ req' = [req EXCEPT ![r].via = req[r].sent,
                                   ![r].id = CookieProfile(req[r].sent),
                                   ![r].pc = IF req[r].op \in {"me", "patch"} THEN "act" ELSE "show"]
    <3>1. req[r].sent \in ActiveCookies /\ CookieProfile(req[r].sent) = of[req[r].sent]
      BY <2>2 DEF CookieProfile
    <3>2. of[req[r].sent] \in Profiles \cup {NoProfile}
      BY <3>1 DEF TypeOK, ActiveCookies
    <3>3. PICK h : h = [req[r] EXCEPT !.via = req[r].sent, !.id = of[req[r].sent],
                          !.pc = IF req[r].op \in {"me", "patch"} THEN "act" ELSE "show"]
      OBVIOUS
    <3>4. h \in Busy
      BY <2>1, <3>2, <3>3 DEF Busy
    <3>5. /\ h.op = req[r].op /\ h.browser = req[r].browser /\ h.sent = req[r].sent
          /\ h.late = req[r].late /\ h.via = req[r].sent
          /\ h.pc \in {"act", "show"}
      BY <2>1, <3>3 DEF Busy
    <3>6. req' = [req EXCEPT ![r] = h]
      BY <2>2, <3>1, <3>3
    <3> QED
      BY <3>1, <3>4, <3>5, <3>6 DEF Proceeds, GoesOn
  <2>3. CASE Goto(r, "create") \/ Goto(r, "find") \/ Answered(r)
    BY <2>1, <2>3, GotoProceeds, AnswerProceeds
  <2> QED
    BY <1>1, <2>2, <2>3 DEF ReadCookie
<1>2. CASE Show(r)
  BY <1>2, AtWork, GotoProceeds, AnswerProceeds DEF Show
<1>3. CASE CreateProfile(r)
  <2>1. req[r] \in Busy
    BY <1>3, AtWork DEF CreateProfile
  <2>2. PICK p \in Profiles : req' = [req EXCEPT ![r].pc = "insert", ![r].id = p]
    BY <1>3, NextProfile DEF CreateProfile
  <2>3. PICK h : h = [req[r] EXCEPT !.pc = "insert", !.id = p]
    OBVIOUS
  <2>4. h \in Busy
    BY <2>1, <2>3 DEF Busy
  <2>5. /\ h.op = req[r].op /\ h.browser = req[r].browser /\ h.sent = req[r].sent
        /\ h.late = req[r].late /\ h.via = req[r].via /\ h.pc = "insert"
    BY <2>1, <2>3 DEF Busy
  <2>6. req' = [req EXCEPT ![r] = h]
    BY <2>2, <2>3
  <2> QED
    BY <2>4, <2>5, <2>6 DEF Proceeds, GoesOn
<1>4. CASE InsertCookie(r)
  BY <1>4, AnswerProceeds DEF InsertCookie
<1>5. CASE Find(r)
  <2>1. req[r] \in Busy
    BY <1>5, AtWork DEF Find
  <2>2. ASSUME NEW q \in Profiles, NEW to \in {"owned", "remove", "act"},
               to = "owned" => req[r].op = "logout",
               req' = [req EXCEPT ![r].id = q, ![r].family = {q} \cup Children(q), ![r].pc = to]
        PROVE  Proceeds(r)
    <3>1. PICK h : h = [req[r] EXCEPT !.id = q, !.family = {q} \cup Children(q), !.pc = to]
      OBVIOUS
    <3>2. {q} \cup Children(q) \in SUBSET Profiles
      BY DEF Children
    <3>3. h \in Busy
      BY <2>1, <3>1, <3>2 DEF Busy
    <3>4. /\ h.op = req[r].op /\ h.browser = req[r].browser /\ h.sent = req[r].sent
          /\ h.late = req[r].late /\ h.via = req[r].via /\ h.pc = to
      BY <2>1, <3>1 DEF Busy
    <3>5. req' = [req EXCEPT ![r] = h]
      BY <2>2, <3>1
    <3> QED
      BY <2>2, <3>3, <3>4, <3>5 DEF Proceeds, GoesOn
  <2>3. CASE Goto(r, "write") \/ Answered(r)
    BY <2>1, <2>3, GotoProceeds, AnswerProceeds
  <2>4. CASE ~(Goto(r, "write") \/ Answered(r))
    <3>1. PICK q \in ReferencesOf(req[r].user) :
            req' = [req EXCEPT ![r].id = q, ![r].family = {q} \cup Children(q),
                               ![r].pc = CASE req[r].op = "logout" -> "owned"
                                           [] req[r].op = "delete" -> "remove"
                                           [] OTHER -> "act"]
      BY <1>5, <2>4 DEF Find
    <3>2. q \in Profiles
      BY DEF ReferencesOf, Live
    <3>3. PICK to : to = CASE req[r].op = "logout" -> "owned"
                           [] req[r].op = "delete" -> "remove"
                           [] OTHER -> "act"
      OBVIOUS
    <3>4. to \in {"owned", "remove", "act"} /\ (to = "owned" => req[r].op = "logout")
      BY <3>3
    <3> QED
      BY <2>2, <3>1, <3>2, <3>3, <3>4
  <2> QED
    BY <2>3, <2>4
<1>6. CASE Act(r)
  <2>1. req[r] \in Busy
    BY <1>6, AtWork DEF Act
  <2>2. CASE Answered(r)
    BY <2>2, AnswerProceeds
  <2>3. CASE /\ Shown(req[r].id)
             /\ req' = [req EXCEPT ![r].pc = "write", ![r].user = user[Master(req[r].id)]]
    <3>1. user[Master(req[r].id)] \in OptUser
      BY <2>3 DEF Shown, Live, TypeOK
    <3>2. PICK h : h = [req[r] EXCEPT !.pc = "write", !.user = user[Master(req[r].id)]]
      OBVIOUS
    <3>3. h \in Busy
      BY <2>1, <3>1, <3>2 DEF Busy
    <3>4. /\ h.op = req[r].op /\ h.browser = req[r].browser /\ h.sent = req[r].sent
          /\ h.late = req[r].late /\ h.via = req[r].via /\ h.pc = "write"
      BY <2>1, <3>2 DEF Busy
    <3>5. req' = [req EXCEPT ![r] = h]
      BY <2>3, <3>2
    <3> QED
      BY <3>3, <3>4, <3>5 DEF Proceeds, GoesOn
  <2> QED
    BY <1>6, <2>2, <2>3 DEF Act
<1>7. CASE Write(r)
  BY <1>7, AnswerProceeds DEF Write
<1>8. CASE Owned(r)
  <2>0. CASE Answered(r)
    BY <2>0, AnswerProceeds
  <2> SUFFICES ASSUME Goto(r, "deactivate") PROVE Proceeds(r)
    BY <1>8, <2>0 DEF Owned
  <2>1. req[r] \in Busy
    BY <1>8, AtWork DEF Owned
  <2>2. PICK h : h = [req[r] EXCEPT !.pc = "deactivate"]
    OBVIOUS
  <2>3. h \in Busy
    BY <2>1, <2>2 DEF Busy
  <2>4. /\ h.op = req[r].op /\ h.browser = req[r].browser /\ h.sent = req[r].sent
        /\ h.late = req[r].late /\ h.via = req[r].via
    BY <2>1, <2>2 DEF Busy
  <2>5. req' = [req EXCEPT ![r] = h]
    BY <2>2 DEF Goto
  <2> QED
    BY <1>8, <2>3, <2>4, <2>5 DEF Owned, Proceeds, GoesOn
<1>9. CASE Deactivate(r) \/ RequestFails(r)
  BY <1>9, AnswerProceeds DEF Deactivate, RequestFails
<1>10. CASE Remove(r)
  <2>0. CASE Answered(r)
    BY <2>0, AnswerProceeds
  <2>1. req[r] \in Busy
    BY <1>10, AtWork DEF Remove
  <2> SUFFICES ASSUME NEW p, req' = [req EXCEPT ![r].family = @ \ {p}]
               PROVE  Proceeds(r)
    BY <1>10, <2>0 DEF Remove
  <2>2. PICK h : h = [req[r] EXCEPT !.family = @ \ {p}]
    OBVIOUS
  <2>3. h \in Busy
    BY <2>1, <2>2 DEF Busy
  <2>4. /\ h.op = req[r].op /\ h.browser = req[r].browser /\ h.sent = req[r].sent
        /\ h.late = req[r].late /\ h.via = req[r].via /\ h.pc = "remove"
    BY <1>10, <2>1, <2>2 DEF Busy, Remove
  <2>5. req' = [req EXCEPT ![r] = h]
    BY <2>2
  <2> QED
    BY <2>3, <2>4, <2>5 DEF Proceeds, GoesOn
<1> QED
  BY <1>1, <1>2, <1>3, <1>4, <1>5, <1>6, <1>7, <1>8, <1>9, <1>10 DEF Serve

\* Any request that arrives holds what it was sent with.
LEMMA ArriveProceeds ==
  ASSUME TypeOK, NEW r \in Requests, NEW b \in Browsers, NEW u \in OptUser,
         NEW op \in {"init", "me", "patch", "login", "signup", "logout", "delete"},
         NEW pc \in {"cookie", "find"},
         Arrive(r, op, pc, b, u)
  PROVE  \E h \in Busy :
           /\ req' = [req EXCEPT ![r] = h]
           /\ h.op = op /\ h.pc = pc /\ h.browser = b /\ h.sent = jar[b] /\ h.user = u
           /\ h.late = (jar[b] \in ended) /\ h.via = NoCookie /\ h.id = NoProfile
           /\ h.family = {}
<1>1. PICK h : h = [op |-> op, pc |-> pc, browser |-> b, sent |-> jar[b],
                    late |-> jar[b] \in ended, via |-> NoCookie, id |-> NoProfile,
                    user |-> u, family |-> {}]
  OBVIOUS
<1>2. (jar[b] \in ended) \in BOOLEAN /\ jar[b] \in Cookies \cup {NoCookie}
  BY DEF TypeOK
<1>3. h \in Busy
  BY <1>1, <1>2 DEF Busy
<1>4. req' = [req EXCEPT ![r] = h]
  BY <1>1 DEF Arrive
<1> QED
  BY <1>1, <1>3, <1>4

\* Who arrives, and with what.
Arrives(r) ==
  \E b \in Browsers, u \in OptUser, pc \in {"cookie", "find"},
     op \in {"init", "me", "patch", "login", "signup", "logout", "delete"} :
    /\ Arrive(r, op, pc, b, u)
    /\ op = "logout" => jar[b] # NoCookie
    /\ session' \in [Browsers -> OptUser]

LEMMA HandleSteps ==
  ASSUME TypeOK, NEW r \in Requests, Handle(r)
  PROVE  Arrives(r) \/ Serve(r)
<1>1. ASSUME NEW b \in Browsers, Visit(r, b) PROVE Arrives(r)
  <2>1. session[b] \in OptUser
    BY DEF TypeOK
  <2> QED
    BY <1>1, <2>1 DEF Visit, Arrives, TypeOK
<1>2. ASSUME NEW b \in Browsers, LogOut(r, b) PROVE Arrives(r)
  <2>1. session[b] \in OptUser
    BY DEF TypeOK
  <2> QED
    BY <1>2, <2>1 DEF LogOut, Arrives, TypeOK
<1>3. ASSUME NEW b \in Browsers, NEW u \in Users, LogIn(r, b, u) PROVE Arrives(r)
  <2>1. u \in OptUser
    BY DEF OptUser
  <2>2. session' \in [Browsers -> OptUser]
    BY <1>3, <2>1 DEF LogIn, TypeOK
  <2> QED
    BY <1>3, <2>1, <2>2 DEF LogIn, Arrives
<1>4. ASSUME NEW u \in Users, DeleteUser(r, u) PROVE Arrives(r)
  <2>1. u \in OptUser
    BY DEF OptUser
  <2>2. (CHOOSE b \in Browsers : TRUE) \in Browsers
    BY SessionAssumption
  <2> QED
    BY <1>4, <2>1, <2>2 DEF DeleteUser, Arrives, TypeOK
<1> QED
  BY <1>1, <1>2, <1>3, <1>4 DEF Handle, Serve

\* What is known of a request by its kind: a termination came with a cookie, and only a
\* termination deactivates one.
HandlerInv ==
  \A r \in Requests :
    /\ req[r].op = "logout" => req[r].sent # NoCookie
    /\ req[r].pc \in {"owned", "deactivate"} => req[r].op = "logout"

LEMMA ArriveHandlers ==
  ASSUME TypeOK, HandlerInv, NEW r \in Requests, Arrives(r)
  PROVE  req' \in [Requests -> Handlers] /\ HandlerInv'
<1>1. PICK h \in Busy :
        /\ req' = [req EXCEPT ![r] = h]
        /\ h.op = "logout" => h.sent # NoCookie
        /\ h.pc \in {"cookie", "find"}
  BY ArriveProceeds DEF Arrives
<1>2. h \in Handlers
  BY DEF Busy, Handlers
<1>3. req' \in [Requests -> Handlers]
  BY <1>1, <1>2 DEF TypeOK
<1>4. \A q \in Requests : req'[q] = IF q = r THEN h ELSE req[q]
  BY <1>1 DEF TypeOK
<1> QED
  BY <1>1, <1>3, <1>4 DEF HandlerInv

LEMMA ServeHandlers ==
  ASSUME TypeOK, HandlerInv, NEW r \in Requests, Serve(r)
  PROVE  req' \in [Requests -> Handlers] /\ HandlerInv'
<1>1. PICK h \in Busy \cup {Free} :
        /\ req' = [req EXCEPT ![r] = h]
        /\ h = Free \/ (/\ h.op = req[r].op /\ h.sent = req[r].sent
                        /\ h.pc \in {"owned", "deactivate"} =>
                             h.op = "logout" \/ req[r].pc = "owned")
  BY ServeProceeds DEF Proceeds, GoesOn
<1>2. h \in Handlers
  BY DEF Busy, Handlers
<1>3. req' \in [Requests -> Handlers]
  BY <1>1, <1>2 DEF TypeOK
<1>4. \A q \in Requests : req'[q] = IF q = r THEN h ELSE req[q]
  BY <1>1 DEF TypeOK
<1>5. Free.op # "logout" /\ Free.pc \notin {"owned", "deactivate"}
  BY DEF Free
<1> QED
  BY <1>1, <1>3, <1>4, <1>5 DEF HandlerInv

LEMMA AnsweredSession ==
  ASSUME TypeOK, NEW r \in Requests, Answered(r)
  PROVE  session' \in [Browsers -> OptUser]
BY DEF Answered, TypeOK, OptUser

\* The master of a profile that is shown is a profile.
LEMMA ShownMaster ==
  ASSUME TypeOK, NEW p, Shown(p)
  PROVE  p \in Profiles /\ Master(p) \in Profiles /\ profile[p] = "live" /\ profile[Master(p)] = "live"
BY DEF Shown, Live

-----------------------------------------------------------------------------
(* Type correctness.                                                       *)

\* The steps of a request keep every variable's type.
LEMMA ServeTypes ==
  ASSUME TypeOK, HandlerInv, NEW r \in Requests, Serve(r)
  PROVE  TypeOK'
<1>0. req' \in [Requests -> Handlers]
  BY ServeHandlers
<1>1. CASE ReadCookie(r)
  <2>1. session' \in [Browsers -> OptUser]
    <3>1. CASE Answered(r)
      BY <3>1, AnsweredSession
    <3>2. CASE UNCHANGED session
      BY <3>2 DEF TypeOK
    <3> QED
      BY <1>1, <3>1, <3>2 DEF ReadCookie
  <2> QED
    BY <1>0, <1>1, <2>1 DEF ReadCookie, TypeOK, tables
<1>2. CASE Show(r) \/ Find(r) \/ Act(r) \/ Owned(r)
  <2>1. session' \in [Browsers -> OptUser]
    <3>1. CASE Answered(r)
      BY <3>1, AnsweredSession
    <3>2. CASE UNCHANGED session
      BY <3>2 DEF TypeOK
    <3> QED
      BY <1>2, <3>1, <3>2 DEF Show, Find, Act, Owned
  <2> QED
    BY <1>0, <1>2, <2>1 DEF Show, Find, Act, Owned, TypeOK, tables
<1>3. CASE CreateProfile(r)
  <2>1. profile' \in [Profiles -> {"unused", "live", "gone"}]
    BY <1>3 DEF CreateProfile, TypeOK
  <2> QED
    BY <1>0, <1>3, <2>1 DEF CreateProfile, TypeOK
<1>4. CASE InsertCookie(r)
  <2>1. session' \in [Browsers -> OptUser]
    BY <1>4, AnsweredSession DEF InsertCookie
  <2>2. Min(Unused(cookie)) \in Cookies
    BY <1>4, NextCookie DEF InsertCookie
  <2>3. /\ cookie' \in [Cookies -> {"unused", "active", "inactive", "gone"}]
        /\ of' \in [Cookies -> Profiles \cup {NoProfile}]
        /\ jar' \in [Browsers -> Cookies \cup {NoCookie}]
    BY <1>4, <2>2 DEF InsertCookie, TypeOK, Live
  <2> QED
    BY <1>0, <1>4, <2>1, <2>3 DEF InsertCookie, TypeOK
<1>5. CASE Write(r)
  <2>1. session' \in [Browsers -> OptUser]
    BY <1>5, AnsweredSession DEF Write
  <2>2. user' \in [Profiles -> OptUser] /\ queue' \in Seq(Profiles)
    <3>1. req[r] \in Busy
      BY <1>5, AtWork DEF Write
    <3>2. req[r].user \in OptUser
      BY <3>1 DEF Busy
    <3>3. CASE Shown(req[r].id)
      <4>1. Master(req[r].id) \in Profiles
        BY <3>3, ShownMaster
      <4>2. user' = [user EXCEPT ![Master(req[r].id)] = req[r].user]
            /\ queue' = Append(queue, Master(req[r].id))
        BY <1>5, <3>3 DEF Write
      <4>3. user' \in [Profiles -> OptUser]
        BY <3>2, <4>2 DEF TypeOK
      <4>4. queue' \in Seq(Profiles)
        BY <4>1, <4>2, AppendProperties DEF TypeOK
      <4> QED
        BY <4>3, <4>4
    <3>4. CASE ~Shown(req[r].id)
      BY <1>5, <3>4 DEF Write, TypeOK
    <3> QED
      BY <3>3, <3>4
  <2> QED
    BY <1>0, <1>5, <2>1, <2>2 DEF Write, TypeOK
<1>6. CASE Deactivate(r)
  <2>1. session' \in [Browsers -> OptUser]
    BY <1>6, AnsweredSession DEF Deactivate
  <2>2. req[r].sent \in Cookies
    <3>1. req[r] \in Busy
      BY <1>6, AtWork DEF Deactivate
    <3> QED
      BY <1>6, <3>1 DEF Deactivate, HandlerInv, Busy
  <2>3. /\ cookie' \in [Cookies -> {"unused", "active", "inactive", "gone"}]
        /\ ended' \subseteq Cookies
    BY <1>6, <2>2 DEF Deactivate, TypeOK
  <2> QED
    BY <1>0, <1>6, <2>1, <2>3 DEF Deactivate, TypeOK
<1>7. CASE Remove(r)
  <2>1. session' \in [Browsers -> OptUser]
    <3>1. CASE Answered(r)
      BY <3>1, AnsweredSession
    <3>2. CASE UNCHANGED session
      BY <3>2 DEF TypeOK
    <3> QED
      BY <1>7, <3>1, <3>2 DEF Remove
  <2>2. /\ profile' \in [Profiles -> {"unused", "live", "gone"}]
        /\ user' \in [Profiles -> OptUser]
        /\ parent' \in [Profiles -> Profiles \cup {NoProfile}]
        /\ cookie' \in [Cookies -> {"unused", "active", "inactive", "gone"}]
    BY <1>7 DEF Remove, TypeOK, OptUser
  <2> QED
    BY <1>0, <1>7, <2>1, <2>2 DEF Remove, TypeOK
<1>8. CASE RequestFails(r)
  <2>1. session' \in [Browsers -> OptUser]
    BY <1>8, AnsweredSession DEF RequestFails
  <2>2. crossed' \in BOOLEAN
    BY <1>8 DEF RequestFails
  <2> QED
    BY <1>0, <1>8, <2>1, <2>2 DEF RequestFails, TypeOK, tables
<1> QED
  BY <1>1, <1>2, <1>3, <1>4, <1>5, <1>6, <1>7, <1>8 DEF Serve

LEMMA ArriveTypes ==
  ASSUME TypeOK, HandlerInv, NEW r \in Requests, Arrives(r)
  PROVE  TypeOK'
<1>1. req' \in [Requests -> Handlers]
  BY ArriveHandlers
<1>2. PICK b \in Browsers, u \in OptUser, pc \in {"cookie", "find"},
           op \in {"init", "me", "patch", "login", "signup", "logout", "delete"} :
        Arrive(r, op, pc, b, u) /\ session' \in [Browsers -> OptUser]
  BY DEF Arrives
<1>3. crossed' \in BOOLEAN /\ left' \in 0..Arrivals
  BY <1>2, SessionAssumption DEF Arrive, TypeOK
<1> QED
  BY <1>1, <1>2, <1>3 DEF Arrive, TypeOK, tables

LEMMA WorkerTypes ==
  ASSUME TypeOK, Unify \/ SweepBatch
  PROVE  TypeOK'
<1>1. CASE Unify
  <2>1. queue' \in Seq(Profiles) /\ Head(queue) \in Profiles
    BY <1>1, HeadTailProperties DEF Unify, TypeOK
  <2>2. parent' \in [Profiles -> Profiles \cup {NoProfile}]
    <3>1. \A u : \A q \in ReferencesOf(u) \ {Head(queue)} : q \in Profiles
      BY DEF ReferencesOf, Live
    <3>2. CASE UNCHANGED parent
      BY <3>2 DEF TypeOK
    <3>3. CASE \E q \in Profiles : parent' = [parent EXCEPT ![Head(queue)] = q]
      BY <3>3 DEF TypeOK
    <3> QED
      BY <1>1, <3>1, <3>2, <3>3 DEF Unify
  <2> QED
    BY <1>1, <2>1, <2>2 DEF Unify, TypeOK
<1>2. CASE SweepBatch
  <2>1. cookie' \in [Cookies -> {"unused", "active", "inactive", "gone"}]
    BY <1>2 DEF SweepBatch, TypeOK
  <2>2. sweep' \in {"over", "next"}
    BY <1>2 DEF SweepBatch
  <2> QED
    BY <1>2, <2>1, <2>2 DEF SweepBatch, TypeOK
<1> QED
  BY <1>1, <1>2

LEMMA TypeStep ==
  ASSUME TypeOK, HandlerInv, [Next]_vars
  PROVE  TypeOK' /\ HandlerInv'
<1>1. ASSUME NEW r \in Requests, Handle(r) PROVE TypeOK' /\ HandlerInv'
  BY <1>1, HandleSteps, ArriveHandlers, ArriveTypes, ServeHandlers, ServeTypes
<1>2. CASE Unify \/ SweepBatch
  BY <1>2, WorkerTypes DEF Unify, SweepBatch, HandlerInv
<1>3. CASE UNCHANGED vars
  BY <1>3 DEF vars, tables, TypeOK, HandlerInv
<1> QED
  BY <1>1, <1>2, <1>3 DEF Next

LEMMA InitTypes ==
  ASSUME Init
  PROVE  TypeOK /\ HandlerInv
<1>1. \A p \in Range(Visited) : p \in Profiles \cap Cookies /\ \E b \in Browsers : Visited[b] = p
  BY SessionAssumption DEF Range
<1>2. \A p \in Range(Visited) : LoggedIn[CHOOSE b \in Browsers : Visited[b] = p] \in OptUser
  BY <1>1, SessionAssumption
<1>3. /\ profile \in [Profiles -> {"unused", "live", "gone"}]
      /\ parent \in [Profiles -> Profiles \cup {NoProfile}]
      /\ cookie \in [Cookies -> {"unused", "active", "inactive", "gone"}]
      /\ sweep \in {"over", "next"} /\ crossed \in BOOLEAN
  BY DEF Init
<1>4. user \in [Profiles -> OptUser]
  BY <1>2 DEF Init, OptUser
<1>5. of \in [Cookies -> Profiles \cup {NoProfile}]
  BY <1>1 DEF Init
<1>6. /\ jar \in [Browsers -> Cookies \cup {NoCookie}] /\ session \in [Browsers -> OptUser]
      /\ ended \subseteq Cookies /\ left \in 0..Arrivals
  BY SessionAssumption DEF Init
<1>7. queue \in Seq(Profiles)
  BY DEF Init
<1>8. req \in [Requests -> Handlers] /\ \A r \in Requests : req[r] = Free
  BY DEF Init, Handlers
<1>9. HandlerInv
  BY <1>8 DEF HandlerInv, Free
<1> QED
  BY <1>3, <1>4, <1>5, <1>6, <1>7, <1>8, <1>9 DEF TypeOK

LEMMA TypesInvariant == Spec => [](TypeOK /\ HandlerInv)
BY InitTypes, TypeStep, PTL DEF Spec

\* Every variable keeps its type, for every value of the constants; in particular a
\* termination marks a cookie as ended and nothing else.
THEOREM TypeCorrect == Spec => []TypeOK
BY TypesInvariant, PTL

-----------------------------------------------------------------------------
(***************************************************************************)
(* Cookies of sessions that have ended.                                    *)
(***************************************************************************)

\* What a browser or a request holds is a cookie that was handed out.
UsedInv ==
  /\ \A b \in Browsers : jar[b] # NoCookie => cookie[jar[b]] # "unused"
  /\ \A r \in Requests : req[r] # Free /\ req[r].sent # NoCookie => cookie[req[r].sent] # "unused"

\* A cookie that a termination has deactivated is never active again.
EndedInv == \A c \in ended : cookie[c] \in {"inactive", "gone"}

\* A late request came with such a cookie; one that has its profile from a cookie did not.
LateInv ==
  \A r \in Requests : req[r] # Free =>
    /\ req[r].late => req[r].sent \in ended
    /\ req[r].via # NoCookie => ~req[r].late

SessionInv == UsedInv /\ EndedInv /\ LateInv

\* What a step may make of the cookies: none becomes unused or active again, and at most
\* one more has ended, which is not active and was not unused.
CookiesMove ==
  /\ \A c \in Cookies :
       /\ cookie[c] # "unused" => cookie'[c] # "unused"
       /\ cookie[c] \in {"inactive", "gone"} => cookie'[c] \in {"inactive", "gone"}
  /\ ended \subseteq ended'
  /\ \A c \in ended' \ ended : cookie'[c] \in {"inactive", "gone"}
  /\ \A b \in Browsers : jar'[b] # jar[b] => jar'[b] \in Cookies /\ cookie'[jar'[b]] # "unused"

LEMMA ServeCookies ==
  ASSUME TypeOK, HandlerInv, SessionInv, NEW r \in Requests, Serve(r)
  PROVE  CookiesMove
<1>1. CASE UNCHANGED <<cookie, jar, ended>>
  BY <1>1 DEF CookiesMove
<1>2. CASE ReadCookie(r) \/ Show(r) \/ Find(r) \/ Act(r) \/ Owned(r) \/ RequestFails(r)
  BY <1>1, <1>2 DEF ReadCookie, Show, Find, Act, Owned, RequestFails, tables
<1>3. CASE CreateProfile(r) \/ Write(r)
  BY <1>1, <1>3 DEF CreateProfile, Write
<1>4. CASE InsertCookie(r)
  <2>1. PICK c \in Cookies :
          /\ cookie[c] = "unused"
          /\ \/ UNCHANGED <<cookie, jar>>
             \/ /\ cookie' = [cookie EXCEPT ![c] = "active"]
                /\ jar' = [jar EXCEPT ![req[r].browser] = c]
    BY <1>4, NextCookie DEF InsertCookie
  <2> QED
    BY <1>4, <2>1 DEF InsertCookie, CookiesMove, TypeOK
<1>5. CASE Deactivate(r)
  <2>1. req[r] \in Busy /\ req[r] # Free
    BY <1>5, AtWork DEF Deactivate
  <2>2. req[r].sent \in Cookies /\ cookie[req[r].sent] # "unused"
    BY <1>5, <2>1 DEF Deactivate, HandlerInv, Busy, SessionInv, UsedInv
  <2> QED
    BY <1>5, <2>2 DEF Deactivate, CookiesMove, TypeOK, ActiveCookies
<1>6. CASE Remove(r)
  <2>1. \A c \in Cookies : cookie'[c] \in {cookie[c], "gone"}
    BY <1>6 DEF Remove
  <2> QED
    BY <1>6, <2>1 DEF Remove, CookiesMove
<1> QED
  BY <1>2, <1>3, <1>4, <1>5, <1>6 DEF Serve

LEMMA CookiesKept ==
  ASSUME TypeOK, TypeOK', SessionInv, CookiesMove,
         \A r \in Requests : req'[r] # Free =>
           \/ /\ req[r] # Free /\ req'[r].sent = req[r].sent /\ req'[r].late = req[r].late
              /\ \/ req'[r].via = req[r].via
                 \/ req'[r].via = req[r].sent /\ req[r].sent \in ActiveCookies
           \/ \E b \in Browsers :
                /\ req'[r].sent = jar[b] /\ req'[r].late = (jar[b] \in ended)
                /\ req'[r].via = NoCookie
  PROVE  SessionInv'
<1>1. \A c \in Cookies : c \in ended => c \in ended' /\ cookie[c] \in {"inactive", "gone"}
  BY DEF SessionInv, EndedInv, CookiesMove
<1>2. EndedInv'
  <2>1. ASSUME NEW c \in ended' PROVE cookie'[c] \in {"inactive", "gone"}
    <3>1. CASE c \in ended
      <4>1. c \in Cookies /\ cookie[c] \in {"inactive", "gone"}
        BY <3>1 DEF SessionInv, EndedInv, TypeOK
      <4> QED
        BY <4>1 DEF CookiesMove
    <3>2. CASE c \notin ended
      BY <3>2 DEF CookiesMove
    <3> QED
      BY <3>1, <3>2
  <2> QED
    BY <2>1 DEF EndedInv
<1>3. \A b \in Browsers : jar[b] \in Cookies \cup {NoCookie}
  BY DEF TypeOK
<1>4. ASSUME NEW r \in Requests, req[r] # Free
      PROVE  req[r].sent \in Cookies \cup {NoCookie} /\ req[r].late \in BOOLEAN
  BY <1>4, AtWork DEF Busy
<1>5. UsedInv'
  <2>1. ASSUME NEW b \in Browsers, jar'[b] # NoCookie PROVE cookie'[jar'[b]] # "unused"
    <3>1. CASE jar'[b] = jar[b]
      BY <2>1, <3>1, <1>3 DEF SessionInv, UsedInv, CookiesMove
    <3>2. CASE jar'[b] # jar[b]
      BY <3>2 DEF CookiesMove
    <3> QED
      BY <3>1, <3>2
  <2>2. ASSUME NEW r \in Requests, req'[r] # Free, req'[r].sent # NoCookie
        PROVE  cookie'[req'[r].sent] # "unused"
    <3>1. CASE req[r] # Free /\ req'[r].sent = req[r].sent
      <4>1. req[r].sent \in Cookies /\ cookie[req[r].sent] # "unused"
        BY <2>2, <3>1, <1>4 DEF SessionInv, UsedInv
      <4> QED
        BY <3>1, <4>1 DEF CookiesMove
    <3>2. ASSUME NEW b \in Browsers, req'[r].sent = jar[b] PROVE cookie'[req'[r].sent] # "unused"
      <4>1. jar[b] \in Cookies /\ cookie[jar[b]] # "unused"
        BY <2>2, <3>2, <1>3 DEF SessionInv, UsedInv
      <4> QED
        BY <3>2, <4>1 DEF CookiesMove
    <3> QED
      BY <2>2, <3>1, <3>2
  <2> QED
    BY <2>1, <2>2 DEF UsedInv
<1>6. ASSUME NEW r \in Requests, req'[r] # Free
      PROVE  /\ req'[r].late => req'[r].sent \in ended'
             /\ req'[r].via # NoCookie => ~req'[r].late
  <2>1. CASE \E b \in Browsers :
                /\ req'[r].sent = jar[b] /\ req'[r].late = (jar[b] \in ended)
                /\ req'[r].via = NoCookie
    BY <2>1 DEF CookiesMove
  <2>2. CASE /\ req[r] # Free /\ req'[r].sent = req[r].sent /\ req'[r].late = req[r].late
             /\ \/ req'[r].via = req[r].via
                \/ req'[r].via = req[r].sent /\ req[r].sent \in ActiveCookies
    <3>1. req[r].sent \in ActiveCookies => req[r].sent \notin ended
      BY DEF ActiveCookies, SessionInv, EndedInv
    <3> QED
      BY <2>2, <3>1 DEF SessionInv, LateInv, CookiesMove
  <2> QED
    BY <1>6, <2>1, <2>2
<1> QED
  BY <1>2, <1>5, <1>6 DEF SessionInv, LateInv

LEMMA SessionStep ==
  ASSUME TypeOK, HandlerInv, SessionInv, [Next]_vars
  PROVE  SessionInv'
<1>0. TypeOK'
  BY TypeStep
<1>1. ASSUME NEW r \in Requests, Serve(r) PROVE SessionInv'
  <2>1. PICK h \in Busy \cup {Free} :
          /\ req' = [req EXCEPT ![r] = h]
          /\ h = Free \/ (/\ h.sent = req[r].sent /\ h.late = req[r].late
                          /\ \/ h.via = req[r].via
                             \/ h.via = req[r].sent /\ req[r].sent \in ActiveCookies)
    BY <1>1, ServeProceeds DEF Proceeds, GoesOn
  <2>2. \A q \in Requests : req'[q] = IF q = r THEN h ELSE req[q]
    BY <2>1 DEF TypeOK
  <2>3. req[r] # Free
    BY <1>1, AtWork DEF Serve, ReadCookie, Show, CreateProfile, InsertCookie, Find, Act, Write,
                         Owned, Deactivate, Remove, RequestFails
  <2> QED
    BY <1>0, <1>1, <2>1, <2>2, <2>3, ServeCookies, CookiesKept
<1>2. ASSUME NEW r \in Requests, Arrives(r) PROVE SessionInv'
  <2>1. PICK b \in Browsers, h \in Busy :
          /\ req' = [req EXCEPT ![r] = h]
          /\ h.sent = jar[b] /\ h.late = (jar[b] \in ended) /\ h.via = NoCookie
    BY <1>2, ArriveProceeds DEF Arrives
  <2>2. \A q \in Requests : req'[q] = IF q = r THEN h ELSE req[q]
    BY <2>1 DEF TypeOK
  <2>3. CookiesMove
    BY <1>2 DEF Arrives, Arrive, CookiesMove, tables
  <2>4. /\ req'[r].sent = jar[b] /\ req'[r].late = (jar[b] \in ended)
        /\ req'[r].via = NoCookie
    BY <2>1, <2>2
  <2>5. \A q \in Requests : q # r => req'[q] = req[q]
    BY <2>2
  <2> QED
    BY <1>0, <2>3, <2>4, <2>5, CookiesKept
<1>3. CASE Unify \/ SweepBatch
  <2>1. \A c \in Cookies : cookie'[c] \in {cookie[c], "gone"}
    BY <1>3 DEF Unify, SweepBatch
  <2>2. CookiesMove /\ UNCHANGED req
    BY <1>3, <2>1 DEF Unify, SweepBatch, CookiesMove
  <2>3. \A r \in Requests : req'[r] = req[r]
    BY <2>2
  <2> QED
    BY <1>0, <2>2, <2>3, CookiesKept
<1>4. CASE UNCHANGED vars
  <2>1. CookiesMove /\ UNCHANGED req
    BY <1>4 DEF vars, tables, CookiesMove
  <2>2. \A r \in Requests : req'[r] = req[r]
    BY <2>1
  <2> QED
    BY <1>0, <2>1, <2>2, CookiesKept
<1> QED
  BY <1>1, <1>2, <1>3, <1>4, HandleSteps DEF Next

LEMMA SessionInvariant == Spec => []SessionInv
<1>1. Init => SessionInv
  <2>1. ASSUME Init PROVE UsedInv
    <3>1. \A b \in Browsers : jar[b] \in Cookies /\ jar[b] \in Range(Visited)
      BY <2>1, SessionAssumption DEF Init, Range
    <3>2. \A r \in Requests : req[r] = Free
      BY <2>1 DEF Init
    <3> QED
      BY <2>1, <3>1, <3>2 DEF Init, UsedInv
  <2>2. ASSUME Init PROVE EndedInv /\ LateInv
    BY <2>2 DEF Init, EndedInv, LateInv
  <2> QED
    BY <2>1, <2>2 DEF SessionInv
<1> QED
  BY <1>1, SessionStep, TypesInvariant, PTL DEF Spec

\* A request that arrives after the termination of a session was carried out does not act
\* on the profile of that session's cookie, whatever is read, merged, deleted or swept
\* meanwhile, and whichever calls fail.
THEOREM LogoutSafety == Spec => []NoUseAfterLogout
<1>1. SessionInv => NoUseAfterLogout
  BY DEF SessionInv, LateInv, NoUseAfterLogout
<1> QED
  BY <1>1, SessionInvariant, PTL

-----------------------------------------------------------------------------
(***************************************************************************)
(* Requests that write one after the other.  As long as no two of them     *)
(* have overlapped and none has failed:                                    *)
(***************************************************************************)

\* A writer is alone, and the worker has done what the one before it has caused.
OneWriter ==
  /\ \A q, r \in Requests : req[q].op \in Writers /\ req[r].op \in Writers => q = r
  /\ queue # <<>> => Len(queue) = 1 /\ \A r \in Requests : req[r].op \notin Writers

\* Rows are merged one deep, into a reference profile that has a user.
Merged ==
  /\ \A p \in Profiles : profile[p] # "live" => user[p] = NoUser /\ parent[p] = NoProfile
  /\ \A p \in Profiles : parent[p] # NoProfile =>
       /\ profile[parent[p]] = "live" /\ parent[parent[p]] = NoProfile
       /\ user[parent[p]] # NoUser

\* Two reference profiles of one user await their job, and one that has children is in no
\* need of it.
OneReference ==
  /\ \A u \in Users : \A p, q \in ReferencesOf(u) :
       p # q => queue # <<>> /\ Head(queue) \in {p, q}
  /\ queue # <<>> /\ Children(Head(queue)) # {} =>
       ReferencesOf(user[Head(queue)]) \subseteq {Head(queue)}

\* An active cookie is the only one of a live profile; of the user who is logged in where it
\* is, if of any.
Leads(c, u) == c \in ActiveCookies => SessionUser(c) \in {NoUser, u}

OneCookie ==
  /\ \A c \in Cookies : of[c] # NoProfile => profile[of[c]] # "unused"
  /\ \A c \in ActiveCookies : of[c] \in Live
  /\ \A c, d \in ActiveCookies : of[c] = of[d] => c = d
  /\ \A b, d \in Browsers : jar[b] = jar[d] /\ jar[b] # NoCookie => b = d
  /\ \A b \in Browsers : jar[b] # NoCookie => Leads(jar[b], session[b])

\* The steps of each kind of request.
Steps(op) ==
  CASE op = "init"   -> {"cookie", "show", "create", "insert"}
    [] op = "me"     -> {"cookie", "find", "act"}
    [] op = "patch"  -> {"cookie", "find", "act", "write"}
    [] op = "login"  -> {"cookie", "show", "find", "write"}
    [] op = "signup" -> {"cookie", "show", "write"}
    [] op = "logout" -> {"find", "owned", "deactivate"}
    [] op = "delete" -> {"find", "remove"}

\* A profile that was created and has no cookie yet.
Fresh(p) ==
  /\ p \in Profiles /\ profile[p] # "unused"
  /\ user[p] = NoUser /\ parent[p] = NoProfile /\ \A c \in Cookies : of[c] # p

\* A family that was found is still the family.
Found(r) ==
  /\ req[r].id \in Live /\ parent[req[r].id] = NoProfile
  /\ req[r].family = {req[r].id} \cup Children(req[r].id)

\* What a request knows at the step it is at.
Knows(r) ==
  /\ req[r].pc \in Steps(req[r].op)
  /\ \A b \in Browsers : jar[b] # NoCookie /\ jar[b] = req[r].sent => b = req[r].browser
  /\ req[r].pc = "insert" => Fresh(req[r].id)
  /\ req[r].op \in {"login", "signup"} =>
       /\ req[r].user \in Users /\ session[req[r].browser] = req[r].user
       /\ req[r].sent # NoCookie => Leads(req[r].sent, req[r].user)
       /\ req[r].pc # "cookie" => req[r].sent \in ActiveCookies /\ req[r].id = of[req[r].sent]
  /\ req[r].op = "patch" /\ req[r].pc = "write" => req[r].user = user[Master(req[r].id)]
  /\ req[r].op = "logout" =>
       /\ req[r].user \in Users /\ session[req[r].browser] = req[r].user
       /\ jar[req[r].browser] # req[r].sent => Leads(jar[req[r].browser], NoUser)
       /\ req[r].pc # "find" => Found(r) /\ user[req[r].id] = req[r].user
  /\ req[r].op = "delete" =>
       /\ req[r].user \in Users
       /\ req[r].pc # "find" => Found(r)

Known == \A r \in Requests : req[r] # Free => Knows(r)

FreshDiffer ==
  \A q, r \in Requests :
    req[q].pc = "insert" /\ req[r].pc = "insert" /\ req[q].id = req[r].id => q = r

Orderly == OneWriter /\ Merged /\ OneReference /\ OneCookie /\ Known /\ FreshDiffer

\* The rows that a writer at its last statement may change: it writes its profile's user back,
\* or gives a profile that has none, and no children, the user who has logged in.
LEMMA WriteChanges ==
  ASSUME TypeOK, Orderly, NEW r \in Requests, Write(r)
  PROVE  /\ req[r] \in Busy /\ req[r].op \in Writers /\ queue = <<>>
         /\ Shown(req[r].id) => parent[Master(req[r].id)] = NoProfile
         /\ \/ UNCHANGED user
            \/ /\ Shown(req[r].id) /\ Master(req[r].id) = req[r].id
               /\ user' = [user EXCEPT ![req[r].id] = req[r].user]
               /\ user[req[r].id] = NoUser /\ req[r].user \in Users
               /\ Children(req[r].id) = {}
               /\ req[r].sent \in ActiveCookies /\ req[r].id = of[req[r].sent]
               /\ session[req[r].browser] = req[r].user
<1> DEFINE x == req[r].id
           m == Master(x)
<1>1. req[r] \in Busy /\ req[r] # Free /\ Knows(r) /\ req[r].pc = "write"
  BY AtWork DEF Write, Orderly, Known
<1>2. req[r].op \in {"patch", "login", "signup"}
  BY <1>1 DEF Knows, Steps, Busy
<1>3. queue = <<>>
  BY <1>2 DEF Orderly, OneWriter, Writers
<1>4. CASE ~Shown(x)
  BY <1>1, <1>2, <1>3, <1>4 DEF Write, Writers
<1>5. CASE Shown(x)
  <2>1. x \in Profiles /\ m \in Profiles /\ profile[x] = "live" /\ profile[m] = "live"
    BY <1>5, ShownMaster
  <2>2. parent[m] = NoProfile
    BY <2>1 DEF Master, Orderly, Merged
  <2>3. user' = [user EXCEPT ![m] = req[r].user]
    BY <1>5 DEF Write
  <2>4. CASE req[r].user = user[m]
    <3>1. UNCHANGED user
      BY <2>3, <2>4 DEF TypeOK
    <3> QED
      BY <1>1, <1>2, <1>3, <2>2, <3>1 DEF Writers
  <2>5. CASE req[r].user # user[m]
    <3>1. req[r].op \in {"login", "signup"}
      BY <1>1, <1>2, <2>5 DEF Knows
    <3>2. /\ req[r].user \in Users /\ session[req[r].browser] = req[r].user
          /\ req[r].sent \in ActiveCookies /\ x = of[req[r].sent]
      BY <1>1, <3>1 DEF Knows
    <3>3. req[r].sent # NoCookie
      BY <3>2 DEF ActiveCookies, Cookies, NoCookie
    <3>4. user[m] = NoUser
      BY <1>1, <2>5, <3>1, <3>2, <3>3 DEF Knows, Leads, SessionUser
    <3>5. \A y \in Profiles : parent[y] # m
      BY <2>1, <3>4 DEF Orderly, Merged, Profiles, NoProfile
    <3>6. m = x
      BY <2>1, <3>5 DEF Master
    <3>7. Children(x) = {}
      BY <3>5, <3>6 DEF Children
    <3> QED
      BY <1>1, <1>2, <1>3, <1>5, <2>2, <2>3, <3>2, <3>4, <3>6, <3>7 DEF Writers
  <2> QED
    BY <2>4, <2>5
<1> QED
  BY <1>4, <1>5

\* What a deletion takes next is the last of its family, or a child.
LEMMA RemoveTakes ==
  ASSUME TypeOK, Orderly, NEW r \in Requests, Remove(r)
  PROVE  /\ req[r] \in Busy /\ req[r].op = "delete" /\ queue = <<>> /\ Found(r)
         /\ \E p \in Live :
              /\ p \in req[r].family /\ Children(p) = {}
              /\ p # req[r].id => parent[p] = req[r].id
              /\ profile' = [profile EXCEPT ![p] = "gone"]
              /\ user' = [user EXCEPT ![p] = NoUser]
              /\ parent' = [parent EXCEPT ![p] = NoProfile]
              /\ cookie' = [c \in Cookies |-> IF of[c] = p THEN "gone" ELSE cookie[c]]
              /\ IF p = req[r].id THEN Answered(r)
                 ELSE req' = [req EXCEPT ![r].family = @ \ {p}] /\ UNCHANGED session
<1>1. req[r] \in Busy /\ req[r] # Free /\ Knows(r) /\ req[r].pc = "remove"
  BY AtWork DEF Remove, Orderly, Known
<1>2. req[r].op = "delete"
  BY <1>1 DEF Knows, Steps, Busy
<1>3. queue = <<>> /\ Found(r)
  BY <1>1, <1>2 DEF Orderly, OneWriter, Writers, Knows
<1>4. PICK p \in IF req[r].family = {req[r].id} THEN {req[r].id} ELSE req[r].family \ {req[r].id} :
         /\ profile' = [profile EXCEPT ![p] = "gone"]
         /\ user' = [user EXCEPT ![p] = NoUser]
         /\ parent' = [parent EXCEPT ![p] = NoProfile]
         /\ cookie' = [c \in Cookies |-> IF of[c] = p THEN "gone" ELSE cookie[c]]
         /\ IF p = req[r].id THEN Answered(r)
            ELSE req' = [req EXCEPT ![r].family = @ \ {p}] /\ UNCHANGED session
  BY DEF Remove
<1>5. NoProfile \notin Profiles
  BY DEF NoProfile, Profiles
<1>6. CASE p = req[r].id
  <2>1. req[r].family = {p}
    BY <1>4, <1>6
  <2>2. Children(p) = {}
    <3> SUFFICES ASSUME NEW y \in Children(p) PROVE FALSE
      OBVIOUS
    <3>1. y = p /\ parent[p] = p
      BY <1>3, <1>6, <2>1 DEF Found, Children
    <3> QED
      BY <1>3, <1>5, <1>6, <3>1 DEF Found, Live
  <2>3. p \in Live
    BY <1>3, <1>6 DEF Found
  <2> QED
    BY <1>1, <1>2, <1>3, <1>4, <1>6, <2>1, <2>2, <2>3
<1>7. CASE p # req[r].id
  <2>1. p \in Profiles /\ parent[p] = req[r].id
    BY <1>3, <1>4, <1>7 DEF Found, Children
  <2>2. parent[p] # NoProfile
    BY <1>3, <1>5, <2>1 DEF Found, Live
  <2>3. Children(p) = {}
    BY <1>5, <2>1, <2>2 DEF Children, Orderly, Merged
  <2>4. p \in Live
    BY <2>1, <2>2 DEF Orderly, Merged, Live
  <2>5. p \in req[r].family
    BY <1>4, <1>7
  <2> QED
    BY <1>1, <1>2, <1>3, <1>4, <1>7, <2>1, <2>3, <2>4, <2>5
<1> QED
  BY <1>6, <1>7

\* A job merges its profile into the only other of its user, or has nothing to do.
LEMMA UnifyMerges ==
  ASSUME TypeOK, Orderly, Unify
  PROVE  /\ queue' = <<>> /\ queue # <<>> /\ \A r \in Requests : req[r].op \notin Writers
         /\ UNCHANGED <<profile, user, cookie, of, jar, session, req>>
         /\ \/ /\ UNCHANGED parent
               /\ \A u \in Users : \A p, q \in ReferencesOf(u) : p = q
            \/ \E p, q \in Live :
                 /\ p # q /\ parent' = [parent EXCEPT ![p] = q]
                 /\ parent[p] = NoProfile /\ parent[q] = NoProfile /\ user[p] = user[q]
                 /\ user[p] \in Users /\ Children(p) = {}
                 /\ \A u \in Users : \A k, l \in ReferencesOf(u) : k # l => p \in {k, l}
<1> DEFINE p == Head(queue)
<1>1. queue # <<>> /\ Len(queue) = 1 /\ \A r \in Requests : req[r].op \notin Writers
  BY DEF Unify, Orderly, OneWriter
<1>2. p \in Profiles
  BY <1>1, HeadTailProperties DEF TypeOK
<1>3. queue' = <<>>
  <2>1. Tail(queue) \in Seq(Profiles) /\ Len(Tail(queue)) = 0
    BY <1>1, HeadTailProperties DEF TypeOK
  <2>2. Tail(queue) = <<>>
    BY <2>1, EmptySeq
  <2> QED
    BY <2>2 DEF Unify
<1>4. \A u \in Users : \A k, l \in ReferencesOf(u) : k # l => p \in {k, l}
  BY DEF Orderly, OneReference
<1> HIDE DEF p
<1>5. PICK others : /\ others = IF p \in Live /\ parent[p] = NoProfile /\ user[p] # NoUser
                                THEN ReferencesOf(user[p]) \ {p} ELSE {}
                    /\ \/ others = {} /\ UNCHANGED parent
                       \/ \E q \in others : parent' = [parent EXCEPT ![p] = q]
  BY DEF Unify, p
<1>6. CASE others = {} /\ UNCHANGED parent
  <2>1. ASSUME NEW u \in Users, NEW k \in ReferencesOf(u), NEW l \in ReferencesOf(u), k # l
        PROVE  FALSE
    <3>1. p \in ReferencesOf(u)
      BY <1>4, <2>1
    <3>2. p \in Live /\ parent[p] = NoProfile /\ user[p] = u /\ u # NoUser
      BY <3>1, SessionAssumption DEF ReferencesOf
    <3>3. ReferencesOf(u) \ {p} = {}
      BY <1>5, <1>6, <3>2
    <3> QED
      BY <2>1, <3>3
  <2> QED
    BY <1>1, <1>3, <1>6, <2>1 DEF Unify
<1>7. ASSUME NEW q \in others, parent' = [parent EXCEPT ![p] = q]
      PROVE  \E k, l \in Live :
                 /\ k # l /\ parent' = [parent EXCEPT ![k] = l]
                 /\ parent[k] = NoProfile /\ parent[l] = NoProfile /\ user[k] = user[l]
                 /\ user[k] \in Users /\ Children(k) = {}
                 /\ \A u \in Users : \A i, j \in ReferencesOf(u) : i # j => k \in {i, j}
  <2>1. p \in Live /\ parent[p] = NoProfile /\ user[p] # NoUser /\ q \in ReferencesOf(user[p]) \ {p}
    BY <1>5, <1>7
  <2>2. user[p] \in Users
    BY <1>2, <2>1 DEF TypeOK, OptUser
  <2>3. q \in Live /\ parent[q] = NoProfile /\ user[q] = user[p] /\ q # p
    BY <2>1 DEF ReferencesOf
  <2>4. Children(p) = {}
    BY <1>1, <2>1 DEF Orderly, OneReference, p
  <2> QED
    BY <1>4, <1>7, <2>1, <2>2, <2>3, <2>4
<1> QED
  BY <1>1, <1>3, <1>5, <1>6, <1>7 DEF Unify

\* Who is at work after a step, and what waits for the worker.
LEMMA OneWriterStep ==
  ASSUME TypeOK, TypeOK', HandlerInv, Orderly, Next, ~crossed'
  PROVE  OneWriter'
<1>1. Free.op \notin Writers
  BY DEF Free, Writers
<1>2. ASSUME NEW r \in Requests, Serve(r) PROVE OneWriter'
  <2>1. PICK h \in Busy \cup {Free} :
          /\ req' = [req EXCEPT ![r] = h]
          /\ h = Free \/ h.op = req[r].op
    BY <1>2, ServeProceeds DEF Proceeds, GoesOn
  <2>2. \A q \in Requests : req'[q] = IF q = r THEN h ELSE req[q]
    BY <2>1 DEF TypeOK
  <2>3. \A q \in Requests : req'[q].op \in Writers => req[q].op \in Writers
    BY <1>1, <2>1, <2>2
  <2>4. CASE queue' = queue
    BY <2>3, <2>4 DEF Orderly, OneWriter
  <2>5. CASE Write(r)
    <3>1. queue = <<>> /\ req[r].op \in Writers
      BY <2>5, WriteChanges
    <3>2. \A q \in Requests : req'[q].op \notin Writers
      <4>1. req'[r] = Free
        BY <2>5, <1>2 DEF Write, Answered, TypeOK
      <4> QED
        BY <1>1, <2>3, <3>1, <4>1 DEF Orderly, OneWriter
    <3>3. queue' # <<>> => Len(queue') = 1
      <4>1. CASE queue' = queue
        BY <3>1, <4>1
      <4>2. CASE queue' = Append(queue, Master(req[r].id)) /\ Shown(req[r].id)
        <5>1. Master(req[r].id) \in Profiles
          BY <4>2, ShownMaster
        <5> QED
          BY <3>1, <4>2, <5>1, AppendProperties, EmptySeq DEF TypeOK
      <4> QED
        BY <2>5, <4>1, <4>2 DEF Write
    <3> QED
      BY <3>2, <3>3 DEF OneWriter
  <2>6. CASE ~Write(r)
    <3>1. queue' = queue
      BY <1>2, <2>6 DEF Serve, ReadCookie, Show, CreateProfile, InsertCookie, Find, Act, Owned,
                        Deactivate, Remove, RequestFails
    <3> QED
      BY <2>4, <3>1
  <2> QED
    BY <2>5, <2>6
<1>3. ASSUME NEW r \in Requests, Arrives(r) PROVE OneWriter'
  <2>0. PICK b \in Browsers, u \in OptUser, pc \in {"cookie", "find"},
             op \in {"init", "me", "patch", "login", "signup", "logout", "delete"} :
          Arrive(r, op, pc, b, u)
    BY <1>3 DEF Arrives
  <2>1. PICK h \in Busy :
          req' = [req EXCEPT ![r] = h] /\ h.op = op
    BY <2>0, ArriveProceeds
  <2>2. \A q \in Requests : req'[q] = IF q = r THEN h ELSE req[q]
    BY <2>1 DEF TypeOK
  <2>3. (op \in Writers => Quiet) /\ queue' = queue
    BY <2>0 DEF Arrive
  <2> QED
    BY <2>1, <2>2, <2>3 DEF Quiet, Orderly, OneWriter
<1>4. CASE Unify
  <2>1. queue' = <<>> /\ UNCHANGED req
    BY <1>4, UnifyMerges
  <2> QED
    BY <2>1 DEF Orderly, OneWriter
<1>5. CASE SweepBatch
  BY <1>5 DEF SweepBatch, Orderly, OneWriter
<1> QED
  BY <1>2, <1>3, <1>4, <1>5, HandleSteps DEF Next

\* The steps that leave the rows of profiles and the queue alone, or only create a row.
RowsAlone == UNCHANGED <<profile, user, parent, queue>>

LEMMA RowsOfCreate ==
  ASSUME TypeOK, Orderly, NEW r \in Requests, CreateProfile(r)
  PROVE  (Merged /\ OneReference)'
<1>1. PICK p \in Profiles :
        /\ profile[p] = "unused" /\ profile' = [profile EXCEPT ![p] = "live"]
        /\ UNCHANGED <<user, parent, queue>>
  BY NextProfile DEF CreateProfile
<1>2. user[p] = NoUser /\ \A k \in Profiles : profile[k] = "live" => profile'[k] = "live"
  BY <1>1 DEF Orderly, Merged, TypeOK
<1>3. Merged'
  BY <1>1, <1>2 DEF Orderly, Merged, TypeOK
<1>4. \A u \in Users : ReferencesOf(u)' = ReferencesOf(u)
  BY <1>1, <1>2, SessionAssumption DEF ReferencesOf, Live, TypeOK
<1>5. \A k : Children(k)' = Children(k)
  BY <1>1 DEF Children
<1>6. queue # <<>> /\ Children(Head(queue)) # {} => user[Head(queue)] \in Users
  <2> SUFFICES ASSUME queue # <<>>, NEW y \in Children(Head(queue)) PROVE user[Head(queue)] \in Users
    OBVIOUS
  <2>1. Head(queue) \in Profiles
    BY HeadTailProperties DEF TypeOK
  <2>2. user[Head(queue)] # NoUser
    BY <2>1 DEF Children, Orderly, Merged, Profiles, NoProfile
  <2> QED
    BY <2>1, <2>2 DEF TypeOK, OptUser
<1>7. OneReference'
  <2>1. queue' = queue /\ user' = user
    BY <1>1
  <2> QED
    BY <1>4, <1>5, <1>6, <2>1 DEF Orderly, OneReference
<1> QED
  BY <1>3, <1>7

LEMMA RowsOfWrite ==
  ASSUME TypeOK, Orderly, NEW r \in Requests, Write(r)
  PROVE  (Merged /\ OneReference)'
<1>0. PICK x, m : x = req[r].id /\ m = Master(x)
  OBVIOUS
<1>1. /\ queue = <<>> /\ UNCHANGED <<profile, parent>>
      /\ Shown(x) => parent[m] = NoProfile
  BY <1>0, WriteChanges DEF Write
<1>2. \A u \in Users : \A p, q \in ReferencesOf(u) : p = q
  BY <1>1 DEF Orderly, OneReference
<1>3. CASE ~Shown(x)
  <2>1. RowsAlone
    BY <1>0, <1>1, <1>3 DEF Write, RowsAlone
  <2> QED
    BY <1>1, <2>1 DEF RowsAlone, Orderly, Merged, OneReference, ReferencesOf, Live, Children
<1>4. CASE Shown(x)
  <2>1. x \in Live /\ m \in Live /\ m \in Profiles
    BY <1>0, <1>4, ShownMaster DEF Live
  <2>2. queue' # <<>> /\ Head(queue') = m
    <3>1. queue' = Append(queue, m)
      BY <1>0, <1>4 DEF Write
    <3>2. queue' = <<m>>
      BY <1>1, <3>1
    <3> QED
      BY <3>2
  <2>3. \A k : Children(k)' = Children(k)
    BY <1>1 DEF Children
  <2>4. CASE UNCHANGED user
    <3>1. \A u : ReferencesOf(u)' = ReferencesOf(u)
      BY <1>1, <2>4 DEF ReferencesOf, Live
    <3>2. Children(m) # {} => ReferencesOf(user[m]) \subseteq {m}
      <4> SUFFICES ASSUME NEW y \in Children(m) PROVE ReferencesOf(user[m]) \subseteq {m}
        OBVIOUS
      <4>1. user[m] # NoUser
        BY <2>1 DEF Children, Orderly, Merged, Profiles, NoProfile
      <4>2. user[m] \in Users /\ m \in ReferencesOf(user[m])
        BY <1>1, <1>4, <2>1, <4>1 DEF TypeOK, OptUser, ReferencesOf
      <4> QED
        BY <1>2, <4>2
    <3>3. Merged'
      BY <1>1, <2>4 DEF Orderly, Merged
    <3>4. OneReference'
      <4>1. \A u \in Users : \A p, q \in ReferencesOf(u)' : p = q
        BY <1>2, <3>1
      <4>2. user'[m] = user[m]
        BY <2>4
      <4> QED
        BY <2>2, <2>3, <3>1, <3>2, <4>1, <4>2 DEF OneReference
    <3> QED
      BY <3>3, <3>4
  <2>5. CASE /\ m = x /\ user' = [user EXCEPT ![x] = req[r].user]
             /\ user[x] = NoUser /\ req[r].user \in Users /\ Children(x) = {}
    <3>1. \A k \in Profiles : k # x => user'[k] = user[k]
      BY <2>5 DEF TypeOK
    <3>2. user'[x] = req[r].user /\ req[r].user # NoUser
      BY <2>1, <2>5, SessionAssumption DEF TypeOK
    <3>3. Merged'
      <4>1. \A k \in Profiles : parent[k] # NoProfile => parent[k] \in Profiles
        BY DEF TypeOK
      <4>2. profile[x] = "live" /\ x \in Profiles
        BY <2>1 DEF Live
      <4>3. \A k \in Profiles : user[k] # NoUser => user'[k] # NoUser
        BY <3>1, <3>2
      <4>4. \A k \in Profiles : profile[k] # "live" => user'[k] = NoUser
        BY <3>1, <4>2 DEF Orderly, Merged
      <4> QED
        BY <1>1, <4>1, <4>3, <4>4 DEF Orderly, Merged
    <3>4. \A u \in Users : \A p \in ReferencesOf(u)' : p = x \/ p \in ReferencesOf(u)
      BY <1>1, <3>1 DEF ReferencesOf, Live
    <3>5. OneReference'
      <4>1. \A u \in Users : \A p, q \in ReferencesOf(u)' : p # q => x \in {p, q}
        BY <1>2, <3>4
      <4>2. Children(x)' = {}
        BY <2>3, <2>5
      <4> QED
        BY <2>2, <2>5, <4>1, <4>2 DEF OneReference
    <3> QED
      BY <3>3, <3>5
  <2> QED
    BY <1>0, <1>4, <2>4, <2>5, WriteChanges
<1> QED
  BY <1>3, <1>4

LEMMA RowsOfRemove ==
  ASSUME TypeOK, Orderly, NEW r \in Requests, Remove(r)
  PROVE  (Merged /\ OneReference)'
<1>1. PICK p \in Live :
        /\ Children(p) = {} /\ queue = <<>>
        /\ profile' = [profile EXCEPT ![p] = "gone"]
        /\ user' = [user EXCEPT ![p] = NoUser]
        /\ parent' = [parent EXCEPT ![p] = NoProfile]
  BY RemoveTakes
<1>2. queue' = <<>>
  BY <1>1 DEF Remove
<1>3. p \in Profiles /\ \A y \in Profiles : parent[y] # p
  BY <1>1 DEF Live, Children
<1>4. \A k \in Profiles : k # p => /\ profile'[k] = profile[k] /\ user'[k] = user[k]
                                  /\ parent'[k] = parent[k]
  BY <1>1 DEF TypeOK
<1>5. profile'[p] = "gone" /\ user'[p] = NoUser /\ parent'[p] = NoProfile
  BY <1>1, <1>3 DEF TypeOK
<1>6. Merged'
  <2>1. \A k \in Profiles : parent[k] # NoProfile => parent[k] \in Profiles
    BY DEF TypeOK
  <2> QED
    BY <1>3, <1>4, <1>5, <2>1 DEF Orderly, Merged
<1>7. \A u \in Users : ReferencesOf(u)' \subseteq ReferencesOf(u)
  BY <1>3, <1>4, <1>5 DEF ReferencesOf, Live
<1>8. OneReference'
  BY <1>1, <1>2, <1>7 DEF Orderly, OneReference
<1> QED
  BY <1>6, <1>8

LEMMA RowsOfUnify ==
  ASSUME TypeOK, Orderly, Unify
  PROVE  (Merged /\ OneReference)'
<1>1. queue' = <<>> /\ UNCHANGED <<profile, user>>
  BY UnifyMerges
<1>2. CASE /\ UNCHANGED parent
           /\ \A u \in Users : \A p, q \in ReferencesOf(u) : p = q
  <2>1. \A u : ReferencesOf(u)' = ReferencesOf(u)
    BY <1>1, <1>2 DEF ReferencesOf, Live
  <2> QED
    BY <1>1, <1>2, <2>1 DEF Orderly, Merged, OneReference
<1>3. ASSUME NEW p \in Live, NEW q \in Live,
             p # q, parent' = [parent EXCEPT ![p] = q],
             parent[p] = NoProfile, parent[q] = NoProfile, user[p] = user[q],
             user[p] \in Users, Children(p) = {},
             \A u \in Users : \A k, l \in ReferencesOf(u) : k # l => p \in {k, l}
      PROVE  (Merged /\ OneReference)'
  <2>1. p \in Profiles /\ q \in Profiles /\ profile[p] = "live" /\ profile[q] = "live"
    BY DEF Live
  <2>2. \A k \in Profiles : parent'[k] = IF k = p THEN q ELSE parent[k]
    BY <1>3, <2>1 DEF TypeOK
  <2>3. \A y \in Profiles : parent[y] # p
    BY <1>3 DEF Children
  <2>4. user[q] # NoUser
    BY <1>3, SessionAssumption
  <2>5. Merged'
    <3>1. \A k \in Profiles : parent[k] # NoProfile => parent[k] \in Profiles
      BY DEF TypeOK
    <3> QED
      BY <1>1, <1>3, <2>1, <2>2, <2>3, <2>4, <3>1 DEF Orderly, Merged
  <2>6. \A u \in Users : ReferencesOf(u)' \subseteq ReferencesOf(u) \ {p}
    BY <1>1, <2>1, <2>2 DEF ReferencesOf, Live, NoProfile, Profiles
  <2>7. OneReference'
    BY <1>1, <1>3, <2>6 DEF OneReference
  <2> QED
    BY <2>5, <2>7
<1> QED
  BY <1>2, <1>3, UnifyMerges

LEMMA RowsStep ==
  ASSUME TypeOK, HandlerInv, Orderly, Next, ~crossed'
  PROVE  (Merged /\ OneReference)'
<1>1. CASE RowsAlone
  BY <1>1 DEF RowsAlone, Orderly, Merged, OneReference, ReferencesOf, Live, Children
<1>2. ASSUME NEW r \in Requests, Serve(r) PROVE (Merged /\ OneReference)'
  BY <1>1, <1>2, RowsOfCreate, RowsOfWrite, RowsOfRemove
  DEF Serve, RowsAlone, ReadCookie, Show, InsertCookie, Find, Act, Owned, Deactivate,
      RequestFails, tables
<1>3. ASSUME NEW r \in Requests, Arrives(r) PROVE (Merged /\ OneReference)'
  BY <1>1, <1>3 DEF Arrives, Arrive, RowsAlone, tables
<1>4. CASE SweepBatch
  BY <1>1, <1>4 DEF SweepBatch, RowsAlone
<1> QED
  BY <1>2, <1>3, <1>4, RowsOfUnify, HandleSteps DEF Next

\* The user whom an active cookie leads to is found, and with the family that it leads into.
LEMMA ActiveLeads ==
  ASSUME TypeOK, Orderly, NEW c \in ActiveCookies
  PROVE  /\ c \in Cookies /\ of[c] \in Live /\ Master(of[c]) \in Live
         /\ Master(of[c]) \in ReferencesOf(SessionUser(c))
         /\ of[c] \in {Master(of[c])} \cup Children(Master(of[c]))
<1>1. c \in Cookies /\ of[c] \in Live /\ of[c] \in Profiles
  BY DEF ActiveCookies, Orderly, OneCookie, Live
<1>2. Master(of[c]) \in Live /\ parent[Master(of[c])] = NoProfile
  BY <1>1 DEF Master, Orderly, Merged, Live, TypeOK
<1>3. of[c] \in {Master(of[c])} \cup Children(Master(of[c]))
  BY <1>1 DEF Master, Children
<1> QED
  BY <1>1, <1>2, <1>3 DEF ReferencesOf, SessionUser

\* A termination that was answered has found the cookie's profile in the user's family, if it
\* is there.
LEMMA TerminationEnds ==
  ASSUME TypeOK, HandlerInv, Orderly, NEW r \in Requests, Serve(r), ~crossed',
         req[r].op = "logout", req'[r] = Free, NEW c, c = req[r].sent
  PROVE  c \in ActiveCookies' => SessionUser(c)' # req[r].user
<1>1. req[r] # Free /\ req[r] \in Busy /\ Knows(r)
  <2>1. Free.op # "logout"
    BY DEF Free
  <2> QED
    BY <2>1, AtWork DEF Orderly, Known
<1>2. queue = <<>>
  BY DEF Orderly, OneWriter, Writers
<1>3. req[r].pc \in {"find", "owned", "deactivate"} /\ req[r].user \in Users
  BY <1>1 DEF Knows, Steps
<1>4. ASSUME UNCHANGED tables,
             SessionUser(c) = req[r].user => c \notin ActiveCookies
      PROVE  c \in ActiveCookies' => SessionUser(c)' # req[r].user
  BY <1>4 DEF tables, ActiveCookies, SessionUser, Master
<1>5. CASE Find(r)
  <2>1. ReferencesOf(req[r].user) = {}
    <3>1. ASSUME NEW q, req' = [req EXCEPT ![r].id = q, ![r].family = {q} \cup Children(q),
                                           ![r].pc = "owned"]
          PROVE  FALSE
      <4>1. req'[r].pc = "owned"
        BY <1>1, <3>1 DEF TypeOK, Busy
      <4> QED
        BY <4>1 DEF Free
    <3> QED
      BY <1>5, <3>1 DEF Find
  <2>2. SessionUser(c) = req[r].user => c \notin ActiveCookies
    BY <2>1, ActiveLeads
  <2> QED
    BY <1>4, <1>5, <2>2 DEF Find
<1>6. CASE Owned(r)
  <2>1. c \in ActiveCookies => of[c] \notin req[r].family
    <3>1. ~Goto(r, "deactivate")
      <4> SUFFICES ASSUME Goto(r, "deactivate") PROVE FALSE
        OBVIOUS
      <4>1. req'[r].pc = "deactivate"
        BY <1>1 DEF Goto, TypeOK, Busy
      <4> QED
        BY <4>1 DEF Free
    <3> QED
      BY <1>6, <3>1 DEF Owned, ActiveCookies
  <2>2. /\ req[r].id \in ReferencesOf(req[r].user)
        /\ req[r].family = {req[r].id} \cup Children(req[r].id)
    BY <1>1, <1>6 DEF Knows, Found, Owned, ReferencesOf
  <2>3. SessionUser(c) = req[r].user => c \notin ActiveCookies
    <3> SUFFICES ASSUME SessionUser(c) = req[r].user, c \in ActiveCookies PROVE FALSE
      OBVIOUS
    <3>1. Master(of[c]) = req[r].id
      BY <1>2, <1>3, <2>2, ActiveLeads DEF Orderly, OneReference
    <3> QED
      BY <2>1, <2>2, <3>1, ActiveLeads
  <2> QED
    BY <1>4, <1>6, <2>3 DEF Owned
<1>7. CASE Deactivate(r)
  <2>1. c \in Cookies
    BY <1>1 DEF HandlerInv, Busy
  <2>2. c \notin ActiveCookies'
    BY <1>7, <2>1 DEF Deactivate, ActiveCookies, TypeOK
  <2> QED
    BY <2>2
<1>8. ~RequestFails(r)
  BY DEF RequestFails, Writers
<1> QED
  BY <1>1, <1>3, <1>5, <1>6, <1>7, <1>8
  DEF Serve, ReadCookie, Show, CreateProfile, InsertCookie, Act, Write, Remove

\* The steps that bring no cookie into use, and lead none to another user.
CookiesLed ==
  /\ jar' = jar
  /\ \A c \in Cookies : of'[c] = of[c]
  /\ \A p \in Profiles : profile[p] # "unused" => profile'[p] # "unused"
  /\ \A c \in Cookies : cookie'[c] = "active" =>
       /\ cookie[c] = "active" /\ of[c] \in Live'
       /\ SessionUser(c)' \in {SessionUser(c), NoUser}

LEMMA LedKeeps ==
  ASSUME TypeOK, Orderly, CookiesLed,
         \A b \in Browsers : \A c \in Cookies : c = jar[b] =>
           \/ session'[b] = session[b] \/ session[b] = NoUser
           \/ c \in ActiveCookies' => SessionUser(c)' = NoUser
  PROVE  OneCookie'
<1>1. \A c \in Cookies : of'[c] # NoProfile => profile'[of'[c]] # "unused"
  BY DEF CookiesLed, Orderly, OneCookie, TypeOK
<1>2. \A c \in ActiveCookies' : c \in ActiveCookies /\ of'[c] = of[c] /\ of[c] \in Live'
  BY DEF CookiesLed, ActiveCookies
<1>3. \A c, d \in ActiveCookies' : of'[c] = of'[d] => c = d
  BY <1>2 DEF Orderly, OneCookie
<1>4. \A b, d \in Browsers : jar'[b] = jar'[d] /\ jar'[b] # NoCookie => b = d
  BY DEF CookiesLed, Orderly, OneCookie
<1>5. ASSUME NEW b \in Browsers, jar'[b] # NoCookie, jar'[b] \in ActiveCookies'
      PROVE  SessionUser(jar[b])' \in {NoUser, session'[b]}
  <2>1. PICK c \in Cookies : c = jar[b] /\ c = jar'[b] /\ c \in ActiveCookies /\ c # NoCookie
    BY <1>2, <1>5 DEF CookiesLed, ActiveCookies
  <2>2. SessionUser(c)' \in {SessionUser(c), NoUser}
    BY <1>5, <2>1 DEF CookiesLed, ActiveCookies
  <2>3. SessionUser(c) \in {NoUser, session[b]}
    BY <2>1 DEF Orderly, OneCookie, Leads
  <2>4. SessionUser(jar[b])' = SessionUser(c)'
    BY <2>1 DEF SessionUser, Master
  <2> QED
    BY <1>5, <2>1, <2>2, <2>3, <2>4
<1> QED
  BY <1>1, <1>2, <1>3, <1>4, <1>5 DEF OneCookie, Leads

\* When the rows that a cookie leads through stay, or are deleted.
LEMMA LedBy ==
  ASSUME TypeOK, Orderly, jar' = jar, of' = of,
         \A p \in Profiles : profile[p] # "unused" => profile'[p] # "unused",
         \A c \in Cookies : cookie'[c] = "active" => cookie[c] = "active" /\ of[c] \in Live',
         \A p \in Profiles : user'[p] \in {user[p], NoUser},
         \A p \in Live : p \in Live' =>
            parent'[p] = parent[p] \/ (parent[p] = NoProfile /\ parent'[p] \in Live
                                         /\ user'[parent'[p]] \in {user[p], NoUser})
  PROVE  CookiesLed
<1> SUFFICES ASSUME NEW c \in Cookies, cookie'[c] = "active"
             PROVE  SessionUser(c)' \in {SessionUser(c), NoUser}
  BY DEF CookiesLed
<1>1. c \in ActiveCookies /\ of[c] \in Live' /\ of'[c] = of[c]
  BY DEF ActiveCookies
<1>2. PICK p \in Live : p = of[c] /\ p \in Profiles /\ Master(p) \in Profiles
  BY <1>1, ActiveLeads DEF Live
<1>3. CASE parent'[p] = parent[p]
  <2>1. SessionUser(c)' = user'[Master(p)] /\ SessionUser(c) = user[Master(p)]
    BY <1>1, <1>2, <1>3 DEF SessionUser, Master
  <2> QED
    BY <1>2, <2>1
<1>4. CASE parent[p] = NoProfile /\ parent'[p] \in Live /\ user'[parent'[p]] \in {user[p], NoUser}
  <2>1. SessionUser(c)' = user'[parent'[p]] /\ SessionUser(c) = user[p]
    BY <1>1, <1>2, <1>4 DEF SessionUser, Master, Live, Profiles, NoProfile
  <2> QED
    BY <1>4, <2>1
<1> QED
  BY <1>1, <1>2, <1>3, <1>4

LEMMA ServeLed ==
  ASSUME TypeOK, HandlerInv, Orderly, NEW r \in Requests, Serve(r),
         ~InsertCookie(r), Write(r) => UNCHANGED user
  PROVE  CookiesLed
<1>1. CASE UNCHANGED <<profile, user, parent, of, jar>> /\ cookie' = cookie
  BY <1>1, LedBy DEF Orderly, OneCookie, ActiveCookies, Live
<1>2. CASE Write(r)
  BY <1>1, <1>2 DEF Write
<1>3. CASE CreateProfile(r)
  <2>1. PICK p \in Profiles : profile[p] = "unused" /\ profile' = [profile EXCEPT ![p] = "live"]
    BY <1>3, NextProfile DEF CreateProfile
  <2>2. Live \subseteq Live' /\ \A k \in Profiles : profile[k] # "unused" => profile'[k] # "unused"
    BY <2>1 DEF Live, TypeOK
  <2> QED
    BY <1>3, <2>2, LedBy DEF CreateProfile, Orderly, OneCookie, ActiveCookies
<1>4. CASE Deactivate(r)
  <2>1. \A c \in Cookies : cookie'[c] = "active" => cookie[c] = "active"
    BY <1>4 DEF Deactivate, TypeOK
  <2>2. Live' = Live
    BY <1>4 DEF Deactivate, Live
  <2> QED
    BY <1>4, <2>1, <2>2, LedBy DEF Deactivate, Orderly, OneCookie, ActiveCookies
<1>5. CASE Remove(r)
  <2>1. PICK p \in Live :
          /\ profile' = [profile EXCEPT ![p] = "gone"]
          /\ user' = [user EXCEPT ![p] = NoUser]
          /\ parent' = [parent EXCEPT ![p] = NoProfile]
          /\ cookie' = [c \in Cookies |-> IF of[c] = p THEN "gone" ELSE cookie[c]]
    BY <1>5, RemoveTakes
  <2>2. Live' = Live \ {p}
    BY <2>1 DEF Live, TypeOK
  <2>3. \A c \in Cookies : cookie'[c] = "active" => cookie[c] = "active" /\ of[c] # p
    BY <2>1
  <2>4. /\ \A k \in Profiles : profile[k] # "unused" => profile'[k] # "unused"
        /\ \A k \in Profiles : user'[k] \in {user[k], NoUser}
        /\ \A k \in Profiles : k # p => parent'[k] = parent[k]
    BY <2>1 DEF TypeOK
  <2>5. \A c \in Cookies : cookie'[c] = "active" => of[c] \in Live'
    BY <2>2, <2>3 DEF Orderly, OneCookie, ActiveCookies
  <2>6. \A k \in Live : k \in Live' => parent'[k] = parent[k]
    BY <2>2, <2>4 DEF Live
  <2> QED
    BY <1>5, <2>3, <2>4, <2>5, <2>6, LedBy DEF Remove
<1> QED
  BY <1>1, <1>2, <1>3, <1>4, <1>5
  DEF Serve, ReadCookie, Show, Find, Act, Owned, RequestFails, tables

LEMMA WorkerLed ==
  ASSUME TypeOK, Orderly, Unify \/ SweepBatch
  PROVE  CookiesLed
<1>1. CASE Unify
  <2>1. UNCHANGED <<profile, user, cookie, of, jar>> /\ Live' = Live
    BY <1>1, UnifyMerges DEF Live
  <2>2. \A p \in Live : parent'[p] = parent[p] \/ (parent[p] = NoProfile /\ parent'[p] \in Live
                                                    /\ user[parent'[p]] = user[p])
    BY <1>1, UnifyMerges DEF TypeOK, Live
  <2> QED
    BY <2>1, <2>2, LedBy DEF Orderly, OneCookie, ActiveCookies
<1>2. CASE SweepBatch
  <2>1. \A c \in Cookies : cookie'[c] = "active" => cookie[c] = "active"
    BY <1>2 DEF SweepBatch
  <2>2. UNCHANGED <<profile, user, parent, of, jar>> /\ Live' = Live
    BY <1>2 DEF SweepBatch, Live
  <2> QED
    BY <2>1, <2>2, LedBy DEF Orderly, OneCookie, ActiveCookies
<1> QED
  BY <1>1, <1>2

\* Only the answer to a termination ends a session.
LEMMA ServeSession ==
  ASSUME TypeOK, HandlerInv, NEW r \in Requests, Serve(r), NEW b \in Browsers
  PROVE  \/ session'[b] = session[b]
         \/ req[r].op = "logout" /\ b = req[r].browser /\ req'[r] = Free /\ session'[b] = NoUser
<1>1. CASE Answered(r)
  BY <1>1 DEF Answered, TypeOK
<1>2. CASE UNCHANGED session
  BY <1>2
<1> QED
  BY <1>1, <1>2 DEF Serve, ReadCookie, Show, CreateProfile, InsertCookie, Find, Act, Write, Owned,
                    Deactivate, Remove, RequestFails

LEMMA CookieOfServe ==
  ASSUME TypeOK, HandlerInv, Orderly, NEW r \in Requests, Serve(r), ~crossed',
         ~InsertCookie(r), Write(r) => UNCHANGED user
  PROVE  OneCookie'
<1>1. CookiesLed
  BY ServeLed
<1>2. ASSUME NEW b \in Browsers, NEW c \in Cookies, c = jar[b], session'[b] # session[b],
             c \in ActiveCookies'
      PROVE  SessionUser(c)' = NoUser
  <2>1. req[r].op = "logout" /\ b = req[r].browser /\ req'[r] = Free
    BY <1>2, ServeSession
  <2>2. req[r] # Free /\ Knows(r)
    BY <2>1 DEF Free, Orderly, Known
  <2>3. SessionUser(c)' \in {SessionUser(c), NoUser} /\ c \in ActiveCookies
    BY <1>1, <1>2 DEF CookiesLed, ActiveCookies
  <2>4. CASE c = req[r].sent
    <3>1. SessionUser(c)' # req[r].user
      BY <1>2, <2>1, <2>4, TerminationEnds
    <3>2. SessionUser(c) \in {NoUser, req[r].user}
      <4>1. c # NoCookie
        BY DEF Cookies, NoCookie
      <4> QED
        BY <1>2, <2>1, <2>2, <2>3, <4>1 DEF Knows, Orderly, OneCookie, Leads
    <3> QED
      BY <2>3, <3>1, <3>2
  <2>5. CASE c # req[r].sent
    <3>1. SessionUser(c) = NoUser
      BY <1>2, <2>1, <2>2, <2>3, <2>5 DEF Knows, Leads
    <3> QED
      BY <2>3, <3>1
  <2> QED
    BY <2>4, <2>5
<1> QED
  BY <1>1, <1>2, LedKeeps

\* The profile of a new cookie is nobody's.
LEMMA CookieOfInsert ==
  ASSUME TypeOK, HandlerInv, Orderly, UsedInv, NEW r \in Requests, InsertCookie(r)
  PROVE  /\ OneCookie'
         /\ \A b \in Browsers : jar'[b] = jar[b] \/ (/\ cookie[jar'[b]] = "unused"
                                                     /\ jar'[b] \in Cookies
                                                     /\ SessionUser(jar[b])' = NoUser)
<1>1. req[r] # Free /\ req[r] \in Busy /\ Knows(r)
  BY AtWork DEF InsertCookie, Orderly, Known
<1>2. PICK f : f = req[r].id /\ Fresh(f)
  BY <1>1 DEF InsertCookie, Knows
<1>3. req[r].op = "init" /\ req[r].browser \in Browsers
  BY <1>1 DEF Knows, Steps, Busy, InsertCookie
<1>4. UNCHANGED <<profile, user, parent, session>>
  BY <1>3 DEF InsertCookie, Answered
<1>5. CASE UNCHANGED <<cookie, of, jar>>
  BY <1>4, <1>5 DEF Orderly, OneCookie, ActiveCookies, Live, Leads, SessionUser, Master
<1>6. ASSUME NEW c \in Cookies, cookie[c] = "unused", cookie' = [cookie EXCEPT ![c] = "active"],
             f \in Live, of' = [of EXCEPT ![c] = f], jar' = [jar EXCEPT ![req[r].browser] = c]
      PROVE  /\ OneCookie'
             /\ \A b \in Browsers : jar'[b] = jar[b] \/ (/\ cookie[jar'[b]] = "unused"
                                                         /\ jar'[b] \in Cookies
                                                         /\ SessionUser(jar[b])' = NoUser)
  <2>1. /\ \A d \in Cookies : d # c => cookie'[d] = cookie[d] /\ of'[d] = of[d]
        /\ cookie'[c] = "active" /\ of'[c] = f
        /\ \A b \in Browsers : jar'[b] = IF b = req[r].browser THEN c ELSE jar[b]
    BY <1>6 DEF TypeOK
  <2>2. \A b \in Browsers : jar[b] # c
    BY <1>6 DEF UsedInv, Cookies, NoCookie
  <2>3. \A d \in Cookies : of[d] # f
    BY <1>2 DEF Fresh
  <2>4. SessionUser(c)' = NoUser
    BY <1>2, <1>4, <2>1 DEF SessionUser, Master, Fresh
  <2>5. \A d \in Cookies : d # c => SessionUser(d)' = SessionUser(d)
    BY <1>4, <2>1 DEF SessionUser, Master
  <2>6. \A d \in Cookies : d \in ActiveCookies' <=> d = c \/ d \in ActiveCookies
    BY <2>1 DEF ActiveCookies
  <2>7. Live' = Live
    BY <1>4 DEF Live
  <2>8. \A d \in ActiveCookies' : d \in Cookies /\ of'[d] \in Live'
    BY <1>6, <2>1, <2>6, <2>7 DEF Orderly, OneCookie, ActiveCookies
  <2>9. \A d, e \in ActiveCookies' : of'[d] = of'[e] => d = e
    BY <2>1, <2>3, <2>6, <2>8 DEF Orderly, OneCookie
  <2>10. \A d \in Cookies : of'[d] # NoProfile => profile'[of'[d]] # "unused"
    BY <1>2, <1>4, <2>1 DEF Fresh, Orderly, OneCookie
  <2>11. \A b, d \in Browsers : jar'[b] = jar'[d] /\ jar'[b] # NoCookie => b = d
    BY <2>1, <2>2 DEF Orderly, OneCookie
  <2>12. ASSUME NEW b \in Browsers, jar'[b] # NoCookie, jar'[b] \in ActiveCookies'
         PROVE  SessionUser(jar[b])' \in {NoUser, session'[b]}
    <3>1. PICK d \in Cookies : d = jar'[b]
      BY <2>8, <2>12
    <3>2. SessionUser(jar[b])' = SessionUser(d)'
      BY <3>1 DEF SessionUser, Master
    <3>3. CASE d = c
      BY <2>4, <3>2, <3>3
    <3>4. CASE d # c
      <4>1. d = jar[b] /\ d \in ActiveCookies /\ d # NoCookie
        BY <2>1, <2>6, <2>12, <3>1, <3>4
      <4> QED
        BY <1>4, <2>5, <3>2, <3>4, <4>1 DEF Orderly, OneCookie, Leads
    <3> QED
      BY <3>3, <3>4
  <2>13. ASSUME NEW b \in Browsers, jar'[b] # jar[b]
         PROVE  cookie[jar'[b]] = "unused" /\ jar'[b] \in Cookies /\ SessionUser(jar[b])' = NoUser
    <3>1. jar'[b] = c
      BY <2>1, <2>13
    <3>2. SessionUser(jar[b])' = SessionUser(c)'
      BY <3>1 DEF SessionUser, Master
    <3> QED
      BY <1>6, <2>4, <3>1, <3>2
  <2> QED
    BY <2>8, <2>9, <2>10, <2>11, <2>12, <2>13 DEF OneCookie, Leads
<1>7. CASE f \in Live
  <2>1. PICK c \in Cookies :
          /\ cookie[c] = "unused" /\ cookie' = [cookie EXCEPT ![c] = "active"]
          /\ of' = [of EXCEPT ![c] = f] /\ jar' = [jar EXCEPT ![req[r].browser] = c]
    BY <1>2, <1>7, NextCookie DEF InsertCookie
  <2> QED
    BY <1>6, <1>7, <2>1
<1> QED
  BY <1>2, <1>5, <1>7 DEF InsertCookie

\* A user who logs in is given the profile of the cookie that the browser sent, and no other
\* cookie leads there.
LEMMA CookieOfWrite ==
  ASSUME TypeOK, HandlerInv, Orderly, NEW r \in Requests, Write(r), ~UNCHANGED user
  PROVE  OneCookie'
<1>1. PICK x, u, s : x = req[r].id /\ u = req[r].user /\ s = req[r].sent
  OBVIOUS
<1>2. /\ Shown(x) /\ Master(x) = x /\ user' = [user EXCEPT ![x] = u]
      /\ user[x] = NoUser /\ u \in Users /\ Children(x) = {}
      /\ s \in ActiveCookies /\ x = of[s] /\ session[req[r].browser] = u
      /\ req[r] \in Busy /\ req[r].op \in Writers
  BY <1>1, WriteChanges
<1>3. x \in Profiles /\ x \in Live
  BY <1>2, ShownMaster DEF Live
<1>4. UNCHANGED <<profile, parent, cookie, of, jar>>
  BY DEF Write
<1>5. session' = session
  <2>1. req[r] # Free /\ Knows(r) /\ req[r].pc = "write"
    BY <1>2, AtWork DEF Write, Orderly, Known
  <2>2. req[r].op # "logout"
    BY <2>1 DEF Knows, Steps
  <2> QED
    BY <2>2 DEF Write, Answered
<1>6. ASSUME NEW c \in ActiveCookies, c # s
      PROVE  SessionUser(c)' = SessionUser(c)
  <2>1. of[c] \in Profiles /\ of[c] # x
    BY <1>2, <1>6, ActiveLeads DEF Orderly, OneCookie, Live
  <2>2. Master(of[c]) # x
    BY <1>2, <2>1 DEF Master, Children
  <2>3. SessionUser(c)' = user'[Master(of[c])]
    BY <1>4 DEF SessionUser, Master
  <2>4. Master(of[c]) \in Profiles
    BY ActiveLeads DEF Live
  <2> QED
    BY <1>2, <2>2, <2>3, <2>4 DEF SessionUser, TypeOK
<1>7. SessionUser(s)' = u
  <2>1. SessionUser(s)' = user'[Master(of[s])]
    BY <1>4 DEF SessionUser, Master
  <2> QED
    BY <1>2, <1>3, <2>1 DEF TypeOK
<1>8. ActiveCookies' = ActiveCookies /\ Live' = Live
  BY <1>4 DEF ActiveCookies, Live
<1>9. ASSUME NEW b \in Browsers, jar[b] # NoCookie, jar[b] \in ActiveCookies
      PROVE  SessionUser(jar[b])' \in {NoUser, session[b]}
  <2>1. PICK c \in ActiveCookies : c = jar[b]
    BY <1>9
  <2>2. SessionUser(jar[b])' = SessionUser(c)'
    BY <1>4, <2>1 DEF SessionUser, Master
  <2>3. CASE c = s
    <3>1. b = req[r].browser
      <4>1. req[r] # Free /\ Knows(r)
        BY <1>2, AtWork DEF Write, Orderly, Known
      <4> QED
        BY <1>1, <1>9, <2>1, <2>3, <4>1 DEF Knows
    <3> QED
      BY <1>2, <1>7, <2>2, <2>3, <3>1
  <2>4. CASE c # s
    BY <1>6, <1>9, <2>1, <2>2, <2>4 DEF Orderly, OneCookie, Leads
  <2> QED
    BY <2>3, <2>4
<1> QED
  BY <1>4, <1>5, <1>8, <1>9 DEF Orderly, OneCookie, Leads

\* A session that begins begins where there was none.
LEMMA CookieOfArrival ==
  ASSUME TypeOK, Orderly, NEW r \in Requests,
         \/ \E b \in Browsers : Visit(r, b) \/ LogOut(r, b)
         \/ \E b \in Browsers, u \in Users : LogIn(r, b, u)
         \/ \E u \in Users : DeleteUser(r, u)
  PROVE  OneCookie'
<1>1. UNCHANGED <<tables, jar>>
  BY DEF Visit, LogOut, LogIn, DeleteUser, Arrive
<1>2. CookiesLed
  BY <1>1, LedBy DEF tables, Orderly, OneCookie, ActiveCookies, Live
<1>3. \A b \in Browsers : session'[b] = session[b] \/ session[b] = NoUser
  BY DEF Visit, LogOut, LogIn, DeleteUser, TypeOK
<1> QED
  BY <1>2, <1>3, LedKeeps

LEMMA HandleArrives ==
  ASSUME NEW r \in Requests, Handle(r), ~Serve(r)
  PROVE  \/ \E b \in Browsers : Visit(r, b) \/ LogOut(r, b)
         \/ \E b \in Browsers, u \in Users : LogIn(r, b, u)
         \/ \E u \in Users : DeleteUser(r, u)
BY DEF Handle, Serve

LEMMA CookieStep ==
  ASSUME TypeOK, HandlerInv, UsedInv, Orderly, Next, ~crossed'
  PROVE  OneCookie'
<1>1. ASSUME NEW r \in Requests, Serve(r) PROVE OneCookie'
  BY <1>1, CookieOfServe, CookieOfInsert, CookieOfWrite
<1>2. ASSUME NEW r \in Requests, Handle(r) PROVE OneCookie'
  BY <1>1, <1>2, HandleArrives, CookieOfArrival
<1>3. CASE Unify \/ SweepBatch
  <2>1. session' = session
    BY <1>3 DEF Unify, SweepBatch
  <2> QED
    BY <1>3, <2>1, WorkerLed, LedKeeps
<1> QED
  BY <1>2, <1>3 DEF Next

\* A profile that has no cookie yet stays as it is until its own request goes on.
LEMMA FreshStays ==
  ASSUME TypeOK, HandlerInv, Orderly, Next, ~crossed',
         NEW q \in Requests, req[q].pc = "insert", req'[q] = req[q], NEW f, f = req[q].id
  PROVE  Fresh(f)'
<1>1. req[q] # Free /\ Knows(q) /\ Fresh(f)
  BY AtWork DEF Orderly, Known, Knows
<1>2. CASE UNCHANGED <<profile, user, parent, of>>
  BY <1>1, <1>2 DEF Fresh
<1>3. ASSUME NEW r \in Requests, Serve(r) PROVE Fresh(f)'
  <2>1. CASE CreateProfile(r)
    <3>1. PICK p \in Profiles : profile[p] = "unused" /\ profile' = [profile EXCEPT ![p] = "live"]
      BY <2>1, NextProfile DEF CreateProfile
    <3>2. profile'[f] # "unused"
      BY <1>1, <3>1 DEF Fresh, TypeOK
    <3> QED
      BY <1>1, <2>1, <3>2 DEF Fresh, CreateProfile
  <2>2. CASE InsertCookie(r)
    <3>1. r # q
      <4>1. req'[r] = Free
        BY <2>2 DEF InsertCookie, Answered, TypeOK
      <4> QED
        BY <1>1, <4>1
    <3>2. req[r].id # f
      BY <2>2, <3>1 DEF InsertCookie, Orderly, FreshDiffer
    <3>3. \A c \in Cookies : of'[c] \in {of[c], req[r].id}
      BY <2>2 DEF InsertCookie, TypeOK
    <3> QED
      BY <1>1, <2>2, <3>2, <3>3 DEF Fresh, InsertCookie
  <2>3. CASE Write(r)
    <3>1. user'[f] = NoUser
      <4>1. CASE UNCHANGED user
        BY <1>1, <4>1 DEF Fresh
      <4>2. CASE /\ user' = [user EXCEPT ![req[r].id] = req[r].user]
                 /\ req[r].sent \in ActiveCookies /\ req[r].id = of[req[r].sent]
        <5>1. req[r].id # f
          BY <1>1, <4>2 DEF Fresh, ActiveCookies
        <5> QED
          BY <1>1, <4>2, <5>1 DEF Fresh, TypeOK
      <4> QED
        BY <2>3, <4>1, <4>2, WriteChanges
    <3> QED
      BY <1>1, <2>3, <3>1 DEF Fresh, Write
  <2>4. CASE Remove(r)
    <3>1. PICK p \in Live :
            /\ profile' = [profile EXCEPT ![p] = "gone"]
            /\ user' = [user EXCEPT ![p] = NoUser]
            /\ parent' = [parent EXCEPT ![p] = NoProfile]
      BY <2>4, RemoveTakes
    <3>2. profile'[f] # "unused" /\ user'[f] = NoUser /\ parent'[f] = NoProfile
      BY <1>1, <3>1 DEF Fresh, TypeOK
    <3> QED
      BY <1>1, <2>4, <3>2 DEF Fresh, Remove
  <2> QED
    BY <1>2, <1>3, <2>1, <2>2, <2>3, <2>4
    DEF Serve, ReadCookie, Show, Find, Act, Owned, Deactivate, RequestFails, tables
<1>4. ASSUME NEW r \in Requests, Arrives(r) PROVE Fresh(f)'
  BY <1>2, <1>4 DEF Arrives, Arrive, tables
<1>5. CASE Unify
  <2>1. parent'[f] = NoProfile
    <3>1. CASE UNCHANGED parent
      BY <1>1, <3>1 DEF Fresh
    <3>2. ASSUME NEW p \in Live, NEW k \in Live, parent' = [parent EXCEPT ![p] = k],
                 user[p] \in Users
          PROVE  parent'[f] = NoProfile
      <4>1. p # f
        BY <1>1, <3>2, SessionAssumption DEF Fresh
      <4> QED
        BY <1>1, <3>2, <4>1 DEF Fresh, TypeOK
    <3> QED
      BY <1>5, <3>1, <3>2, UnifyMerges
  <2> QED
    BY <1>1, <1>5, <2>1 DEF Fresh, Unify
<1>6. CASE SweepBatch
  BY <1>2, <1>6 DEF SweepBatch
<1> QED
  BY <1>3, <1>4, <1>5, <1>6, HandleSteps DEF Next

\* What a request knows stays true while another takes a step.
LEMMA KnowsStays ==
  ASSUME TypeOK, TypeOK', UsedInv, NEW q \in Requests, req[q] # Free, Knows(q), req'[q] = req[q],
         \A b \in Browsers : jar'[b] = jar[b] \/ (/\ cookie[jar'[b]] = "unused"
                                                  /\ jar'[b] \in Cookies
                                                  /\ SessionUser(jar[b])' = NoUser),
         \A f : req[q].pc = "insert" /\ f = req[q].id => Fresh(f)',
         req[q].op \in Writers =>
           /\ UNCHANGED <<user, parent, session>> /\ Live \subseteq Live'
           /\ \A c \in Cookies : cookie[c] # "unused" =>
                (cookie'[c] = "active" <=> cookie[c] = "active") /\ of'[c] = of[c]
  PROVE  Knows(q)'
<1>1. PICK h \in Busy : h = req[q] /\ h = req'[q]
  BY AtWork
<1>2. h.sent \in Cookies \cup {NoCookie} /\ h.browser \in Browsers
  BY DEF Busy
<1>3. h.sent # NoCookie => cookie[h.sent] # "unused"
  BY <1>1 DEF UsedInv
<1>4. \A b \in Browsers : jar'[b] # NoCookie /\ jar'[b] = h.sent => b = h.browser
  BY <1>1, <1>2, <1>3 DEF Knows
<1>5. req'[q].pc = "insert" => Fresh(req[q].id)'
  <2> SUFFICES ASSUME h.pc = "insert" PROVE Fresh(req[q].id)'
    BY <1>1
  <2>1. PICK f : f = h.id
    OBVIOUS
  <2>2. Fresh(f)'
    BY <1>1, <2>1
  <2>3. f = req'[q].id
    BY <1>1, <2>1
  <2> QED
    BY <2>2, <2>3 DEF Fresh
<1>6. ASSUME h.op \in Writers, NEW c \in Cookies, cookie[c] # "unused"
      PROVE  /\ c \in ActiveCookies' <=> c \in ActiveCookies
             /\ of'[c] = of[c] /\ SessionUser(c)' = SessionUser(c)
  <2>1. /\ UNCHANGED <<user, parent>>
        /\ (cookie'[c] = "active" <=> cookie[c] = "active") /\ of'[c] = of[c]
    BY <1>1, <1>6
  <2> QED
    BY <2>1 DEF ActiveCookies, SessionUser, Master
<1>7. ASSUME h.op \in {"login", "signup"}
      PROVE  /\ h.user \in Users /\ session'[h.browser] = h.user
             /\ h.sent # NoCookie /\ h.sent \in ActiveCookies' =>
                  SessionUser(h.sent)' \in {NoUser, h.user}
             /\ h.pc # "cookie" => h.sent \in ActiveCookies' /\ h.id = of'[h.sent]
  <2>1. h.op \in Writers
    BY <1>7 DEF Writers
  <2>2. session' = session
    BY <1>1, <2>1
  <2>3. h.sent \in ActiveCookies => h.sent # NoCookie
    BY DEF ActiveCookies, Cookies, NoCookie
  <2> QED
    BY <1>1, <1>2, <1>3, <1>6, <1>7, <2>1, <2>2, <2>3 DEF Knows, Leads
<1>8. ASSUME h.op = "patch", h.pc = "write"
      PROVE  h.user = user'[Master(h.id)']
  <2>1. UNCHANGED <<user, parent>>
    BY <1>1, <1>8 DEF Writers
  <2> QED
    BY <1>1, <1>8, <2>1 DEF Knows, Master
<1>9. ASSUME h.op \in {"logout", "delete"}, h.pc # "find"
      PROVE  /\ h.id \in Live' /\ parent'[h.id] = NoProfile
             /\ h.family = {h.id} \cup Children(h.id)'
             /\ user'[h.id] = user[h.id]
  <2>1. UNCHANGED <<user, parent>> /\ Live \subseteq Live'
    BY <1>1, <1>9 DEF Writers
  <2> QED
    BY <1>1, <1>9, <2>1 DEF Knows, Found, Children
<1>10. ASSUME h.op = "logout"
       PROVE  /\ h.user \in Users /\ session'[h.browser] = h.user
              /\ jar'[h.browser] # h.sent /\ jar'[h.browser] \in ActiveCookies' =>
                   SessionUser(jar[h.browser])' = NoUser
  <2>1. h.op \in Writers /\ session' = session
    BY <1>1, <1>10 DEF Writers
  <2>2. ASSUME jar'[h.browser] # h.sent, jar'[h.browser] \in ActiveCookies'
        PROVE  SessionUser(jar[h.browser])' = NoUser
    <3>1. CASE jar'[h.browser] # jar[h.browser]
      BY <1>2, <3>1
    <3>2. CASE jar'[h.browser] = jar[h.browser]
      <4>1. PICK c \in Cookies : c = jar[h.browser] /\ cookie[c] # "unused" /\ c = jar'[h.browser]
        BY <1>2, <2>2, <3>2 DEF UsedInv, ActiveCookies, Cookies, NoCookie
      <4>2. SessionUser(c)' = SessionUser(c) /\ c \in ActiveCookies
        BY <1>6, <2>1, <2>2, <4>1
      <4>3. SessionUser(c) = NoUser
        BY <1>1, <1>10, <2>2, <4>1, <4>2 DEF Knows, Leads
      <4>4. SessionUser(jar[h.browser])' = SessionUser(c)'
        BY <1>1, <4>1 DEF SessionUser, Master
      <4> QED
        BY <4>2, <4>3, <4>4
    <3> QED
      BY <3>1, <3>2
  <2> QED
    BY <1>1, <1>10, <2>1, <2>2 DEF Knows
<1>11. SessionUser(req[q].sent)' = SessionUser(h.sent)'
       /\ SessionUser(jar[req[q].browser])' = SessionUser(jar[h.browser])'
       /\ Master(req[q].id)' = Master(h.id)' /\ Children(req[q].id)' = Children(h.id)'
  BY <1>1
<1>12. /\ req[q].op \in {"login", "signup"} => Leads(req[q].sent, req[q].user)'
       /\ req[q].op = "logout" /\ jar'[h.browser] # h.sent => Leads(jar[req[q].browser], NoUser)'
  BY <1>1, <1>7, <1>10, <1>11 DEF Leads, ActiveCookies, Cookies, NoCookie
<1> QED
  BY <1>1, <1>4, <1>5, <1>7, <1>8, <1>9, <1>10, <1>11, <1>12 DEF Knows, Found

\* A request that goes on, and only looks at the rows.
LEMMA GoesOnKnowing ==
  ASSUME TypeOK, NEW r \in Requests, req[r] \in Busy, Knows(r), UNCHANGED <<tables, jar, session>>,
         NEW h, req' = [req EXCEPT ![r] = h],
         h.op = req[r].op, h.browser = req[r].browser, h.sent = req[r].sent,
         h.pc \in Steps(h.op), h.pc # "insert",
         h.op \in {"login", "signup", "logout", "delete"} => h.user = req[r].user,
         h.op \in {"login", "signup"} /\ h.pc # "cookie" =>
           h.sent \in ActiveCookies /\ h.id = of[h.sent],
         h.op = "patch" /\ h.pc = "write" => h.user = user[Master(h.id)],
         h.op \in {"logout", "delete"} /\ h.pc # "find" =>
           /\ h.id \in Live /\ parent[h.id] = NoProfile
           /\ h.family = {h.id} \cup Children(h.id)
           /\ h.op = "logout" => user[h.id] = h.user
  PROVE  Knows(r)'
<1>1. h = req'[r]
  BY DEF TypeOK
<1>2. /\ UNCHANGED <<profile, user, parent, cookie, of, jar, session>>
      /\ ActiveCookies' = ActiveCookies /\ Live' = Live
      /\ \A p : Master(p)' = Master(p) /\ Children(p)' = Children(p)
      /\ \A c : SessionUser(c)' = SessionUser(c)
  BY DEF tables, ActiveCookies, Live, Master, Children, SessionUser
<1>3. \A b \in Browsers : jar'[b] # NoCookie /\ jar'[b] = req'[r].sent => b = req'[r].browser
  BY <1>1, <1>2 DEF Knows
<1>4. req'[r].op \in {"login", "signup"} =>
        /\ req'[r].user \in Users /\ session'[req'[r].browser] = req'[r].user
        /\ req'[r].sent # NoCookie => Leads(req[r].sent, req[r].user)'
        /\ req'[r].pc # "cookie" =>
             req'[r].sent \in ActiveCookies' /\ req'[r].id = of'[req'[r].sent]
  <2> SUFFICES ASSUME h.op \in {"login", "signup"}
               PROVE  /\ h.user \in Users /\ session[h.browser] = h.user
                      /\ h.sent # NoCookie => Leads(h.sent, h.user)
                      /\ h.pc # "cookie" => h.sent \in ActiveCookies /\ h.id = of[h.sent]
    <3>1. Leads(req[r].sent, req[r].user)' <=> Leads(h.sent, h.user)
      BY <1>1, <1>2 DEF Leads, SessionUser, Master
    <3> QED
      BY <1>1, <1>2, <3>1
  <2> QED
    BY DEF Knows
<1>5. req'[r].op = "patch" /\ req'[r].pc = "write" => req'[r].user = user'[Master(req[r].id)']
  BY <1>1, <1>2 DEF Master
<1>6. req'[r].op \in {"logout", "delete"} /\ req'[r].pc # "find" =>
        Found(r)' /\ (req'[r].op = "logout" => user'[req'[r].id] = req'[r].user)
  BY <1>1, <1>2 DEF Found, Children
<1>7. req'[r].op = "logout" =>
        /\ req'[r].user \in Users /\ session'[req'[r].browser] = req'[r].user
        /\ jar'[req'[r].browser] # req'[r].sent => Leads(jar[req[r].browser], NoUser)'
  <2> SUFFICES ASSUME h.op = "logout"
               PROVE  /\ h.user \in Users /\ session[h.browser] = h.user
                      /\ jar[h.browser] # h.sent => Leads(jar[h.browser], NoUser)
    <3>1. Leads(jar[req[r].browser], NoUser)' <=> Leads(jar[h.browser], NoUser)
      BY <1>1, <1>2 DEF Leads, SessionUser, Master
    <3> QED
      BY <1>1, <1>2, <3>1
  <2> QED
    BY DEF Knows
<1>8. req'[r].op = "delete" => req'[r].user \in Users
  BY <1>1 DEF Knows
<1> QED
  BY <1>1, <1>3, <1>4, <1>5, <1>6, <1>7, <1>8 DEF Knows

LEMMA OwnKnows ==
  ASSUME TypeOK, HandlerInv, Orderly, NEW r \in Requests, Serve(r), ~crossed', req'[r] # Free
  PROVE  Knows(r)'
<1>1. req[r] # Free /\ req[r] \in Busy /\ Knows(r)
  BY AtWork DEF Serve, ReadCookie, Show, CreateProfile, InsertCookie, Find, Act, Write, Owned,
                Deactivate, Remove, RequestFails, Orderly, Known
<1>2. ~Answered(r)
  BY DEF Answered, TypeOK
<1>3. \A b \in Browsers : session'[b] = session[b]
  BY ServeSession
<1>4. session' = session
  <2>1. session' \in [Browsers -> OptUser]
    BY ServeTypes DEF TypeOK
  <2> QED
    BY <1>3, <2>1 DEF TypeOK
<1>5. CASE ReadCookie(r)
  <2>1. UNCHANGED <<tables, jar, session>> /\ req[r].pc = "cookie"
    BY <1>4, <1>5 DEF ReadCookie
  <2>2. req[r].op \in {"init", "me", "patch", "login", "signup"}
    BY <1>1, <2>1 DEF Knows, Steps, Busy
  <2>3. CASE /\ CookieProfile(req[r].sent) # NoProfile
             /\ req' = [req EXCEPT ![r].via = req[r].sent,
                                   ![r].id = CookieProfile(req[r].sent),
                                   ![r].pc = IF req[r].op \in {"me", "patch"} THEN "act" ELSE "show"]
    <3>1. req[r].sent \in ActiveCookies /\ CookieProfile(req[r].sent) = of[req[r].sent]
      BY <2>3 DEF CookieProfile
    <3>2. PICK h : h = [req[r] EXCEPT !.via = req[r].sent, !.id = of[req[r].sent],
                          !.pc = IF req[r].op \in {"me", "patch"} THEN "act" ELSE "show"]
      OBVIOUS
    <3>3. /\ h.op = req[r].op /\ h.browser = req[r].browser /\ h.sent = req[r].sent
          /\ h.user = req[r].user /\ h.id = of[req[r].sent]
          /\ h.pc = IF req[r].op \in {"me", "patch"} THEN "act" ELSE "show"
      BY <1>1, <3>2 DEF Busy
    <3>4. req' = [req EXCEPT ![r] = h]
      BY <2>3, <3>1, <3>2
    <3>5. h.pc \in Steps(h.op) /\ h.pc \in {"act", "show"}
      BY <2>2, <3>3 DEF Steps
    <3> QED
      BY <1>1, <2>1, <2>2, <3>1, <3>3, <3>4, <3>5, GoesOnKnowing
  <2>4. ASSUME NEW to \in {"create", "find"}, Goto(r, to), req[r].op \in {"init", "me", "patch"},
               to \in Steps(req[r].op)
        PROVE  Knows(r)'
    <3>1. PICK h : h = [req[r] EXCEPT !.pc = to]
      OBVIOUS
    <3>2. /\ h.op = req[r].op /\ h.browser = req[r].browser /\ h.sent = req[r].sent
          /\ h.user = req[r].user /\ h.pc = to
      BY <1>1, <3>1 DEF Busy
    <3>3. req' = [req EXCEPT ![r] = h]
      BY <2>4, <3>1 DEF Goto
    <3> QED
      BY <1>1, <2>1, <2>4, <3>2, <3>3, GoesOnKnowing
  <2>5. CASE req[r].op = "init" /\ Goto(r, "create")
    BY <2>4, <2>5 DEF Steps
  <2>6. CASE req[r].op \in {"me", "patch"} /\ Goto(r, "find")
    BY <2>4, <2>6 DEF Steps
  <2> QED
    BY <1>2, <1>5, <2>3, <2>5, <2>6 DEF ReadCookie
<1>6. ASSUME NEW to \in {"write", "find", "deactivate"}, Goto(r, to), UNCHANGED <<tables, jar>>,
             to \in Steps(req[r].op), req[r].op \in {"login", "signup", "logout"},
             req[r].pc # "cookie", to = "deactivate" <=> req[r].op = "logout",
             req[r].op = "logout" => req[r].pc = "owned"
      PROVE  Knows(r)'
  <2>1. PICK h : h = [req[r] EXCEPT !.pc = to]
    OBVIOUS
  <2>2. /\ h.op = req[r].op /\ h.browser = req[r].browser /\ h.sent = req[r].sent
        /\ h.user = req[r].user /\ h.pc = to /\ h.id = req[r].id /\ h.family = req[r].family
    BY <1>1, <2>1 DEF Busy
  <2>3. req' = [req EXCEPT ![r] = h]
    BY <1>6, <2>1 DEF Goto
  <2>4. h.op \in {"login", "signup"} => h.sent \in ActiveCookies /\ h.id = of[h.sent]
    BY <1>1, <1>6, <2>2 DEF Knows
  <2>5. h.op = "logout" =>
          /\ h.id \in Live /\ parent[h.id] = NoProfile
          /\ h.family = {h.id} \cup Children(h.id) /\ user[h.id] = h.user
    BY <1>1, <1>6, <2>2 DEF Knows, Found
  <2> QED
    BY <1>1, <1>4, <1>6, <2>2, <2>3, <2>4, <2>5, GoesOnKnowing
<1>7. CASE Show(r)
  <2>1. req[r].op \in {"login", "signup"} /\ req[r].pc = "show" /\ UNCHANGED <<tables, jar>>
    BY <1>1, <1>2, <1>7 DEF Show, Knows, Steps, Busy
  <2>2. Goto(r, IF req[r].op = "signup" THEN "write" ELSE "find")
    BY <1>2, <1>7 DEF Show
  <2> QED
    BY <1>6, <2>1, <2>2 DEF Steps
<1>8. CASE Owned(r)
  <2>1. Goto(r, "deactivate") /\ req[r].pc = "owned" /\ UNCHANGED <<tables, jar>>
    BY <1>2, <1>8 DEF Owned
  <2>2. req[r].op = "logout"
    BY <1>1, <2>1 DEF Knows, Steps, Busy
  <2> QED
    BY <1>6, <2>1, <2>2 DEF Steps
<1>9. CASE Find(r)
  <2>1. UNCHANGED <<tables, jar, session>> /\ req[r].pc = "find"
    BY <1>4, <1>9 DEF Find
  <2>2. req[r].op \in {"me", "patch", "login", "logout", "delete"}
    BY <1>1, <2>1 DEF Knows, Steps, Busy
  <2>3. CASE req[r].op = "login"
    <3>1. Goto(r, "write")
      BY <1>2, <1>9, <2>3 DEF Find
    <3> QED
      BY <1>6, <2>1, <2>3, <3>1 DEF Steps
  <2>4. CASE req[r].op # "login"
    <3>0. PICK to : to = CASE req[r].op = "logout" -> "owned"
                           [] req[r].op = "delete" -> "remove"
                           [] OTHER -> "act"
      OBVIOUS
    <3>1. PICK q \in ReferencesOf(req[r].user) :
            req' = [req EXCEPT ![r].id = q, ![r].family = {q} \cup Children(q), ![r].pc = to]
      BY <1>2, <1>9, <2>4, <3>0 DEF Find
    <3>2. PICK h : h = [req[r] EXCEPT !.id = q, !.family = {q} \cup Children(q), !.pc = to]
      OBVIOUS
    <3>3. /\ h.op = req[r].op /\ h.browser = req[r].browser /\ h.sent = req[r].sent
          /\ h.user = req[r].user /\ h.pc = to /\ h.id = q /\ h.family = {q} \cup Children(q)
      BY <1>1, <3>2 DEF Busy
    <3>4. req' = [req EXCEPT ![r] = h]
      BY <3>1, <3>2
    <3>5. to \in Steps(req[r].op) /\ to \in {"owned", "remove", "act"}
      BY <2>2, <2>4, <3>0 DEF Steps
    <3>6. q \in Live /\ parent[q] = NoProfile /\ user[q] = req[r].user
      BY DEF ReferencesOf
    <3> QED
      BY <1>1, <2>1, <2>2, <2>4, <3>3, <3>4, <3>5, <3>6, GoesOnKnowing
  <2> QED
    BY <2>3, <2>4
<1>10. CASE Act(r)
  <2>1. UNCHANGED <<tables, jar, session>> /\ req[r].op = "patch"
        /\ req' = [req EXCEPT ![r].pc = "write", ![r].user = user[Master(req[r].id)]]
    BY <1>2, <1>4, <1>10 DEF Act
  <2>2. PICK h : h = [req[r] EXCEPT !.pc = "write", !.user = user[Master(req[r].id)]]
    OBVIOUS
  <2>3. /\ h.op = req[r].op /\ h.browser = req[r].browser /\ h.sent = req[r].sent
        /\ h.user = user[Master(req[r].id)] /\ h.pc = "write" /\ h.id = req[r].id
    BY <1>1, <2>2 DEF Busy
  <2>4. req' = [req EXCEPT ![r] = h]
    BY <2>1, <2>2
  <2> QED
    BY <1>1, <2>1, <2>3, <2>4, GoesOnKnowing DEF Steps
<1>11. CASE CreateProfile(r)
  <2>1. PICK p \in Profiles :
          /\ profile[p] = "unused" /\ profile' = [profile EXCEPT ![p] = "live"]
          /\ req' = [req EXCEPT ![r].pc = "insert", ![r].id = p]
    BY <1>11, NextProfile DEF CreateProfile
  <2>2. req[r].op = "init" /\ UNCHANGED <<user, parent, of, jar>>
    BY <1>1, <1>11 DEF CreateProfile, Knows, Steps, Busy
  <2>3. /\ req'[r].pc = "insert" /\ req'[r].id = p /\ req'[r].op = "init"
        /\ req'[r].sent = req[r].sent /\ req'[r].browser = req[r].browser
    BY <1>1, <2>1, <2>2 DEF TypeOK, Busy
  <2>4. user[p] = NoUser /\ parent[p] = NoProfile /\ \A c \in Cookies : of[c] # p
    BY <2>1 DEF Orderly, Merged, OneCookie, Profiles, NoProfile
  <2>5. profile'[p] # "unused"
    BY <2>1 DEF TypeOK
  <2> QED
    BY <1>1, <2>2, <2>3, <2>4, <2>5 DEF Knows, Fresh, Steps
<1>12. CASE Remove(r)
  <2>1. PICK p \in Live :
          /\ p # req[r].id /\ parent[p] = req[r].id
          /\ profile' = [profile EXCEPT ![p] = "gone"]
          /\ user' = [user EXCEPT ![p] = NoUser]
          /\ parent' = [parent EXCEPT ![p] = NoProfile]
          /\ req' = [req EXCEPT ![r].family = @ \ {p}]
    BY <1>2, <1>12, RemoveTakes
  <2>2. req[r].op = "delete" /\ req[r].pc = "remove" /\ jar' = jar /\ Found(r)
    BY <1>12, RemoveTakes DEF Remove
  <2>3. PICK h : h = [req[r] EXCEPT !.family = @ \ {p}]
    OBVIOUS
  <2>4. /\ h.op = "delete" /\ h.browser = req[r].browser /\ h.sent = req[r].sent
        /\ h.user = req[r].user /\ h.pc = "remove" /\ h.id = req[r].id
        /\ h.family = req[r].family \ {p}
    BY <1>1, <2>2, <2>3 DEF Busy
  <2>5. h = req'[r]
    BY <2>1, <2>3 DEF TypeOK
  <2>6. p \in Profiles /\ h.id \in Profiles /\ h.id # NoProfile
    BY <2>2, <2>4 DEF Found, Live, Profiles, NoProfile
  <2>7. \A k \in Profiles : parent'[k] = IF k = p THEN NoProfile ELSE parent[k]
    BY <2>1 DEF TypeOK
  <2>8. h.family = {h.id} \cup {k \in Profiles : parent'[k] = h.id}
    BY <2>1, <2>2, <2>4, <2>6, <2>7 DEF Found, Children
  <2>9. h.id \in Live' /\ parent'[h.id] = NoProfile
    BY <2>1, <2>2, <2>4, <2>6, <2>7 DEF Found, Live, TypeOK
  <2>10. Found(r)'
    BY <2>5, <2>8, <2>9 DEF Found, Children
  <2> QED
    BY <1>1, <2>2, <2>4, <2>5, <2>10 DEF Knows, Steps
<1> QED
  BY <1>2, <1>5, <1>7, <1>8, <1>9, <1>10, <1>11, <1>12
  DEF Serve, InsertCookie, Write, Deactivate, RequestFails

\* What a request arrives with.
LEMMA KnowsFrom ==
  ASSUME TypeOK, Orderly, NEW r \in Requests, NEW b \in Browsers, NEW u \in OptUser,
         NEW op \in {"init", "me", "patch", "login", "signup", "logout", "delete"},
         NEW pc \in {"cookie", "find"}, pc \in Steps(op),
         Arrive(r, op, pc, b, u),
         op \in {"login", "signup"} =>
           pc = "cookie" /\ u \in Users /\ session[b] = NoUser /\ session'[b] = u,
         op = "logout" => pc = "find" /\ u \in Users /\ session'[b] = u,
         op = "delete" => pc = "find" /\ u \in Users
  PROVE  Knows(r)'
<1>1. PICK h \in Busy :
        /\ req' = [req EXCEPT ![r] = h]
        /\ h.op = op /\ h.pc = pc /\ h.browser = b /\ h.sent = jar[b] /\ h.user = u
  BY ArriveProceeds
<1>2. h = req'[r]
  BY <1>1 DEF TypeOK
<1>3. UNCHANGED <<user, parent, cookie, of, jar>>
  BY DEF Arrive, tables
<1>4. \A d \in Browsers : jar'[d] # NoCookie /\ jar'[d] = h.sent => d = h.browser
  BY <1>1, <1>3 DEF Orderly, OneCookie
<1>5. op \in {"login", "signup"} /\ h.sent # NoCookie => Leads(req[r].sent, req[r].user)'
  <2> SUFFICES ASSUME op \in {"login", "signup"}, h.sent # NoCookie
               PROVE  Leads(req[r].sent, req[r].user)'
    OBVIOUS
  <2>1. jar[b] \in ActiveCookies => SessionUser(jar[b]) = NoUser
    BY <1>1 DEF Orderly, OneCookie, Leads
  <2>2. req'[r].sent = jar[b] /\ ActiveCookies' = ActiveCookies
    BY <1>1, <1>2, <1>3 DEF ActiveCookies
  <2>3. SessionUser(req[r].sent)' = SessionUser(jar[b])
    BY <1>3, <2>2 DEF SessionUser, Master
  <2> QED
    BY <2>1, <2>2, <2>3 DEF Leads
<1>6. h.pc # "insert" /\ h.pc # "write"
  BY <1>1
<1> QED
  BY <1>1, <1>2, <1>3, <1>4, <1>5, <1>6 DEF Knows

LEMMA ArrivalKnows ==
  ASSUME TypeOK, Orderly, NEW r \in Requests,
         \/ \E b \in Browsers : Visit(r, b) \/ LogOut(r, b)
         \/ \E b \in Browsers, u \in Users : LogIn(r, b, u)
         \/ \E u \in Users : DeleteUser(r, u)
  PROVE  Knows(r)'
<1>1. ASSUME NEW b \in Browsers, Visit(r, b) PROVE Knows(r)'
  <2>1. PICK op \in {"init", "me", "patch"} : Arrive(r, op, "cookie", b, session[b])
    BY <1>1 DEF Visit
  <2>2. "cookie" \in Steps(op)
    BY DEF Steps
  <2>3. session[b] \in OptUser
    BY DEF TypeOK
  <2> QED
    BY <2>1, <2>2, <2>3, KnowsFrom
<1>2. ASSUME NEW b \in Browsers, LogOut(r, b) PROVE Knows(r)'
  <2>1. Arrive(r, "logout", "find", b, session[b]) /\ session' = session
    BY <1>2 DEF LogOut
  <2>2. session[b] \in Users
    BY <1>2 DEF LogOut, TypeOK, OptUser
  <2>3. "find" \in Steps("logout")
    BY DEF Steps
  <2> QED
    BY <2>1, <2>2, <2>3, KnowsFrom DEF OptUser
<1>3. ASSUME NEW b \in Browsers, NEW u \in Users, LogIn(r, b, u) PROVE Knows(r)'
  <2>1. session[b] = NoUser /\ session'[b] = u
    BY <1>3 DEF LogIn, TypeOK
  <2>2. PICK op \in {"login", "signup"} : Arrive(r, op, "cookie", b, u)
    BY <1>3 DEF LogIn
  <2>3. "cookie" \in Steps(op)
    BY DEF Steps
  <2> QED
    BY <2>1, <2>2, <2>3, KnowsFrom DEF OptUser
<1>4. ASSUME NEW u \in Users, DeleteUser(r, u) PROVE Knows(r)'
  <2>1. PICK b \in Browsers : Arrive(r, "delete", "find", b, u)
    BY <1>4, SessionAssumption DEF DeleteUser
  <2>2. "find" \in Steps("delete")
    BY DEF Steps
  <2> QED
    BY <2>1, <2>2, KnowsFrom DEF OptUser
<1> QED
  BY <1>1, <1>2, <1>3, <1>4

\* While a writer is at work, the steps of the others change nothing that it knows.
LEMMA WriterUndisturbed ==
  ASSUME TypeOK, TypeOK', HandlerInv, Orderly, Next, ~crossed',
         NEW q \in Requests, req[q].op \in Writers, ~Serve(q)
  PROVE  /\ UNCHANGED <<user, parent, session>> /\ Live \subseteq Live'
         /\ \A c \in Cookies : cookie[c] # "unused" =>
              (cookie'[c] = "active" <=> cookie[c] = "active") /\ of'[c] = of[c]
<1>1. ASSUME UNCHANGED tables, UNCHANGED session
      PROVE  /\ UNCHANGED <<user, parent, session>> /\ Live \subseteq Live'
             /\ \A c \in Cookies : cookie[c] # "unused" =>
                  (cookie'[c] = "active" <=> cookie[c] = "active") /\ of'[c] = of[c]
  BY <1>1 DEF tables, Live
<1>2. ASSUME NEW r \in Requests, Serve(r), r # q
      PROVE  /\ UNCHANGED <<user, parent, session>> /\ Live \subseteq Live'
             /\ \A c \in Cookies : cookie[c] # "unused" =>
                  (cookie'[c] = "active" <=> cookie[c] = "active") /\ of'[c] = of[c]
  <2>1. req[r] # Free /\ req[r] \in Busy
    BY <1>2, AtWork DEF Serve, ReadCookie, Show, CreateProfile, InsertCookie, Find, Act, Write,
                        Owned, Deactivate, Remove, RequestFails
  <2>2. req[r].op \notin Writers
    BY <1>2 DEF Orderly, OneWriter
  <2>3. req[r].op \in {"init", "me"}
    BY <2>1, <2>2 DEF Busy, Writers
  <2>4. req[r].pc \in {"cookie", "show", "create", "insert", "find", "act"}
    BY <2>1, <2>3 DEF Orderly, Known, Knows, Steps
  <2>5. session' = session
    <3>1. \A b \in Browsers : session'[b] = session[b]
      BY <1>2, <2>3, ServeSession
    <3> QED
      BY <3>1 DEF TypeOK
  <2>6. CASE CreateProfile(r)
    <3>1. PICK p \in Profiles : profile[p] = "unused" /\ profile' = [profile EXCEPT ![p] = "live"]
      BY <2>6, NextProfile DEF CreateProfile
    <3>2. Live \subseteq Live'
      BY <3>1 DEF Live, TypeOK
    <3> QED
      BY <2>6, <3>2 DEF CreateProfile
  <2>7. CASE InsertCookie(r)
    <3>1. PICK c \in Cookies :
            /\ cookie[c] = "unused"
            /\ \/ UNCHANGED <<cookie, of>>
               \/ /\ cookie' = [cookie EXCEPT ![c] = "active"]
                  /\ of' = [of EXCEPT ![c] = req[r].id]
      BY <2>7, NextCookie DEF InsertCookie
    <3>2. \A d \in Cookies : d # c => cookie'[d] = cookie[d] /\ of'[d] = of[d]
      BY <3>1 DEF TypeOK
    <3> QED
      BY <2>5, <2>7, <3>1, <3>2 DEF InsertCookie, Live
  <2> QED
    BY <1>1, <1>2, <2>4, <2>5, <2>6, <2>7
    DEF Serve, ReadCookie, Show, Find, Act, Write, Owned, Deactivate, Remove, RequestFails
<1>3. ASSUME NEW r \in Requests, Handle(r), ~Serve(r)
      PROVE  UNCHANGED tables /\ UNCHANGED session
  <2>1. ~Quiet
    BY DEF Quiet
  <2>2. \A op, pc, b, u : Arrive(r, op, pc, b, u) => UNCHANGED tables /\ op \notin Writers
    BY <2>1 DEF Arrive
  <2>3. \A b, u : ~LogIn(r, b, u)
    BY <2>2 DEF LogIn, Writers
  <2> QED
    BY <1>3, <2>2, <2>3, HandleArrives DEF Visit, LogOut, DeleteUser
<1>4. ~Unify
  BY UnifyMerges
<1>5. CASE SweepBatch
  <2>1. PICK S \in Doomed : cookie' = [c \in Cookies |-> IF c \in S THEN "gone" ELSE cookie[c]]
    BY <1>5 DEF SweepBatch
  <2>2. \A c \in Cookies : cookie'[c] = "active" <=> cookie[c] = "active"
    BY <2>1 DEF Doomed, InactiveCookies
  <2> QED
    BY <1>5, <2>2 DEF SweepBatch, Live
<1> QED
  BY <1>1, <1>2, <1>3, <1>4, <1>5 DEF Next

LEMMA OthersKnow ==
  ASSUME TypeOK, TypeOK', HandlerInv, UsedInv, Orderly, Next, ~crossed',
         NEW q \in Requests, req[q] # Free, req'[q] = req[q], ~Serve(q)
  PROVE  Knows(q)'
<1>1. Knows(q)
  BY DEF Orderly, Known
<1>2. \A b \in Browsers : jar'[b] = jar[b] \/ (/\ cookie[jar'[b]] = "unused"
                                               /\ jar'[b] \in Cookies
                                               /\ SessionUser(jar[b])' = NoUser)
  <2>1. CASE jar' = jar
    BY <2>1
  <2>2. ASSUME NEW r \in Requests, Serve(r), ~InsertCookie(r) PROVE jar' = jar
    BY <2>2 DEF Serve, ReadCookie, Show, CreateProfile, Find, Act, Write, Owned, Deactivate,
                Remove, RequestFails
  <2>3. ASSUME NEW r \in Requests, Arrives(r) PROVE jar' = jar
    BY <2>3 DEF Arrives, Arrive
  <2>4. CASE Unify \/ SweepBatch
    BY <2>4 DEF Unify, SweepBatch
  <2> QED
    BY <2>1, <2>2, <2>3, <2>4, CookieOfInsert, HandleSteps DEF Next
<1>3. \A f : req[q].pc = "insert" /\ f = req[q].id => Fresh(f)'
  BY FreshStays
<1>4. req[q].op \in Writers =>
           /\ UNCHANGED <<user, parent, session>> /\ Live \subseteq Live'
           /\ \A c \in Cookies : cookie[c] # "unused" =>
                (cookie'[c] = "active" <=> cookie[c] = "active") /\ of'[c] = of[c]
  BY WriterUndisturbed
<1> QED
  BY <1>1, <1>2, <1>3, <1>4, KnowsStays

LEMMA KnownStep ==
  ASSUME TypeOK, TypeOK', HandlerInv, UsedInv, Orderly, Next, ~crossed'
  PROVE  Known'
<1> SUFFICES ASSUME NEW q \in Requests, req'[q] # Free PROVE Knows(q)'
  BY DEF Known
<1>1. CASE Serve(q)
  BY <1>1, OwnKnows
<1>2. CASE ~Serve(q) /\ Handle(q)
  BY <1>2, HandleArrives, ArrivalKnows
<1>3. CASE ~Handle(q)
  <2>1. ~Serve(q)
    BY <1>3 DEF Handle, Serve
  <2>2. req'[q] = req[q]
    <3>1. ASSUME NEW r \in Requests, Handle(r) PROVE req'[q] = req[q]
      <4>1. r # q
        BY <1>3, <3>1
      <4>2. PICK h : req' = [req EXCEPT ![r] = h]
        BY <3>1, HandleSteps, ServeProceeds DEF Proceeds, GoesOn, Arrives, Arrive
      <4> QED
        BY <4>1, <4>2 DEF TypeOK
    <3>2. CASE Unify \/ SweepBatch
      BY <3>2 DEF Unify, SweepBatch
    <3> QED
      BY <3>1, <3>2 DEF Next
  <2> QED
    BY <2>1, <2>2, OthersKnow
<1> QED
  BY <1>1, <1>2, <1>3

\* Each request that inserts a cookie has created a profile of its own.
LEMMA FreshDifferStep ==
  ASSUME TypeOK, HandlerInv, Orderly, Next
  PROVE  FreshDiffer'
<1>1. ASSUME NEW r \in Requests, Handle(r), ~CreateProfile(r)
      PROVE  \A q \in Requests : req'[q].pc = "insert" => req'[q] = req[q]
  <2>1. PICK h : req' = [req EXCEPT ![r] = h] /\ h.pc # "insert"
    <3>1. CASE Serve(r)
      <4>1. req[r] # Free /\ req[r] \in Busy
        BY <3>1, AtWork DEF Serve, ReadCookie, Show, CreateProfile, InsertCookie, Find, Act,
                            Write, Owned, Deactivate, Remove, RequestFails
      <4>2. CASE Answered(r)
        <5>1. Free.pc # "insert"
          BY DEF Free
        <5> QED
          BY <4>2, <5>1 DEF Answered
      <4>3. ASSUME NEW pc \in {"create", "find", "write", "deactivate"}, Goto(r, pc)
            PROVE  \E h : req' = [req EXCEPT ![r] = h] /\ h.pc # "insert"
        <5>1. PICK h : h = [req[r] EXCEPT !.pc = pc]
          OBVIOUS
        <5>2. h.pc # "insert"
          BY <4>1, <5>1 DEF Busy
        <5> QED
          BY <4>3, <5>1, <5>2 DEF Goto
      <4>4. CASE ReadCookie(r) /\ ~Goto(r, "create") /\ ~Goto(r, "find") /\ ~Answered(r)
        <5>1. PICK v, i, pc : /\ v = req[r].sent /\ i = CookieProfile(req[r].sent)
                              /\ pc = IF req[r].op \in {"me", "patch"} THEN "act" ELSE "show"
          OBVIOUS
        <5>2. req' = [req EXCEPT ![r].via = v, ![r].id = i, ![r].pc = pc]
          BY <4>4, <5>1 DEF ReadCookie
        <5>3. PICK h : h = [req[r] EXCEPT !.via = v, !.id = i, !.pc = pc]
          OBVIOUS
        <5>4. h.pc = pc /\ pc # "insert"
          BY <4>1, <5>1, <5>3 DEF Busy
        <5>5. h.pc # "insert" /\ req' = [req EXCEPT ![r] = h]
          BY <5>2, <5>3, <5>4
        <5> QED
          BY <5>5
      <4>5. CASE Find(r) /\ ~Goto(r, "write") /\ ~Answered(r)
        <5>0. PICK pc : pc = CASE req[r].op = "logout" -> "owned"
                               [] req[r].op = "delete" -> "remove"
                               [] OTHER -> "act"
          OBVIOUS
        <5>1. PICK i, f :
                /\ f = {i} \cup Children(i)
                /\ req' = [req EXCEPT ![r].id = i, ![r].family = f, ![r].pc = pc]
          BY <4>5, <5>0 DEF Find
        <5>2. PICK h : h = [req[r] EXCEPT !.id = i, !.family = f, !.pc = pc]
          OBVIOUS
        <5>3. h.pc = pc /\ pc # "insert"
          BY <4>1, <5>0, <5>2 DEF Busy
        <5>4. h.pc # "insert" /\ req' = [req EXCEPT ![r] = h]
          BY <5>1, <5>2, <5>3
        <5> QED
          BY <5>4
      <4>6. CASE Act(r) /\ ~Answered(r)
        <5>1. PICK h : h = [req[r] EXCEPT !.pc = "write", !.user = user[Master(req[r].id)]]
          OBVIOUS
        <5>2. h.pc # "insert" /\ req' = [req EXCEPT ![r] = h]
          BY <4>1, <4>6, <5>1 DEF Act, Busy
        <5> QED
          BY <5>2
      <4>7. CASE Remove(r) /\ ~Answered(r)
        <5>1. PICK p : req' = [req EXCEPT ![r].family = @ \ {p}] /\ req[r].pc = "remove"
          BY <4>7 DEF Remove
        <5>2. PICK h : h = [req[r] EXCEPT !.family = @ \ {p}]
          OBVIOUS
        <5>3. h.pc # "insert" /\ req' = [req EXCEPT ![r] = h]
          BY <4>1, <5>1, <5>2 DEF Busy
        <5> QED
          BY <5>3
      <4>8. CASE Goto(r, "create") \/ Goto(r, "find") \/ Goto(r, "write") \/ Goto(r, "deactivate")
        BY <4>3, <4>8
      <4> QED
        BY <1>1, <3>1, <4>2, <4>4, <4>5, <4>6, <4>7, <4>8
        DEF Serve, ReadCookie, Show, InsertCookie, Find, Act, Write, Owned, Deactivate, Remove,
            RequestFails
    <3>2. CASE Arrives(r)
      BY <3>2, ArriveProceeds DEF Arrives
    <3> QED
      BY <1>1, <3>1, <3>2, HandleSteps
  <2> QED
    BY <2>1 DEF TypeOK
<1>2. CASE \A q \in Requests : req'[q].pc = "insert" => req'[q] = req[q]
  BY <1>2 DEF Orderly, FreshDiffer
<1>3. ASSUME NEW r \in Requests, CreateProfile(r) PROVE FreshDiffer'
  <2>1. req[r] \in Busy
    BY <1>3, AtWork DEF CreateProfile
  <2>2. PICK p \in Profiles :
          profile[p] = "unused" /\ req' = [req EXCEPT ![r].pc = "insert", ![r].id = p]
    BY <1>3, NextProfile DEF CreateProfile
  <2>3. /\ req'[r].id = p
        /\ \A q \in Requests : q # r => req'[q] = req[q]
    BY <2>1, <2>2 DEF TypeOK, Busy
  <2>4. \A q \in Requests : req[q].pc = "insert" => req[q].id # p
    <3> SUFFICES ASSUME NEW q \in Requests, req[q].pc = "insert", req[q].id = p PROVE FALSE
      OBVIOUS
    <3>1. req[q] # Free
      BY DEF Free
    <3>2. profile[req[q].id] # "unused"
      BY <3>1 DEF Orderly, Known, Knows, Fresh
    <3> QED
      BY <2>2, <3>2
  <2> QED
    BY <2>3, <2>4 DEF Orderly, FreshDiffer
<1>4. CASE Unify \/ SweepBatch
  BY <1>2, <1>4 DEF Unify, SweepBatch
<1> QED
  BY <1>1, <1>2, <1>3, <1>4 DEF Next

LEMMA CrossedStays ==
  ASSUME crossed, [Next]_vars
  PROVE  crossed'
<1>1. ASSUME NEW r \in Requests, Serve(r) PROVE crossed'
  BY <1>1 DEF Serve, ReadCookie, Show, CreateProfile, InsertCookie, Find, Act, Write, Owned,
              Deactivate, Remove, RequestFails
<1>2. ASSUME NEW r \in Requests, Handle(r), ~Serve(r) PROVE crossed'
  BY <1>2, HandleArrives DEF Visit, LogOut, LogIn, DeleteUser, Arrive
<1> QED
  BY <1>1, <1>2 DEF Next, Unify, SweepBatch, vars

\* Requests that write one after the other leave everything in order.
LEMMA OrderlyStep ==
  ASSUME TypeOK, TypeOK', HandlerInv, UsedInv, crossed \/ Orderly, [Next]_vars
  PROVE  (crossed \/ Orderly)'
<1> SUFFICES ASSUME ~crossed' PROVE Orderly'
  OBVIOUS
<1>1. Orderly
  BY CrossedStays
<1>2. CASE Next
  BY <1>1, <1>2, OneWriterStep, RowsStep, CookieStep, KnownStep, FreshDifferStep DEF Orderly
<1>3. CASE UNCHANGED vars
  <2>1. /\ UNCHANGED <<profile, user, parent, cookie, of, jar, session, queue, req>>
        /\ ActiveCookies' = ActiveCookies /\ Live' = Live
        /\ \A p : Master(p)' = Master(p) /\ Children(p)' = Children(p)
        /\ \A c : SessionUser(c)' = SessionUser(c)
        /\ \A u : ReferencesOf(u)' = ReferencesOf(u)
    BY <1>3 DEF vars, tables, ActiveCookies, Live, Master, Children, SessionUser, ReferencesOf
  <2>2. OneWriter' /\ Merged' /\ FreshDiffer'
    BY <1>1, <2>1 DEF Orderly, OneWriter, Merged, FreshDiffer
  <2>3. OneReference'
    BY <1>1, <2>1 DEF Orderly, OneReference, ReferencesOf, Live, Children
  <2>4. OneCookie'
    BY <1>1, <2>1 DEF Orderly, OneCookie, Leads, SessionUser, Master
  <2>5. Known'
    <3> SUFFICES ASSUME NEW q \in Requests, req'[q] # Free PROVE Knows(q)'
      BY DEF Known
    <3>1. req[q] # Free /\ Knows(q) /\ req'[q] = req[q]
      BY <1>1, <2>1 DEF Orderly, Known
    <3>2. \A f : req[q].pc = "insert" /\ f = req[q].id => Fresh(f)'
      BY <2>1, <3>1 DEF Knows, Fresh
    <3> QED
      BY <2>1, <3>1, <3>2, KnowsStays
  <2> QED
    BY <2>2, <2>3, <2>4, <2>5 DEF Orderly
<1> QED
  BY <1>2, <1>3

LEMMA OrderlyInit ==
  ASSUME Init
  PROVE  Orderly
<1>1. /\ \A r \in Requests : req[r] = Free
      /\ Free.op \notin Writers /\ Free.pc # "insert"
      /\ queue = <<>> /\ jar = Visited /\ session = LoggedIn
      /\ \A p \in Profiles : parent[p] = NoProfile
      /\ \A p \in Profiles : profile[p] = IF p \in Range(Visited) THEN "live" ELSE "unused"
  BY DEF Init, Free, Writers
<1>2. \A b \in Browsers :
        /\ Visited[b] \in Profiles /\ Visited[b] \in Cookies /\ Visited[b] \in Range(Visited)
        /\ \A d \in Browsers : Visited[b] = Visited[d] => b = d
  BY SessionAssumption DEF Range, IsInjective
<1>3. \A p \in Range(Visited) : \E b \in Browsers : Visited[b] = p
  BY SessionAssumption DEF Range
<1>4. \A b \in Browsers : user[Visited[b]] = LoggedIn[b]
  <2> SUFFICES ASSUME NEW b \in Browsers PROVE user[Visited[b]] = LoggedIn[b]
    OBVIOUS
  <2>1. user[Visited[b]] = LoggedIn[CHOOSE d \in Browsers : Visited[d] = Visited[b]]
    BY <1>2 DEF Init
  <2>2. (CHOOSE d \in Browsers : Visited[d] = Visited[b]) = b
    BY <1>2
  <2> QED
    BY <2>1, <2>2
<1>5. \A p \in Profiles : p \notin Range(Visited) => user[p] = NoUser
  BY DEF Init
<1>6. /\ \A c \in Cookies : cookie[c] = IF c \in Range(Visited) THEN "active" ELSE "unused"
      /\ \A c \in Cookies : of[c] = IF c \in Range(Visited) THEN c ELSE NoProfile
  BY DEF Init
<1>7. OneWriter /\ Known /\ FreshDiffer
  BY <1>1 DEF OneWriter, Known, FreshDiffer
<1>8. Merged
  BY <1>1, <1>5 DEF Merged
<1>9. OneReference
  <2> SUFFICES ASSUME NEW u \in Users, NEW p \in ReferencesOf(u), NEW q \in ReferencesOf(u), p # q
               PROVE  FALSE
    BY <1>1 DEF OneReference
  <2>1. p \in Profiles /\ user[p] = u /\ q \in Profiles /\ user[q] = u /\ u # NoUser
    BY SessionAssumption DEF ReferencesOf, Live
  <2>2. PICK b \in Browsers, d \in Browsers : Visited[b] = p /\ Visited[d] = q
    BY <1>3, <1>5, <2>1
  <2>3. b # d /\ LoggedIn[b] = u /\ LoggedIn[d] = u
    BY <1>4, <2>1, <2>2
  <2> QED
    BY <2>1, <2>3, SessionAssumption
<1>10. OneCookie
  <2>1. \A c \in ActiveCookies : c \in Range(Visited) /\ of[c] = c /\ c \in Profiles
    BY <1>2, <1>3, <1>6 DEF ActiveCookies
  <2>2. \A c \in ActiveCookies : of[c] \in Live
    BY <1>1, <2>1 DEF Live
  <2>3. \A c \in Cookies : of[c] # NoProfile => profile[of[c]] # "unused"
    BY <1>1, <1>2, <1>3, <1>6
  <2>4. ASSUME NEW b \in Browsers PROVE SessionUser(jar[b]) = session[b]
    <3>1. of[jar[b]] = Visited[b]
      BY <1>1, <1>2, <1>6
    <3>2. Master(Visited[b]) = Visited[b]
      BY <1>1, <1>2 DEF Master
    <3> QED
      BY <1>1, <1>4, <3>1, <3>2 DEF SessionUser
  <2> QED
    BY <1>1, <1>2, <2>1, <2>2, <2>3, <2>4 DEF OneCookie, Leads
<1> QED
  BY <1>7, <1>8, <1>9, <1>10 DEF Orderly

\* Every request that is under way or answered, and the rows that it finds, are in order until
\* two that write overlap or one of them fails.
LEMMA OrderInvariant == Spec => [](TypeOK /\ HandlerInv /\ SessionInv /\ (crossed \/ Orderly))
<1>1. TypeOK /\ HandlerInv /\ SessionInv /\ (crossed \/ Orderly) /\ [Next]_vars /\ TypeOK'
        => (crossed \/ Orderly)'
  BY OrderlyStep DEF SessionInv
<1>2. Init => crossed \/ Orderly
  BY OrderlyInit
<1> QED
  BY <1>1, <1>2, SessionInvariant, TypesInvariant, PTL DEF Spec

\* When a termination has been answered, the cookie it was sent with is in use for no profile
\* of the user who logged out: the profile that it was sent for is in the family that was found,
\* whichever of the two the worker has merged into the other.
THEOREM EndSafety == Spec => LogoutEndsSession
<1>1. ASSUME TypeOK, HandlerInv, crossed \/ Orderly, Next, ~crossed',
             NEW r \in Requests, NEW c \in Cookies,
             req[r].op = "logout", req'[r] = Free, c = req[r].sent, c \in ActiveCookies'
      PROVE  SessionUser(c)' # req[r].user
  <2>1. Orderly
    BY <1>1, CrossedStays
  <2>2. req[r] # Free
    BY <1>1 DEF Free
  <2>3. Serve(r)
    <3>1. ASSUME NEW s \in Requests, Handle(s), s # r PROVE FALSE
      <4>1. PICK h : req' = [req EXCEPT ![s] = h]
        BY <1>1, <3>1, HandleSteps, ServeProceeds DEF Proceeds, GoesOn, Arrives, Arrive
      <4>2. req'[r] = req[r]
        BY <1>1, <3>1, <4>1 DEF TypeOK
      <4> QED
        BY <1>1, <2>2, <4>2
    <3>2. ~Arrives(r)
      BY <2>2 DEF Arrives, Arrive
    <3>3. ~Unify /\ ~SweepBatch
      BY <1>1, <2>2 DEF Unify, SweepBatch
    <3> QED
      BY <1>1, <3>1, <3>2, <3>3, HandleSteps DEF Next
  <2> QED
    BY <1>1, <2>1, <2>3, TerminationEnds
<1>2. TypeOK /\ HandlerInv /\ (crossed \/ Orderly) /\ [Next]_vars =>
        [\A r \in Requests, c \in Cookies :
           req[r].op = "logout" /\ req'[r] = Free /\ ~crossed' /\ c = req[r].sent
             /\ c \in ActiveCookies' => SessionUser(c)' # req[r].user]_vars
  BY <1>1
<1> QED
  BY <1>2, OrderInvariant, PTL DEF Spec, LogoutEndsSession

\* A profile that has a user keeps it until it is deleted: what a sign-up or a login writes, it
\* writes into a profile that has none and has nothing merged into it, and a visitor's update
\* writes back the user that it has read.
THEOREM UserSafety == Spec => ProfileKeepsUser
<1>1. ASSUME TypeOK, HandlerInv, crossed \/ Orderly, Next, ~crossed',
             NEW p \in Profiles, user[p] \in Users, user'[p] \in Users
      PROVE  user'[p] = user[p]
  <2>1. Orderly /\ user[p] # NoUser /\ user'[p] # NoUser
    BY <1>1, CrossedStays, SessionAssumption
  <2>2. CASE UNCHANGED user
    BY <2>2
  <2>3. ASSUME NEW r \in Requests, Write(r) PROVE user'[p] = user[p]
    <3>1. CASE user' = [user EXCEPT ![req[r].id] = req[r].user] /\ user[req[r].id] = NoUser
      BY <1>1, <2>1, <3>1 DEF TypeOK
    <3> QED
      BY <1>1, <2>1, <2>2, <2>3, <3>1, WriteChanges
  <2>4. ASSUME NEW r \in Requests, Remove(r) PROVE user'[p] = user[p]
    <3>1. PICK k : user' = [user EXCEPT ![k] = NoUser]
      BY <2>4 DEF Remove
    <3> QED
      BY <1>1, <2>1, <3>1 DEF TypeOK
  <2>5. ASSUME NEW r \in Requests, Handle(r), ~Write(r), ~Remove(r) PROVE UNCHANGED user
    BY <1>1, <2>5, HandleSteps
    DEF Serve, ReadCookie, Show, CreateProfile, InsertCookie, Find, Act, Owned, Deactivate,
        RequestFails, Arrives, Arrive, tables
  <2>6. CASE Unify \/ SweepBatch
    BY <2>2, <2>6 DEF Unify, SweepBatch
  <2> QED
    BY <1>1, <2>2, <2>3, <2>4, <2>5, <2>6 DEF Next
<1>2. TypeOK /\ HandlerInv /\ (crossed \/ Orderly) /\ [Next]_vars =>
        [\A p \in Profiles :
           user[p] \in Users /\ user'[p] \in Users /\ ~crossed' => user'[p] = user[p]]_vars
  BY <1>1
<1> QED
  BY <1>2, OrderInvariant, PTL DEF Spec, ProfileKeepsUser
==============================================================================
