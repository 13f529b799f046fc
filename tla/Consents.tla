------------------------------ MODULE Consents ------------------------------
(***************************************************************************)
(* Consent categories, the consents of a profile, and what an application  *)
(* may read of it.                                                         *)
(*                                                                         *)
(*   internal/consent/{handler,service,store}            category, covers  *)
(*   internal/profile/service/consent_filter_service.go  req               *)
(*   internal/profile/{handler,service,store}            profile, consent  *)
(*   internal/profile_schema/store                       attr, fresh       *)
(*                                                                         *)
(* Each step is one statement on the database, or one transaction, except  *)
(* that the one which replaces the consents of a profile is two steps:     *)
(* PostgreSQL runs it at READ COMMITTED.  Categories have no names here:   *)
(* the check for a name in use finds one or not.  An attribute is what     *)
(* attributeKey makes of its name: the key in the profile's data.          *)
(***************************************************************************)
EXTENDS Naturals, FiniteSets, Functions

CONSTANTS Profiles,
          Categories,   \* category identifiers, those not yet generated included
          Mandatory,    \* the category that enabling the organization has seeded
          Known,        \* the other categories there are at the start,
          Covering,     \*   the attributes that each of them covers
          Consented,    \*   and those that every profile has consented to
          Attributes,   \* names of the profile schema
          Identity,     \* those of scope identity_attributes
          FirstIds,     \* their ids at the start
          AttributeIds, \* a bound: attributes get the ids 1..AttributeIds
          Payloads,     \* the lists of consents that a PUT may carry
          Requests,     \* handler goroutines, each free again when it has answered
          Arrivals,     \* requests that arrive in all (a bound)
          Failures      \* may a call to the database fail?

NoId == 0

ASSUME ConsentAssumption ==
  /\ Mandatory \in Categories
  /\ Known \subseteq Categories \ {Mandatory}
  /\ Identity \subseteq Attributes
  /\ Covering \in [Known -> SUBSET Attributes]
  /\ Consented \subseteq Known
  /\ Payloads \subseteq {[yes |-> yes, no |-> no] : yes, no \in SUBSET Categories}
  /\ \A list \in Payloads : list.yes \cap list.no = {}
  /\ AttributeIds \in Nat
  /\ Cardinality(Attributes) \in 0..AttributeIds
  /\ FirstIds \in [Attributes -> 1..Cardinality(Attributes)]
  /\ IsInjective(FirstIds)
  /\ Arrivals \in Nat
  /\ Failures \in BOOLEAN

VARIABLES
  profile,  \* the profiles there are
  category, \* the row of consent_categories: not yet there, there, or deleted
  covers,   \* the rows of consent_category_attributes, by category
  consent,  \* the rows of profile_consents, by profile and category
  attr,     \* attribute_id of each name in profile_schema, or NoId
  fresh,    \* the next attribute_id
  req,      \* what each handler goroutine is at
  left,     \* requests that may still arrive
  recent    \* consents given by the last PUT of a profile or by one that overlapped it

tables == <<profile, category, covers, consent, attr, fresh>>
vars   == <<tables, req, left, recent>>

Free == [op |-> "none", pc |-> "free"]

Rows == Attributes \X (1..AttributeIds)

\* `seen` is what the DELETE statement of a PUT found, `beside` what PUTs committed since
\* it arrived have given.
Puts ==
  [op : {"put"}, pc : {"profile", "mandatory", "delete", "insert"}, profile : Profiles,
   yes : SUBSET Categories, no : SUBSET Categories,
   seen : SUBSET Categories, beside : SUBSET Categories]

\* `may` is the consents in force since a GET arrived, `steady` the identity attributes
\* that were there all the time.
Gets ==
  [op : {"get"}, pc : {"profile", "mandatory", "consents", "split", "schema", "attributes"},
   profile : Profiles, ask : SUBSET Categories, granted : SUBSET Categories,
   always : SUBSET Categories, shown : SUBSET Attributes,
   may : SUBSET Categories, steady : SUBSET Attributes]

Editors ==
  [op : {"add", "update", "remove"}, pc : {"check", "resolve", "write"},
   category : Categories, todo : SUBSET Attributes, rows : SUBSET Rows]

Handlers == {Free} \cup Puts \cup Gets \cup Editors

TypeOK ==
  /\ profile \subseteq Profiles
  /\ category \in [Categories -> {"unused", "live", "gone"}]
  /\ covers \in [Categories -> SUBSET Rows]
  /\ consent \in [Profiles -> [Categories -> {"none", "given", "refused"}]]
  /\ attr \in [Attributes -> 0..AttributeIds]
  /\ fresh \in 1..(AttributeIds + 1)
  /\ req \in [Requests -> Handlers]
  /\ left \in 0..Arrivals
  /\ recent \in [Profiles -> SUBSET Categories]

Init ==
  /\ profile = Profiles
  /\ category = [c \in Categories |-> IF c \in Known \cup {Mandatory} THEN "live" ELSE "unused"]
  /\ covers = [c \in Categories |-> IF c \in Known THEN {<<a, FirstIds[a]>> : a \in Covering[c]}
                                    ELSE {}]
  /\ consent = [p \in Profiles |-> [c \in Categories |-> IF c \in Consented THEN "given"
                                                         ELSE "none"]]
  /\ attr = FirstIds
  /\ fresh = Cardinality(Attributes) + 1
  /\ req = [r \in Requests |-> Free]
  /\ left = Arrivals
  /\ recent = [p \in Profiles |-> Consented]

-----------------------------------------------------------------------------
(***************************************************************************)
(* The tables.                                                             *)
(***************************************************************************)

Live == {c \in Categories : category[c] = "live"}

\* GetMandatoryConsentCategoryIds: the flag is written when the organization is enabled.
MandatoryIds == Live \cap {Mandatory}

\* The rows of profile_consents with consent_status TRUE.
Given(p) == {c \in Categories : consent[p][c] = "given"}

Recorded(p) == {c \in Categories : consent[p][c] # "none"}

InSchema(rows) == \A row \in rows : attr[row[1]] = row[2]

\* The rows that refer to a category go with it, as do a profile's consents with the
\* profile, and the rows of the categories with the attribute.
Without(c) == [p \in Profiles |-> [consent[p] EXCEPT ![c] = "none"]]

-----------------------------------------------------------------------------
(***************************************************************************)
(* Requests.                                                               *)
(***************************************************************************)

Arrive(r, h) ==
  /\ req[r] = Free /\ left > 0
  /\ left' = left - 1
  /\ req' = [req EXCEPT ![r] = h]
  /\ UNCHANGED <<tables, recent>>

\* PUT /profiles/{id}/consents with a list of categories consented to or refused.
PutConsents(r, p) ==
  \E list \in Payloads :
    Arrive(r, [op |-> "put", pc |-> "profile", profile |-> p, yes |-> list.yes, no |-> list.no,
               seen |-> {}, beside |-> {}])

\* GET /profiles/{id} of an application that is not a system application, with the
\* categories it asks for.
GetProfile(r, p) ==
  \E ask \in SUBSET Categories :
    Arrive(r, [op |-> "get", pc |-> "profile", profile |-> p, ask |-> ask, granted |-> {},
               always |-> {}, shown |-> {}, may |-> recent[p],
               steady |-> {a \in Identity : attr[a] # NoId}])

\* POST, PUT and DELETE of /consent-categories.
AddCategory(r) ==
  \E c \in Categories, names \in SUBSET Attributes :
    /\ category[c] = "unused"
    /\ \A q \in Requests : req[q].op = "add" => req[q].category # c
    /\ Arrive(r, [op |-> "add", pc |-> "check", category |-> c, todo |-> names, rows |-> {}])

UpdateCategory(r) ==
  \E c \in Categories, names \in SUBSET Attributes :
    /\ category[c] # "unused"
    /\ Arrive(r, [op |-> "update", pc |-> "check", category |-> c, todo |-> names, rows |-> {}])

RemoveCategory(r) ==
  \E c \in Categories :
    /\ category[c] # "unused"
    /\ Arrive(r, [op |-> "remove", pc |-> "check", category |-> c, todo |-> {}, rows |-> {}])

Goto(r, pc) == req' = [req EXCEPT ![r].pc = pc]
Answered(r) == req' = [req EXCEPT ![r] = Free]

\* A failed call to the database ends the request; a transaction is rolled back.
RequestFails(r) ==
  /\ Failures /\ req[r] # Free
  /\ Answered(r)
  /\ UNCHANGED <<tables, left, recent>>

-----------------------------------------------------------------------------
(***************************************************************************)
(* The consents of a profile are replaced.                                 *)
(***************************************************************************)

\* GetProfile: 404 for a profile that is not there, whatever else is asked of it.
ReadProfile(r) ==
  /\ req[r].pc = "profile"
  /\ IF req[r].profile \in profile THEN Goto(r, "mandatory") ELSE Answered(r)
  /\ UNCHANGED <<tables, left, recent>>

\* A list with a mandatory category is refused.
CheckPayload(r) ==
  /\ req[r].op = "put" /\ req[r].pc = "mandatory"
  /\ IF (req[r].yes \cup req[r].no) \cap MandatoryIds = {} THEN Goto(r, "delete") ELSE Answered(r)
  /\ UNCHANGED <<tables, left, recent>>

\* Seeded fault: only the categories of the list are deleted, as for an upsert.
DeleteConsents_OfList(r) ==
  /\ req[r].pc = "delete"
  /\ req' = [req EXCEPT ![r].seen = Recorded(req[r].profile) \cap (req[r].yes \cup req[r].no),
                        ![r].pc = "insert"]
  /\ UNCHANGED <<tables, left, recent>>

\* DELETE FROM profile_consents: the rows that it sees are locked, and go at the commit.
DeleteConsents(r) ==
  /\ req[r].pc = "delete"
  /\ req' = [req EXCEPT ![r].seen = Recorded(req[r].profile), ![r].pc = "insert"]
  /\ UNCHANGED <<tables, left, recent>>

Commit(r, p, rows) ==
  /\ consent' = [consent EXCEPT ![p] = rows]
  /\ recent' = [recent EXCEPT ![p] = req[r].yes \cup req[r].beside]
  /\ req' = [q \in Requests |->
       CASE q = r -> Free
         [] q # r /\ req[q].op = "put" /\ req[q].profile = p ->
              [req[q] EXCEPT !.seen = @ \ req[r].seen, !.beside = @ \cup req[r].yes]
         [] q # r /\ req[q].op = "get" /\ req[q].profile = p ->
              [req[q] EXCEPT !.may = @ \cup req[r].yes \cup req[r].beside]
         [] OTHER -> req[q]]

\* The INSERT statements and the commit.  Of two transactions that saw the same row either
\* may have been the first to lock it; the other goes on when that one has committed, and
\* does not see what it inserted.  A row of the same category, a category or a profile
\* that is gone refuses the insert, and the transaction is rolled back.
InsertConsents(r) ==
  /\ req[r].op = "put" /\ req[r].pc = "insert"
  /\ LET h == req[r]
         p == h.profile
         kept == Recorded(p) \ h.seen
     IN  IF h.yes \cup h.no = {} \/ (/\ p \in profile /\ h.yes \cup h.no \subseteq Live
                                     /\ kept \cap (h.yes \cup h.no) = {})
         THEN Commit(r, p, [c \in Categories |->
                CASE c \in h.yes -> "given"
                  [] c \in h.no -> "refused"
                  [] c \in kept -> consent[p][c]
                  [] OTHER -> "none"])
         ELSE Answered(r) /\ UNCHANGED <<consent, recent>>
  /\ UNCHANGED <<profile, category, covers, attr, fresh, left>>

-----------------------------------------------------------------------------
(***************************************************************************)
(* A profile is read under consents: FilterProfileByConsent.               *)
(***************************************************************************)

\* The mandatory categories are added to those that were asked for.
AskMandatory(r) ==
  /\ req[r].op = "get" /\ req[r].pc = "mandatory"
  /\ req' = [req EXCEPT ![r].ask = @ \cup MandatoryIds, ![r].pc = "consents"]
  /\ UNCHANGED <<tables, left, recent>>

\* Seeded fault: any record of the profile counts, whatever its status.
ReadConsents_Recorded(r) ==
  /\ req[r].pc = "consents"
  /\ req' = [req EXCEPT ![r].granted = Recorded(req[r].profile), ![r].pc = "split"]
  /\ UNCHANGED <<tables, left, recent>>

\* The consents of the profile of the path, not of the master whose data is shown.
ReadConsents(r) ==
  /\ req[r].pc = "consents"
  /\ req' = [req EXCEPT ![r].granted = Given(req[r].profile), ![r].pc = "split"]
  /\ UNCHANGED <<tables, left, recent>>

\* Seeded fault: a mandatory category counts when it is consented to, like the others.
Split_OnlyGranted(r) ==
  /\ req[r].pc = "split"
  /\ req' = [req EXCEPT ![r].always = @ \cup (req[r].ask \cap MandatoryIds \cap req[r].granted),
                        ![r].granted = (req[r].ask \ MandatoryIds) \cap @, ![r].pc = "schema"]
  /\ UNCHANGED <<tables, left, recent>>

\* The mandatory categories are read again; of the others count those consented to.
Split(r) ==
  /\ req[r].pc = "split"
  /\ req' = [req EXCEPT ![r].always = req[r].ask \cap MandatoryIds,
                        ![r].granted = (req[r].ask \ MandatoryIds) \cap @, ![r].pc = "schema"]
  /\ UNCHANGED <<tables, left, recent>>

\* A mandatory category covers the identity attributes that the schema has now.
ReadSchema(r) ==
  /\ req[r].pc = "schema"
  /\ req' = [req EXCEPT ![r].shown = IF req[r].always = {} THEN {}
                                     ELSE {a \in Identity : attr[a] # NoId},
                        ![r].pc = "attributes"]
  /\ UNCHANGED <<tables, left, recent>>

\* What the profile is filtered by: the union over the categories that count.
Allowed(r) ==
  req[r].shown \cup {row[1] : row \in UNION {covers[c] : c \in req[r].granted}}

\* getAttributesByCategoryIds, and the answer.
ShowProfile(r) ==
  /\ req[r].pc = "attributes"
  /\ Answered(r)
  /\ UNCHANGED <<tables, left, recent>>

-----------------------------------------------------------------------------
(***************************************************************************)
(* Categories are added, updated and removed.                              *)
(***************************************************************************)

\* A new category's name may be in use; guardMandatoryCategory lets a category pass that
\* is not there.
CheckCategory(r) ==
  /\ req[r].pc = "check"
  /\ \/ IF req[r].category \in MandatoryIds THEN Answered(r)
        ELSE Goto(r, IF req[r].op = "remove" THEN "write" ELSE "resolve")
     \/ req[r].op = "add" /\ Live # {} /\ Answered(r)
  /\ UNCHANGED <<tables, left, recent>>

\* Seeded fault: the error of a name that the schema does not have is passed over.
Resolve_AnyName(r) ==
  /\ req[r].pc = "resolve"
  /\ LET h == req[r] IN
     IF h.todo = {} THEN Goto(r, "write")
     ELSE LET a == CHOOSE x \in h.todo : TRUE IN
          req' = [req EXCEPT ![r].todo = @ \ {a}, ![r].rows = @ \cup {<<a, attr[a]>>}]
  /\ UNCHANGED <<tables, left, recent>>

\* resolveAttributeScopes, one attribute of the list after another.
Resolve(r) ==
  /\ req[r].pc = "resolve"
  /\ LET h == req[r] IN
     IF h.todo = {} THEN Goto(r, "write")
     ELSE LET a == CHOOSE x \in h.todo : TRUE IN
          IF attr[a] = NoId THEN Answered(r)
          ELSE req' = [req EXCEPT ![r].todo = @ \ {a}, ![r].rows = @ \cup {<<a, attr[a]>>}]
  /\ UNCHANGED <<tables, left, recent>>

\* AddConsentCategory: a row whose attribute_id is gone refuses the category as well.
InsertCategory(r) ==
  /\ req[r].op = "add" /\ req[r].pc = "write"
  /\ LET h == req[r] IN
     IF InSchema(h.rows) THEN /\ category' = [category EXCEPT ![h.category] = "live"]
                              /\ covers' = [covers EXCEPT ![h.category] = h.rows]
                         ELSE UNCHANGED <<category, covers>>
  /\ Answered(r)
  /\ UNCHANGED <<profile, consent, attr, fresh, left, recent>>

\* UpdateConsentCategory: the rows are replaced, those of a category that is gone refused.
ReplaceRows(r) ==
  /\ req[r].op = "update" /\ req[r].pc = "write"
  /\ LET h == req[r] IN
     covers' = IF h.category \in Live /\ InSchema(h.rows)
               THEN [covers EXCEPT ![h.category] = h.rows] ELSE covers
  /\ Answered(r)
  /\ UNCHANGED <<profile, category, consent, attr, fresh, left, recent>>

\* DeleteConsentCategory.
DeleteCategory(r) ==
  /\ req[r].op = "remove" /\ req[r].pc = "write"
  /\ LET c == req[r].category IN
     /\ category' = [category EXCEPT ![c] = "gone"]
     /\ covers' = [covers EXCEPT ![c] = {}]
     /\ consent' = Without(c)
  /\ Answered(r)
  /\ UNCHANGED <<profile, attr, fresh, left, recent>>

-----------------------------------------------------------------------------
(***************************************************************************)
(* What else writes the tables.                                            *)
(***************************************************************************)

\* Seeded fault: the foreign key without ON DELETE CASCADE lets the rows stand.
DeleteAttribute_NoCascade(a) ==
  /\ attr[a] # NoId
  /\ attr' = [attr EXCEPT ![a] = NoId]
  /\ req' = [r \in Requests |-> IF req[r].op = "get" THEN [req[r] EXCEPT !.steady = @ \ {a}]
                               ELSE req[r]]
  /\ UNCHANGED <<profile, category, covers, consent, fresh, left, recent>>

\* An attribute is deleted, by an administrator or by a schema sync.
DeleteAttribute(a) ==
  /\ attr[a] # NoId
  /\ attr' = [attr EXCEPT ![a] = NoId]
  /\ covers' = [c \in Categories |-> {row \in covers[c] : row[1] # a}]
  /\ req' = [r \in Requests |-> IF req[r].op = "get" THEN [req[r] EXCEPT !.steady = @ \ {a}]
                               ELSE req[r]]
  /\ UNCHANGED <<profile, category, consent, fresh, left, recent>>

\* It is added again, under another id.
AddAttribute(a) ==
  /\ attr[a] = NoId /\ fresh <= AttributeIds
  /\ attr' = [attr EXCEPT ![a] = fresh]
  /\ fresh' = fresh + 1
  /\ UNCHANGED <<profile, category, covers, consent, req, left, recent>>

DeleteProfile(p) ==
  /\ p \in profile
  /\ profile' = profile \ {p}
  /\ consent' = [consent EXCEPT ![p] = [c \in Categories |-> "none"]]
  /\ UNCHANGED <<category, covers, attr, fresh, req, left, recent>>

-----------------------------------------------------------------------------
Handle(r) ==
  \/ \E p \in Profiles : PutConsents(r, p) \/ GetProfile(r, p)
  \/ AddCategory(r) \/ UpdateCategory(r) \/ RemoveCategory(r)
  \/ ReadProfile(r) \/ CheckPayload(r) \/ DeleteConsents(r) \/ InsertConsents(r)
  \/ AskMandatory(r) \/ ReadConsents(r) \/ Split(r) \/ ReadSchema(r) \/ ShowProfile(r)
  \/ CheckCategory(r) \/ Resolve(r) \/ InsertCategory(r) \/ ReplaceRows(r) \/ DeleteCategory(r)
  \/ RequestFails(r)

Next ==
  \/ \E r \in Requests : Handle(r)
  \/ \E a \in Attributes : DeleteAttribute(a) \/ AddAttribute(a)
  \/ \E p \in Profiles : DeleteProfile(p)

Spec == Init /\ [][Next]_vars

-----------------------------------------------------------------------------
\* consent.md: attribute_id enables "ON DELETE CASCADE when a schema attribute is removed".
\* Whatever is deleted between the look-up of an attribute and the transaction that stores
\* it, a row of a category refers to the attribute that the schema has under that name.
RowsInSchema == \A c \in Categories : InSchema(covers[c]) /\ (covers[c] # {} => c \in Live)

\* "The PUT replaces the full consent record set": a consent in force was given by the
\* last PUT of the profile that was carried out, or by one that overlapped it.
RevokedStaysRevoked == \A p \in Profiles : Given(p) \subseteq recent[p]

\* "non-consented categories contribute nothing": a GET is filtered by no consent that was
\* out of force already when it arrived.
ReadsInForce ==
  \A r \in Requests :
    req[r].op = "get" /\ req[r].pc \in {"schema", "attributes"} =>
      req[r].granted \subseteq req[r].may \ {Mandatory}

\* consent_filter_service.go: "This ensures identity attributes are never stripped", whatever
\* is tried on the mandatory category and whatever becomes of the schema meanwhile.
IdentityNeverStripped ==
  \A r \in Requests :
    req[r].op = "get" /\ req[r].pc = "attributes" => req[r].steady \subseteq Allowed(r)

\* "The PUT replaces the full consent record set for the profile": when it has been carried
\* out, its list is what the profile consents to.
PutReplaces ==
  [][\A r \in Requests, p \in Profiles :
       req[r].op = "put" /\ req[r].profile = p /\ req'[r] = Free /\ consent'[p] # consent[p]
         => Given(p)' = req[r].yes]_vars
=============================================================================
