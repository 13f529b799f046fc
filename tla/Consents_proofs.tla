--------------------------- MODULE Consents_proofs ---------------------------
(***************************************************************************)
(* What Consents promises for any profiles, categories, attributes and     *)
(* requests: a category covers what the schema has, a consent that was     *)
(* taken back stays taken back, reads use consents in force, and identity  *)
(* attributes are never stripped.                                          *)
(***************************************************************************)
EXTENDS Consents, TLAPS

-----------------------------------------------------------------------------
(* Type correctness.                                                       *)

EditorOps == {"add", "update", "remove"}

\* A handler is told apart by its operation.
LEMMA HandlerKinds ==
  ASSUME NEW h \in Handlers
  PROVE  /\ h.op = "none" => h = Free
         /\ h.op = "put" <=> h \in Puts
         /\ h.op = "get" <=> h \in Gets
         /\ h.op \in EditorOps <=> h \in Editors
<1>1. Free.op = "none"
  BY DEF Free
<1>2. h \in Puts => h.op = "put"
  BY DEF Puts
<1>3. h \in Gets => h.op = "get"
  BY DEF Gets
<1>4. h \in Editors => h.op \in EditorOps
  BY DEF Editors, EditorOps
<1> QED
  BY <1>1, <1>2, <1>3, <1>4 DEF Handlers, EditorOps

\* What a handler is at tells which it may be.
LEMMA HandlerPlaces ==
  ASSUME NEW h \in Handlers
  PROVE  /\ h.pc = "profile" => h \in Puts \cup Gets
         /\ h.pc = "delete" => h \in Puts
         /\ h.pc \in {"consents", "split", "schema", "attributes"} => h \in Gets
         /\ h.pc \in {"check", "resolve"} => h \in Editors
<1>1. Free.pc = "free"
  BY DEF Free
<1>2. h \in Puts => h.pc \in {"profile", "mandatory", "delete", "insert"}
  BY DEF Puts
<1>3. h \in Gets => h.pc \in {"profile", "mandatory", "consents", "split", "schema", "attributes"}
  BY DEF Gets
<1>4. h \in Editors => h.pc \in {"check", "resolve", "write"}
  BY DEF Editors
<1> QED
  BY <1>1, <1>2, <1>3, <1>4 DEF Handlers

LEMMA StepTypes ==
  ASSUME req \in [Requests -> Handlers], NEW r \in Requests, NEW h \in Handlers,
         req' = [req EXCEPT ![r] = h]
  PROVE  req' \in [Requests -> Handlers]
OBVIOUS

LEMMA AnsweredTypes ==
  ASSUME TypeOK, NEW r \in Requests, Answered(r)
  PROVE  req' \in [Requests -> Handlers]
BY StepTypes DEF Answered, TypeOK, Handlers

LEMMA ArriveTypes ==
  ASSUME TypeOK, NEW r \in Requests, NEW h \in Handlers, Arrive(r, h)
  PROVE  TypeOK'
<1>1. left' \in 0..Arrivals
  BY ConsentAssumption DEF Arrive, TypeOK, ConsentAssumption
<1>2. req' \in [Requests -> Handlers]
  BY StepTypes DEF Arrive, TypeOK
<1> QED
  BY <1>1, <1>2 DEF Arrive, TypeOK, tables

\* A GET keeps its type when an attribute goes.
LEMMA SteadyTypes ==
  ASSUME TypeOK, NEW a,
         req' = [r \in Requests |-> IF req[r].op = "get" THEN [req[r] EXCEPT !.steady = @ \ {a}]
                                    ELSE req[r]]
  PROVE  req' \in [Requests -> Handlers]
<1> SUFFICES ASSUME NEW r \in Requests, req[r].op = "get"
             PROVE  [req[r] EXCEPT !.steady = @ \ {a}] \in Handlers
  BY DEF TypeOK
<1>1. req[r] \in Handlers
  BY DEF TypeOK
<1>2. req[r] \in Gets
  BY <1>1, HandlerKinds
<1> QED
  BY <1>2 DEF Gets, Handlers

\* A commit tells the others of the profile what was deleted and given.
LEMMA CommitTypes ==
  ASSUME TypeOK, NEW r \in Requests, NEW p \in Profiles, req[r] \in Puts,
         NEW rows \in [Categories -> {"none", "given", "refused"}], Commit(r, p, rows)
  PROVE  /\ req' \in [Requests -> Handlers]
         /\ consent' \in [Profiles -> [Categories -> {"none", "given", "refused"}]]
         /\ recent' \in [Profiles -> SUBSET Categories]
<1> DEFINE h == req[r]
<1>1. h.yes \in SUBSET Categories /\ h.beside \in SUBSET Categories
  BY DEF Puts
<1>2. ASSUME NEW q \in Requests, req[q].op = "put"
      PROVE  [req[q] EXCEPT !.seen = @ \ h.seen, !.beside = @ \cup h.yes] \in Handlers
  <2>1. req[q] \in Handlers
    BY DEF TypeOK
  <2>2. req[q] \in Puts
    BY <1>2, <2>1, HandlerKinds
  <2> QED
    BY <1>1, <2>2 DEF Puts, Handlers
<1>3. ASSUME NEW q \in Requests, req[q].op = "get"
      PROVE  [req[q] EXCEPT !.may = @ \cup h.yes \cup h.beside] \in Handlers
  <2>1. req[q] \in Handlers
    BY DEF TypeOK
  <2>2. req[q] \in Gets
    BY <1>3, <2>1, HandlerKinds
  <2> QED
    BY <1>1, <2>2 DEF Gets, Handlers
<1>4. Free \in Handlers /\ \A q \in Requests : req[q] \in Handlers
  BY DEF TypeOK, Handlers
<1>5. req' \in [Requests -> Handlers]
  BY <1>2, <1>3, <1>4 DEF Commit
<1>6. h.yes \cup h.beside \in SUBSET Categories
  BY <1>1
<1> QED
  BY <1>5, <1>6 DEF Commit, TypeOK

\* Arrivals.
LEMMA ArrivalTypes ==
  ASSUME TypeOK, NEW r \in Requests,
         \/ \E p \in Profiles : PutConsents(r, p) \/ GetProfile(r, p)
         \/ AddCategory(r) \/ UpdateCategory(r) \/ RemoveCategory(r)
  PROVE  TypeOK'
<1>1. ASSUME NEW p \in Profiles, PutConsents(r, p) PROVE TypeOK'
  <2> DEFINE h(list) == [op |-> "put", pc |-> "profile", profile |-> p, yes |-> list.yes,
                         no |-> list.no, seen |-> {}, beside |-> {}]
  <2>1. PICK list \in Payloads : Arrive(r, h(list))
    BY <1>1 DEF PutConsents
  <2>2. list.yes \in SUBSET Categories /\ list.no \in SUBSET Categories
    BY ConsentAssumption DEF ConsentAssumption
  <2>3. h(list) \in Handlers
    BY <2>2 DEF Handlers, Puts
  <2> QED
    BY <2>1, <2>3, ArriveTypes
<1>2. ASSUME NEW p \in Profiles, GetProfile(r, p) PROVE TypeOK'
  <2> DEFINE h(ask) == [op |-> "get", pc |-> "profile", profile |-> p, ask |-> ask,
                        granted |-> {}, always |-> {}, shown |-> {}, may |-> recent[p],
                        steady |-> {a \in Identity : attr[a] # NoId}]
  <2>1. PICK ask \in SUBSET Categories : Arrive(r, h(ask))
    BY <1>2 DEF GetProfile
  <2>2. /\ recent[p] \in SUBSET Categories
        /\ {a \in Identity : attr[a] # NoId} \in SUBSET Attributes
    BY ConsentAssumption DEF TypeOK, ConsentAssumption
  <2>3. h(ask) \in Handlers
    BY <2>2 DEF Handlers, Gets
  <2> QED
    BY <2>1, <2>3, ArriveTypes
<1> DEFINE edit(op, c, names) == [op |-> op, pc |-> "check", category |-> c, todo |-> names,
                                  rows |-> {}]
<1>3. \A op \in EditorOps, c \in Categories, names \in SUBSET Attributes :
        edit(op, c, names) \in Handlers
  BY DEF Handlers, Editors, EditorOps
<1> HIDE DEF edit
<1>4. CASE AddCategory(r)
  <2>1. \E c \in Categories, names \in SUBSET Attributes : Arrive(r, edit("add", c, names))
    BY <1>4 DEF AddCategory, edit
  <2> QED
    BY <1>3, <2>1, ArriveTypes DEF EditorOps
<1>5. CASE UpdateCategory(r)
  <2>1. \E c \in Categories, names \in SUBSET Attributes : Arrive(r, edit("update", c, names))
    BY <1>5 DEF UpdateCategory, edit
  <2> QED
    BY <1>3, <2>1, ArriveTypes DEF EditorOps
<1>6. CASE RemoveCategory(r)
  <2>1. \E c \in Categories : Arrive(r, edit("remove", c, {}))
    BY <1>6 DEF RemoveCategory, edit
  <2> QED
    BY <1>3, <2>1, ArriveTypes DEF EditorOps
<1> QED
  BY <1>1, <1>2, <1>4, <1>5, <1>6

\* Steps of a PUT and of a GET.
LEMMA ProfileTypes ==
  ASSUME TypeOK, NEW r \in Requests,
         \/ ReadProfile(r) \/ CheckPayload(r) \/ DeleteConsents(r) \/ InsertConsents(r)
         \/ AskMandatory(r) \/ ReadConsents(r) \/ Split(r) \/ ReadSchema(r) \/ ShowProfile(r)
  PROVE  TypeOK'
<1> DEFINE h == req[r]
<1>h. h \in Handlers
  BY DEF TypeOK
<1>p. \A p \in Profiles : Recorded(p) \in SUBSET Categories /\ Given(p) \in SUBSET Categories
  BY DEF Recorded, Given
<1>a. ASSUME req' \in [Requests -> Handlers], UNCHANGED <<tables, left, recent>> PROVE TypeOK'
  BY <1>a DEF TypeOK, tables
<1>b. ASSUME NEW k \in Handlers, req' = [req EXCEPT ![r] = k], UNCHANGED <<tables, left, recent>>
      PROVE TypeOK'
  BY <1>a, <1>b, StepTypes DEF TypeOK
<1>1. CASE ReadProfile(r)
  <2>1. [h EXCEPT !.pc = "mandatory"] \in Handlers
    <3>1. h \in Puts \cup Gets
      BY <1>1, <1>h, HandlerPlaces DEF ReadProfile
    <3> QED
      BY <3>1 DEF Handlers, Puts, Gets
  <2> QED
    BY <1>1, <1>a, <1>b, <2>1, AnsweredTypes DEF ReadProfile, Goto
<1>2. CASE CheckPayload(r)
  <2>1. [h EXCEPT !.pc = "delete"] \in Handlers
    <3>1. h \in Puts
      BY <1>2, <1>h, HandlerKinds DEF CheckPayload
    <3> QED
      BY <3>1 DEF Handlers, Puts
  <2> QED
    BY <1>2, <1>a, <1>b, <2>1, AnsweredTypes DEF CheckPayload, Goto
<1>3. CASE DeleteConsents(r)
  <2>1. h \in Puts
    BY <1>3, <1>h, HandlerPlaces DEF DeleteConsents
  <2>2. Recorded(h.profile) \in SUBSET Categories
    BY <1>p, <2>1 DEF Puts
  <2>3. [h EXCEPT !.seen = Recorded(h.profile), !.pc = "insert"] \in Handlers
    BY <2>1, <2>2 DEF Handlers, Puts
  <2> QED
    BY <1>3, <1>b, <2>3 DEF DeleteConsents
<1>4. CASE InsertConsents(r)
  <2> DEFINE p == h.profile
             kept == Recorded(p) \ h.seen
             rows == [c \in Categories |-> CASE c \in h.yes -> "given"
                                             [] c \in h.no -> "refused"
                                             [] c \in kept -> consent[p][c]
                                             [] OTHER -> "none"]
  <2>1. h \in Puts
    BY <1>4, <1>h, HandlerKinds DEF InsertConsents
  <2>2. p \in Profiles
    BY <2>1 DEF Puts
  <2>3. rows \in [Categories -> {"none", "given", "refused"}]
    BY <2>2 DEF TypeOK
  <2>4. Commit(r, p, rows) \/ (Answered(r) /\ UNCHANGED <<consent, recent>>)
    BY <1>4 DEF InsertConsents
  <2>5. UNCHANGED <<profile, category, covers, attr, fresh, left>>
    BY <1>4 DEF InsertConsents
  <2>6. CASE Commit(r, p, rows)
    <3> HIDE DEF rows, h, p
    <3> QED
      BY <2>1, <2>2, <2>3, <2>5, <2>6, CommitTypes DEF TypeOK, h, p
  <2>7. CASE Answered(r) /\ UNCHANGED <<consent, recent>>
    BY <2>5, <2>7, AnsweredTypes DEF TypeOK
  <2> QED
    BY <2>4, <2>6, <2>7
<1>5. CASE AskMandatory(r)
  <2>1. h \in Gets
    BY <1>5, <1>h, HandlerKinds DEF AskMandatory
  <2>2. [h EXCEPT !.ask = @ \cup MandatoryIds, !.pc = "consents"] \in Handlers
    BY <2>1 DEF Handlers, Gets, MandatoryIds, Live
  <2> QED
    BY <1>5, <1>b, <2>2 DEF AskMandatory
<1>6. CASE ReadConsents(r)
  <2>1. h \in Gets
    BY <1>6, <1>h, HandlerPlaces DEF ReadConsents
  <2>2. Given(h.profile) \in SUBSET Categories
    BY <1>p, <2>1 DEF Gets
  <2>3. [h EXCEPT !.granted = Given(h.profile), !.pc = "split"] \in Handlers
    BY <2>1, <2>2 DEF Handlers, Gets
  <2> QED
    BY <1>6, <1>b, <2>3 DEF ReadConsents
<1>7. CASE Split(r)
  <2>1. h \in Gets
    BY <1>7, <1>h, HandlerPlaces DEF Split
  <2>2. [h EXCEPT !.always = h.ask \cap MandatoryIds,
                  !.granted = (h.ask \ MandatoryIds) \cap @, !.pc = "schema"] \in Handlers
    BY <2>1 DEF Handlers, Gets
  <2> QED
    BY <1>7, <1>b, <2>2 DEF Split
<1>8. CASE ReadSchema(r)
  <2> DEFINE shown == IF h.always = {} THEN {} ELSE {a \in Identity : attr[a] # NoId}
  <2>1. h \in Gets
    BY <1>8, <1>h, HandlerPlaces DEF ReadSchema
  <2>2. shown \in SUBSET Attributes
    BY ConsentAssumption DEF ConsentAssumption
  <2>3. [h EXCEPT !.shown = shown, !.pc = "attributes"] \in Handlers
    BY <2>1, <2>2 DEF Handlers, Gets
  <2> QED
    BY <1>8, <1>b, <2>3 DEF ReadSchema
<1>9. CASE ShowProfile(r)
  BY <1>9, <1>a, AnsweredTypes DEF ShowProfile
<1> QED
  BY <1>1, <1>2, <1>3, <1>4, <1>5, <1>6, <1>7, <1>8, <1>9

\* Steps of the editors of categories.
LEMMA CategoryTypes ==
  ASSUME TypeOK, NEW r \in Requests,
         \/ CheckCategory(r) \/ Resolve(r) \/ InsertCategory(r) \/ ReplaceRows(r)
         \/ DeleteCategory(r)
  PROVE  TypeOK'
<1> DEFINE h == req[r]
<1>h. h \in Handlers
  BY DEF TypeOK
<1>a. ASSUME req' \in [Requests -> Handlers], UNCHANGED <<tables, left, recent>> PROVE TypeOK'
  BY <1>a DEF TypeOK, tables
<1>1. CASE CheckCategory(r)
  <2>1. h \in Editors
    BY <1>1, <1>h, HandlerPlaces DEF CheckCategory
  <2>2. \A pc \in {"write", "resolve"} : [h EXCEPT !.pc = pc] \in Handlers
    BY <2>1 DEF Handlers, Editors
  <2>3. Answered(r) \/ \E pc \in {"write", "resolve"} : req' = [req EXCEPT ![r].pc = pc]
    BY <1>1 DEF CheckCategory, Goto
  <2>4. req' \in [Requests -> Handlers]
    BY <2>2, <2>3, AnsweredTypes DEF TypeOK
  <2> QED
    BY <1>1, <1>a, <2>4 DEF CheckCategory
<1>2. CASE Resolve(r)
  <2>1. h \in Editors
    BY <1>2, <1>h, HandlerPlaces DEF Resolve
  <2>2. CASE h.todo = {}
    <3>1. [h EXCEPT !.pc = "write"] \in Handlers
      BY <2>1 DEF Handlers, Editors
    <3>2. req' \in [Requests -> Handlers]
      BY <1>2, <2>2, <3>1 DEF Resolve, Goto, TypeOK
    <3> QED
      BY <1>2, <1>a, <3>2 DEF Resolve
  <2>3. CASE h.todo # {}
    <3> DEFINE a == CHOOSE x \in h.todo : TRUE
    <3>1. a \in Attributes
      BY <2>1, <2>3 DEF Editors
    <3>2. Answered(r) \/ (/\ attr[a] # NoId
                         /\ req' = [req EXCEPT ![r].todo = @ \ {a},
                                               ![r].rows = @ \cup {<<a, attr[a]>>}])
      BY <1>2, <2>3 DEF Resolve
    <3>3. CASE attr[a] # NoId
      <4>1. attr[a] \in 0..AttributeIds
        BY <3>1 DEF TypeOK
      <4>2. attr[a] \in 1..AttributeIds
        BY <3>3, <4>1, ConsentAssumption DEF NoId, ConsentAssumption
      <4> HIDE DEF a
      <4>3. <<a, attr[a]>> \in Rows
        BY <3>1, <4>2 DEF Rows
      <4>4. [h EXCEPT !.todo = @ \ {a}, !.rows = @ \cup {<<a, attr[a]>>}] \in Handlers
        BY <2>1, <4>3 DEF Handlers, Editors
      <4>5. req' \in [Requests -> Handlers]
        BY <3>2, <4>4, AnsweredTypes DEF TypeOK
      <4> QED
        BY <1>2, <1>a, <4>5 DEF Resolve
    <3>4. CASE attr[a] = NoId
      BY <1>2, <1>a, <3>2, <3>4, AnsweredTypes DEF Resolve
    <3> QED
      BY <3>3, <3>4
  <2> QED
    BY <2>2, <2>3
<1>3. CASE InsertCategory(r)
  <2>1. h \in Editors
    BY <1>3, <1>h, HandlerKinds DEF InsertCategory, EditorOps
  <2>2. h.category \in Categories /\ h.rows \in SUBSET Rows
    BY <2>1 DEF Editors
  <2>3. req' \in [Requests -> Handlers]
    BY <1>3, AnsweredTypes DEF InsertCategory
  <2> QED
    BY <1>3, <2>2, <2>3 DEF InsertCategory, TypeOK
<1>4. CASE ReplaceRows(r)
  <2>1. h \in Editors
    BY <1>4, <1>h, HandlerKinds DEF ReplaceRows, EditorOps
  <2>2. h.category \in Categories /\ h.rows \in SUBSET Rows
    BY <2>1 DEF Editors
  <2>3. req' \in [Requests -> Handlers]
    BY <1>4, AnsweredTypes DEF ReplaceRows
  <2> QED
    BY <1>4, <2>2, <2>3 DEF ReplaceRows, TypeOK
<1>5. CASE DeleteCategory(r)
  <2>1. req' \in [Requests -> Handlers]
    BY <1>5, AnsweredTypes DEF DeleteCategory
  <2>2. Without(h.category) \in [Profiles -> [Categories -> {"none", "given", "refused"}]]
    BY DEF Without, TypeOK
  <2> QED
    BY <1>5, <2>1, <2>2 DEF DeleteCategory, TypeOK
<1> QED
  BY <1>1, <1>2, <1>3, <1>4, <1>5

LEMMA TypeStep == TypeOK /\ [Next]_vars => TypeOK'
<1> SUFFICES ASSUME TypeOK, [Next]_vars PROVE TypeOK'
  OBVIOUS
<1>1. ASSUME NEW r \in Requests, Handle(r) PROVE TypeOK'
  <2>1. CASE RequestFails(r)
    BY <2>1, AnsweredTypes DEF RequestFails, TypeOK, tables
  <2> QED
    BY <1>1, <2>1, ArrivalTypes, ProfileTypes, CategoryTypes DEF Handle
<1>2. ASSUME NEW a \in Attributes, DeleteAttribute(a) PROVE TypeOK'
  <2>1. req' \in [Requests -> Handlers]
    BY <1>2, SteadyTypes DEF DeleteAttribute
  <2>2. attr' \in [Attributes -> 0..AttributeIds]
    BY <1>2, ConsentAssumption DEF DeleteAttribute, TypeOK, NoId, ConsentAssumption
  <2>3. covers' \in [Categories -> SUBSET Rows]
    BY <1>2 DEF DeleteAttribute, TypeOK
  <2> QED
    BY <1>2, <2>1, <2>2, <2>3 DEF DeleteAttribute, TypeOK
<1>3. ASSUME NEW a \in Attributes, AddAttribute(a) PROVE TypeOK'
  <2>1. attr' \in [Attributes -> 0..AttributeIds] /\ fresh' \in 1..(AttributeIds + 1)
    BY <1>3, ConsentAssumption DEF AddAttribute, TypeOK, ConsentAssumption
  <2> QED
    BY <1>3, <2>1 DEF AddAttribute, TypeOK
<1>4. ASSUME NEW p \in Profiles, DeleteProfile(p) PROVE TypeOK'
  BY <1>4 DEF DeleteProfile, TypeOK
<1>5. CASE UNCHANGED vars
  BY <1>5 DEF vars, tables, TypeOK
<1> QED
  BY <1>1, <1>2, <1>3, <1>4, <1>5 DEF Next

LEMMA TypeInit == Init => TypeOK
<1> SUFFICES ASSUME Init PROVE TypeOK
  OBVIOUS
<1> USE ConsentAssumption DEF ConsentAssumption
<1>1. FirstIds \in [Attributes -> 1..AttributeIds]
  OBVIOUS
<1>2. attr \in [Attributes -> 0..AttributeIds] /\ fresh \in 1..(AttributeIds + 1)
  BY <1>1 DEF Init
<1>3. \A c \in Known : {<<a, FirstIds[a]>> : a \in Covering[c]} \in SUBSET Rows
  BY <1>1 DEF Rows
<1>4. covers \in [Categories -> SUBSET Rows]
  BY <1>3 DEF Init
<1>5. recent \in [Profiles -> SUBSET Categories] /\ left \in 0..Arrivals
  BY DEF Init
<1>6. req \in [Requests -> Handlers]
  BY DEF Init, Handlers
<1>7. /\ category \in [Categories -> {"unused", "live", "gone"}]
      /\ consent \in [Profiles -> [Categories -> {"none", "given", "refused"}]]
      /\ profile \subseteq Profiles
  BY DEF Init
<1> QED
  BY <1>2, <1>4, <1>5, <1>6, <1>7 DEF TypeOK

\* Every variable of Consents keeps its type; in particular an attribute that a category is
\* to cover always has an id of the schema.
THEOREM TypeCorrect == Spec => []TypeOK
<1> QED
  BY TypeInit, TypeStep, PTL DEF Spec

-----------------------------------------------------------------------------
(* A category covers what the schema has.                                  *)

\* Statements that leave categories and attributes alone keep what is covered.
LEMMA CoveredElsewhere ==
  ASSUME RowsInSchema, UNCHANGED <<category, covers, attr>>
  PROVE  RowsInSchema'
BY DEF RowsInSchema, InSchema, Live

\* A request that is not about a category writes no rows of one.
LEMMA RequestKeepsRows ==
  ASSUME NEW r \in Requests,
         \/ \E p \in Profiles : PutConsents(r, p) \/ GetProfile(r, p)
         \/ AddCategory(r) \/ UpdateCategory(r) \/ RemoveCategory(r)
         \/ ReadProfile(r) \/ CheckPayload(r) \/ DeleteConsents(r) \/ InsertConsents(r)
         \/ AskMandatory(r) \/ ReadConsents(r) \/ Split(r) \/ ReadSchema(r) \/ ShowProfile(r)
         \/ CheckCategory(r) \/ Resolve(r) \/ RequestFails(r)
  PROVE  UNCHANGED <<category, covers, attr>>
BY DEF PutConsents, GetProfile, AddCategory, UpdateCategory, RemoveCategory, Arrive, ReadProfile,
   CheckPayload, DeleteConsents, InsertConsents, AskMandatory, ReadConsents, Split, ReadSchema,
   ShowProfile, CheckCategory, Resolve, RequestFails, tables

LEMMA RowsStep ==
  ASSUME TypeOK, RowsInSchema, [Next]_vars
  PROVE  RowsInSchema'
<1>1. ASSUME NEW r \in Requests, Handle(r) PROVE RowsInSchema'
  <2> DEFINE h == req[r]
  <2>h. h \in Handlers
    BY DEF TypeOK
  <2>1. CASE InsertCategory(r)
    <3>1. h.category \in Categories
      BY <2>h, <2>1, HandlerKinds DEF InsertCategory, EditorOps, Editors
    <3>2. CASE InSchema(h.rows)
      <4>1. /\ category' = [category EXCEPT ![h.category] = "live"]
            /\ covers' = [covers EXCEPT ![h.category] = h.rows]
            /\ attr' = attr
        BY <2>1, <3>2 DEF InsertCategory
      <4> QED
        BY <3>1, <3>2, <4>1 DEF RowsInSchema, InSchema, Live, TypeOK
    <3>3. CASE ~InSchema(h.rows)
      BY <2>1, <3>3, CoveredElsewhere DEF InsertCategory
    <3> QED
      BY <3>2, <3>3
  <2>2. CASE ReplaceRows(r)
    <3>1. h.category \in Categories
      BY <2>h, <2>2, HandlerKinds DEF ReplaceRows, EditorOps, Editors
    <3>2. CASE h.category \in Live /\ InSchema(h.rows)
      <4>1. covers' = [covers EXCEPT ![h.category] = h.rows] /\ UNCHANGED <<category, attr>>
        BY <2>2, <3>2 DEF ReplaceRows
      <4> QED
        BY <3>1, <3>2, <4>1 DEF RowsInSchema, InSchema, Live, TypeOK
    <3>3. CASE ~(h.category \in Live /\ InSchema(h.rows))
      BY <2>2, <3>3, CoveredElsewhere DEF ReplaceRows
    <3> QED
      BY <3>2, <3>3
  <2>3. CASE DeleteCategory(r)
    <3>1. h.category \in Categories
      BY <2>h, <2>3, HandlerKinds DEF DeleteCategory, EditorOps, Editors
    <3>2. /\ category' = [category EXCEPT ![h.category] = "gone"]
          /\ covers' = [covers EXCEPT ![h.category] = {}]
          /\ attr' = attr
      BY <2>3 DEF DeleteCategory
    <3> QED
      BY <3>1, <3>2 DEF RowsInSchema, InSchema, Live, TypeOK
  <2> QED
    BY <1>1, <2>1, <2>2, <2>3, RequestKeepsRows, CoveredElsewhere DEF Handle
<1>2. ASSUME NEW a \in Attributes, DeleteAttribute(a) PROVE RowsInSchema'
  <2> SUFFICES ASSUME NEW c \in Categories
               PROVE  InSchema(covers[c])' /\ (covers'[c] # {} => c \in Live')
    BY DEF RowsInSchema
  <2>1. covers'[c] = {row \in covers[c] : row[1] # a} /\ attr' = [attr EXCEPT ![a] = NoId]
        /\ category' = category
    BY <1>2 DEF DeleteAttribute
  <2>2. \A row \in covers'[c] : row \in Rows /\ row[1] # a /\ attr[row[1]] = row[2]
    BY <2>1 DEF TypeOK, RowsInSchema, InSchema
  <2>3. \A row \in covers'[c] : attr'[row[1]] = row[2]
    BY <2>1, <2>2 DEF TypeOK, Rows
  <2> QED
    BY <2>1, <2>3 DEF InSchema, RowsInSchema, Live
<1>3. ASSUME NEW a \in Attributes, AddAttribute(a) PROVE RowsInSchema'
  <2> SUFFICES ASSUME NEW c \in Categories
               PROVE  InSchema(covers[c])' /\ (covers'[c] # {} => c \in Live')
    BY DEF RowsInSchema
  <2>1. covers' = covers /\ category' = category /\ attr' = [attr EXCEPT ![a] = fresh]
        /\ attr[a] = NoId
    BY <1>3 DEF AddAttribute
  <2>2. ASSUME NEW row \in covers[c] PROVE row[1] \in Attributes \ {a} /\ attr[row[1]] = row[2]
    <3>1. row \in Rows /\ attr[row[1]] = row[2]
      BY DEF TypeOK, RowsInSchema, InSchema
    <3>2. row[1] \in Attributes /\ row[2] \in 1..AttributeIds
      BY <3>1 DEF Rows
    <3>3. row[2] # NoId
      BY <3>2, ConsentAssumption DEF NoId, ConsentAssumption
    <3> QED
      BY <2>1, <3>1, <3>2, <3>3
  <2>3. \A row \in covers[c] : attr'[row[1]] = row[2]
    BY <2>1, <2>2 DEF TypeOK
  <2> QED
    BY <2>1, <2>3 DEF InSchema, RowsInSchema, Live
<1>4. ASSUME NEW p \in Profiles, DeleteProfile(p) PROVE RowsInSchema'
  BY <1>4, CoveredElsewhere DEF DeleteProfile
<1>5. CASE UNCHANGED vars
  BY <1>5, CoveredElsewhere DEF vars, tables
<1> QED
  BY <1>1, <1>2, <1>3, <1>4, <1>5 DEF Next

LEMMA RowsInit == Init => RowsInSchema
<1> SUFFICES ASSUME Init, NEW c \in Categories
             PROVE  InSchema(covers[c]) /\ (covers[c] # {} => c \in Live)
  BY DEF RowsInSchema
<1>1. CASE c \in Known
  <2>1. covers[c] = {<<a, FirstIds[a]>> : a \in Covering[c]} /\ category[c] = "live"
        /\ attr = FirstIds
    BY <1>1 DEF Init
  <2>2. \A row \in covers[c] : attr[row[1]] = row[2]
    BY <2>1
  <2> QED
    BY <2>1, <2>2 DEF InSchema, Live
<1>2. CASE c \notin Known
  BY <1>2 DEF Init, InSchema
<1> QED
  BY <1>1, <1>2

\* A row of a category refers to the attribute that the schema has under that name, however
\* many requests look attributes up while others delete and add them: "ON DELETE CASCADE
\* when a schema attribute is removed" (consent.md).
THEOREM RowsSafety == Spec => []RowsInSchema
<1>1. TypeOK /\ RowsInSchema /\ [Next]_vars => RowsInSchema'
  BY RowsStep
<1> QED
  BY <1>1, RowsInit, TypeCorrect, PTL DEF Spec

-----------------------------------------------------------------------------
(* Consents in force and identity attributes.                              *)

\* What a PUT has not seen of the consents in force was given beside it.
PutRemembers(r) ==
  req[r].op = "put" /\ req[r].pc = "insert" =>
    Given(req[r].profile) \ req[r].seen \subseteq req[r].beside

\* A GET knows of every consent in force since it arrived, and took no other.
GetRemembers(r) ==
  req[r].op = "get" =>
    /\ recent[req[r].profile] \subseteq req[r].may
    /\ req[r].pc \in {"split", "schema", "attributes"} => req[r].granted \subseteq req[r].may
    /\ req[r].pc \in {"schema", "attributes"} => Mandatory \notin req[r].granted

\* The mandatory category stays with a GET until the identity attributes are read.
GetAsksMandatory(r) ==
  req[r].op = "get" =>
    /\ req[r].steady \subseteq {a \in Identity : attr[a] # NoId}
    /\ req[r].pc \in {"consents", "split"} => Mandatory \in req[r].ask
    /\ req[r].pc = "schema" => Mandatory \in req[r].always
    /\ req[r].pc = "attributes" => req[r].steady \subseteq req[r].shown

\* No editor gets past its check with the mandatory category.
EditorSpares(r) ==
  req[r].op \in EditorOps /\ req[r].pc # "check" => req[r].category # Mandatory

Holds(r) == PutRemembers(r) /\ GetRemembers(r) /\ GetAsksMandatory(r) /\ EditorSpares(r)

MandatoryStays == Mandatory \in Live

ConsentInv ==
  /\ TypeOK
  /\ MandatoryStays
  /\ RevokedStaysRevoked
  /\ \A r \in Requests : Holds(r)

\* A request that is not answered holds what it held when no more is consented to.
LEMMA HoldsElsewhere ==
  ASSUME ConsentInv, NEW r \in Requests, req'[r] = req[r], recent' = recent, attr' = attr,
         \A p \in Profiles : Given(p)' \subseteq Given(p)
  PROVE  Holds(r)'
<1>1. req[r] \in Handlers
  BY DEF ConsentInv, TypeOK
<1>2. req[r].op = "put" => req[r].profile \in Profiles
  BY <1>1, HandlerKinds DEF Puts
<1>3. Holds(r)
  BY DEF ConsentInv
<1>4. PutRemembers(r)'
  <2>1. SUFFICES ASSUME req[r].op = "put", req[r].pc = "insert"
                 PROVE  Given(req[r].profile)' \ req[r].seen \subseteq req[r].beside
    BY DEF PutRemembers, Given
  <2>2. Given(req[r].profile)' \subseteq Given(req[r].profile)
    BY <1>2, <2>1
  <2> QED
    BY <1>3, <2>1, <2>2 DEF Holds, PutRemembers
<1>5. GetRemembers(r)' /\ GetAsksMandatory(r)' /\ EditorSpares(r)'
  BY <1>3 DEF Holds, GetRemembers, GetAsksMandatory, EditorSpares
<1> QED
  BY <1>4, <1>5 DEF Holds

LEMMA FreeHolds ==
  ASSUME NEW r \in Requests, req'[r] = Free
  PROVE  Holds(r)'
BY DEF Holds, PutRemembers, GetRemembers, GetAsksMandatory, EditorSpares, EditorOps, Free

\* An arrival.
LEMMA ArrivalHolds ==
  ASSUME ConsentInv, NEW r \in Requests,
         \/ \E p \in Profiles : PutConsents(r, p) \/ GetProfile(r, p)
         \/ AddCategory(r) \/ UpdateCategory(r) \/ RemoveCategory(r)
  PROVE  Holds(r)'
<1> USE DEF Holds, PutRemembers, GetRemembers, GetAsksMandatory, EditorSpares, EditorOps
<1>t. req \in [Requests -> Handlers]
  BY DEF ConsentInv, TypeOK
<1>1. ASSUME NEW p \in Profiles, PutConsents(r, p) PROVE Holds(r)'
  <2>1. req'[r].op = "put" /\ req'[r].pc = "profile"
    BY <1>1, <1>t DEF PutConsents, Arrive
  <2> QED
    BY <2>1
<1>2. ASSUME NEW p \in Profiles, GetProfile(r, p) PROVE Holds(r)'
  <2>1. /\ req'[r].op = "get" /\ req'[r].pc = "profile" /\ req'[r].profile = p
        /\ req'[r].may = recent[p] /\ req'[r].steady = {a \in Identity : attr[a] # NoId}
        /\ recent' = recent /\ attr' = attr
    BY <1>2, <1>t DEF GetProfile, Arrive, tables
  <2> QED
    BY <2>1
<1>3. CASE AddCategory(r) \/ UpdateCategory(r) \/ RemoveCategory(r)
  <2>1. req'[r].op \in EditorOps /\ req'[r].pc = "check"
    BY <1>3, <1>t DEF AddCategory, UpdateCategory, RemoveCategory, Arrive
  <2> QED
    BY <2>1
<1> QED
  BY <1>1, <1>2, <1>3

\* A step of a PUT before its commit.
LEMMA PutHolds ==
  ASSUME ConsentInv, NEW r \in Requests, req[r].op = "put",
         ReadProfile(r) \/ CheckPayload(r) \/ DeleteConsents(r)
  PROVE  Holds(r)'
<1> DEFINE h == req[r]
<1>t. req \in [Requests -> Handlers] /\ h \in Handlers
  BY DEF ConsentInv, TypeOK
<1>h. h \in Puts
  BY <1>t, HandlerKinds
<1>1. CASE DeleteConsents(r)
  <2>1. /\ req'[r].op = "put" /\ req'[r].profile = h.profile
        /\ req'[r].seen = Recorded(h.profile) /\ consent' = consent
    BY <1>1, <1>t, <1>h DEF DeleteConsents, Puts, tables
  <2>2. Given(h.profile)' \subseteq Recorded(h.profile)
    BY <2>1 DEF Given, Recorded
  <2> QED
    BY <2>1, <2>2 DEF Holds, PutRemembers, GetRemembers, GetAsksMandatory, EditorSpares,
                      EditorOps, Given
<1>2. CASE ReadProfile(r) \/ CheckPayload(r)
  <2>1. req'[r] = Free \/ (req'[r].op = "put" /\ req'[r].pc \in {"mandatory", "delete"})
    BY <1>2, <1>t, <1>h DEF ReadProfile, CheckPayload, Goto, Answered, Puts
  <2> QED
    BY <2>1, FreeHolds DEF Holds, PutRemembers, GetRemembers, GetAsksMandatory, EditorSpares,
                           EditorOps
<1> QED
  BY <1>1, <1>2

\* A step of a GET.
LEMMA GetHolds ==
  ASSUME ConsentInv, NEW r \in Requests, req[r].op = "get",
         ReadProfile(r) \/ AskMandatory(r) \/ ReadConsents(r) \/ Split(r) \/ ReadSchema(r)
           \/ ShowProfile(r)
  PROVE  Holds(r)'
<1> DEFINE h == req[r]
<1>t. req \in [Requests -> Handlers] /\ h \in Handlers
  BY DEF ConsentInv, TypeOK
<1>h. h \in Gets
  BY <1>t, HandlerKinds
<1>i. GetRemembers(r) /\ GetAsksMandatory(r)
  BY DEF ConsentInv, Holds
<1>m. Mandatory \in MandatoryIds
  BY ConsentAssumption DEF ConsentInv, MandatoryStays, MandatoryIds, ConsentAssumption
<1>u. UNCHANGED <<consent, recent, attr>>
  BY DEF ReadProfile, AskMandatory, ReadConsents, Split, ReadSchema, ShowProfile, tables
<1>s. SUFFICES ASSUME req'[r] # Free PROVE Holds(r)'
  BY FreeHolds
<1> DEFINE k == req'[r]
<1>f. ASSUME k.op = "get", k.profile = h.profile, k.may = h.may, k.steady = h.steady,
             k.pc \in {"split", "schema", "attributes"} => k.granted \subseteq h.may,
             k.pc \in {"schema", "attributes"} => Mandatory \notin k.granted,
             k.pc \in {"consents", "split"} => Mandatory \in k.ask,
             k.pc = "schema" => Mandatory \in k.always,
             k.pc = "attributes" => h.steady \subseteq k.shown
      PROVE  Holds(r)'
  BY <1>f, <1>i, <1>u DEF Holds, PutRemembers, EditorSpares, EditorOps, GetRemembers,
                          GetAsksMandatory
<1>1. CASE ReadProfile(r)
  <2>1. k = [h EXCEPT !.pc = "mandatory"]
    BY <1>1, <1>t, <1>s DEF ReadProfile, Goto, Answered
  <2> QED
    BY <1>h, <1>f, <2>1 DEF Gets
<1>2. CASE AskMandatory(r)
  <2>1. k = [h EXCEPT !.ask = @ \cup MandatoryIds, !.pc = "consents"]
    BY <1>2, <1>t DEF AskMandatory
  <2> QED
    BY <1>h, <1>m, <1>f, <2>1 DEF Gets
<1>3. CASE ReadConsents(r)
  <2>1. k = [h EXCEPT !.granted = Given(h.profile), !.pc = "split"] /\ h.pc = "consents"
    BY <1>3, <1>t DEF ReadConsents
  <2>2. Given(h.profile) \subseteq h.may
    BY <1>h, <1>i DEF ConsentInv, RevokedStaysRevoked, GetRemembers, Gets
  <2>3. Mandatory \in h.ask
    BY <1>h, <1>i, <2>1 DEF GetAsksMandatory
  <2> HIDE DEF h
  <2>4. /\ k.op = "get" /\ k.profile = h.profile /\ k.may = h.may /\ k.steady = h.steady
        /\ k.granted = Given(h.profile) /\ k.pc = "split" /\ k.ask = h.ask
    BY <1>h, <2>1 DEF Gets
  <2> QED
    BY <1>f, <2>2, <2>3, <2>4 DEF h
<1>4. CASE Split(r)
  <2>1. /\ k = [h EXCEPT !.always = h.ask \cap MandatoryIds,
                         !.granted = (h.ask \ MandatoryIds) \cap h.granted, !.pc = "schema"]
        /\ h.pc = "split"
    BY <1>4, <1>t DEF Split
  <2>2. h.granted \subseteq h.may /\ Mandatory \in h.ask
    BY <1>i, <2>1 DEF GetRemembers, GetAsksMandatory
  <2>3. /\ k.op = "get" /\ k.profile = h.profile /\ k.may = h.may /\ k.steady = h.steady
        /\ k.granted = (h.ask \ MandatoryIds) \cap h.granted /\ k.pc = "schema"
        /\ k.always = h.ask \cap MandatoryIds
    BY <1>h, <2>1 DEF Gets
  <2> QED
    BY <1>f, <1>m, <2>2, <2>3
<1>5. CASE ReadSchema(r)
  <2>1. /\ k = [h EXCEPT !.shown = IF h.always = {} THEN {} ELSE {a \in Identity : attr[a] # NoId},
                         !.pc = "attributes"]
        /\ h.pc = "schema"
    BY <1>5, <1>t DEF ReadSchema
  <2>2. /\ h.granted \subseteq h.may /\ Mandatory \notin h.granted
        /\ Mandatory \in h.always /\ h.steady \subseteq {a \in Identity : attr[a] # NoId}
    BY <1>i, <2>1 DEF GetRemembers, GetAsksMandatory
  <2>3. /\ k.op = "get" /\ k.profile = h.profile /\ k.may = h.may /\ k.steady = h.steady
        /\ k.granted = h.granted /\ k.pc = "attributes"
        /\ k.shown = {a \in Identity : attr[a] # NoId}
    BY <1>h, <2>1, <2>2 DEF Gets
  <2> QED
    BY <1>f, <2>2, <2>3
<1>6. CASE ShowProfile(r)
  BY <1>6, <1>t, <1>s DEF ShowProfile, Answered
<1> QED
  BY <1>1, <1>2, <1>3, <1>4, <1>5, <1>6

\* A step of an editor.
LEMMA EditorHolds ==
  ASSUME ConsentInv, NEW r \in Requests, req[r].op \in EditorOps,
         CheckCategory(r) \/ Resolve(r) \/ InsertCategory(r) \/ ReplaceRows(r)
           \/ DeleteCategory(r)
  PROVE  Holds(r)'
<1> DEFINE h == req[r]
<1>t. req \in [Requests -> Handlers] /\ h \in Handlers
  BY DEF ConsentInv, TypeOK
<1>h. h \in Editors
  BY <1>t, HandlerKinds
<1>m. Mandatory \in MandatoryIds
  BY ConsentAssumption DEF ConsentInv, MandatoryStays, MandatoryIds, ConsentAssumption
<1>i. EditorSpares(r)
  BY DEF ConsentInv, Holds
<1>a. ASSUME req'[r].op = h.op, req'[r].category # Mandatory PROVE Holds(r)'
  BY <1>a DEF Holds, PutRemembers, GetRemembers, GetAsksMandatory, EditorSpares, EditorOps
<1>1. CASE CheckCategory(r)
  <2>1. req'[r] = Free \/ (/\ h.category \notin MandatoryIds
                          /\ \E pc \in {"write", "resolve"} : req'[r] = [h EXCEPT !.pc = pc])
    BY <1>1, <1>t DEF CheckCategory, Goto, Answered
  <2> QED
    BY <1>h, <1>m, <1>a, <2>1, FreeHolds DEF Editors
<1>2. CASE Resolve(r)
  <2>1. h.category # Mandatory
    BY <1>2, <1>i DEF EditorSpares, Resolve
  <2> DEFINE a == CHOOSE x \in h.todo : TRUE
  <2>2. \/ req'[r] = Free
        \/ req'[r] = [h EXCEPT !.pc = "write"]
        \/ req'[r] = [h EXCEPT !.todo = @ \ {a}, !.rows = @ \cup {<<a, attr[a]>>}]
    BY <1>2, <1>t DEF Resolve, Goto, Answered
  <2> HIDE DEF a
  <2>3. req'[r] = Free \/ (req'[r].op = h.op /\ req'[r].category = h.category)
    BY <1>h, <2>2 DEF Editors
  <2> QED
    BY <1>a, <2>1, <2>3, FreeHolds
<1>3. CASE InsertCategory(r) \/ ReplaceRows(r) \/ DeleteCategory(r)
  <2>1. req'[r] = Free
    BY <1>3, <1>t DEF InsertCategory, ReplaceRows, DeleteCategory, Answered
  <2> QED
    BY <2>1, FreeHolds
<1> QED
  BY <1>1, <1>2, <1>3

\* A commit of a PUT: the consents in force are its own and those it has not seen.
LEMMA CommitHolds ==
  ASSUME ConsentInv, NEW r \in Requests, InsertConsents(r)
  PROVE  RevokedStaysRevoked' /\ \A q \in Requests : Holds(q)'
<1> DEFINE h == req[r]
<1>t. /\ req \in [Requests -> Handlers] /\ h \in Handlers
      /\ consent \in [Profiles -> [Categories -> {"none", "given", "refused"}]]
      /\ recent \in [Profiles -> SUBSET Categories]
  BY DEF ConsentInv, TypeOK
<1>h. h \in Puts /\ h.op = "put" /\ h.pc = "insert" /\ h.profile \in Profiles
  <2>1. h \in Puts /\ h.op = "put" /\ h.pc = "insert"
    BY <1>t, HandlerKinds DEF InsertConsents
  <2> QED
    BY <2>1 DEF Puts
<1>p. PICK p \in Profiles : p = h.profile
  BY <1>h
<1> DEFINE kept == Recorded(p) \ h.seen
           rows == [c \in Categories |-> CASE c \in h.yes -> "given"
                                           [] c \in h.no -> "refused"
                                           [] c \in kept -> consent[p][c]
                                           [] OTHER -> "none"]
<1>i. Given(p) \ h.seen \subseteq h.beside
  BY <1>h, <1>p DEF ConsentInv, Holds, PutRemembers
<1>u. UNCHANGED <<category, attr>>
  BY DEF InsertConsents
<1>1. Commit(r, p, rows) \/ (Answered(r) /\ UNCHANGED <<consent, recent>>)
  BY <1>p DEF InsertConsents
<1>2. CASE Answered(r) /\ UNCHANGED <<consent, recent>>
  <2>1. RevokedStaysRevoked'
    BY <1>2 DEF ConsentInv, RevokedStaysRevoked, Given
  <2>2. \A a \in Profiles : Given(a)' \subseteq Given(a)
    BY <1>2 DEF Given
  <2>3. ASSUME NEW q \in Requests PROVE Holds(q)'
    <3>1. req'[q] = Free \/ req'[q] = req[q]
      BY <1>2, <1>t DEF Answered
    <3> QED
      BY <1>2, <1>u, <2>2, <3>1, FreeHolds, HoldsElsewhere
  <2> QED
    BY <2>1, <2>3
<1>3. CASE Commit(r, p, rows)
  <2>1. /\ consent' = [consent EXCEPT ![p] = rows]
        /\ recent' = [recent EXCEPT ![p] = h.yes \cup h.beside]
    BY <1>3 DEF Commit
  <2>2. Given(p)' \subseteq h.yes \cup (Given(p) \ h.seen)
    <3>1. SUFFICES ASSUME NEW c \in Categories, rows[c] = "given", c \notin h.yes
                   PROVE  c \in Given(p) \ h.seen
      BY <1>t, <1>h, <2>1 DEF Given
    <3>2. c \in kept /\ consent[p][c] = "given"
      BY <3>1
    <3> QED
      BY <3>2 DEF Given
  <2>3. Given(p)' \subseteq recent'[p] /\ recent'[p] = h.yes \cup h.beside
    BY <1>t, <1>h, <1>i, <2>1, <2>2
  <2>4. \A a \in Profiles \ {p} : Given(a)' = Given(a) /\ recent'[a] = recent[a]
    BY <1>t, <2>1 DEF Given
  <2>5. RevokedStaysRevoked'
    <3>1. SUFFICES ASSUME NEW a \in Profiles PROVE Given(a)' \subseteq recent'[a]
      BY DEF RevokedStaysRevoked, Given
    <3>2. Given(a) \subseteq recent[a]
      BY DEF ConsentInv, RevokedStaysRevoked
    <3> QED
      BY <2>3, <2>4, <3>2
  <2>6. ASSUME NEW q \in Requests PROVE Holds(q)'
    <3> DEFINE g == req[q]
    <3>t. g \in Handlers /\ Holds(q)
      BY <1>t DEF ConsentInv
    <3>1. CASE q = r
      BY <1>3, <3>1, FreeHolds DEF Commit
    <3>2. CASE q # r /\ g.op = "put" /\ g.profile = p
      <4>1. req'[q] = [g EXCEPT !.seen = @ \ h.seen, !.beside = @ \cup h.yes]
        BY <1>3, <3>2 DEF Commit
      <4>2. g \in Puts
        BY <3>t, <3>2, HandlerKinds
      <4>3. /\ req'[q].op = "put" /\ req'[q].pc = g.pc /\ req'[q].profile = p
            /\ req'[q].seen = g.seen \ h.seen /\ req'[q].beside = g.beside \cup h.yes
        BY <3>2, <4>1, <4>2 DEF Puts
      <4>4. g.pc = "insert" => Given(p) \ g.seen \subseteq g.beside
        BY <3>t, <3>2 DEF Holds, PutRemembers
      <4>5. g.pc = "insert" => Given(p)' \ (g.seen \ h.seen) \subseteq g.beside \cup h.yes
        BY <2>2, <4>4
      <4>6. PutRemembers(q)'
        BY <4>3, <4>5 DEF PutRemembers, Given
      <4> QED
        BY <4>3, <4>6 DEF Holds, GetRemembers, GetAsksMandatory, EditorSpares, EditorOps
    <3>3. CASE q # r /\ g.op = "get" /\ g.profile = p
      <4>1. req'[q] = [g EXCEPT !.may = @ \cup h.yes \cup h.beside]
        BY <1>3, <3>3 DEF Commit
      <4>2. g \in Gets
        BY <3>t, <3>3, HandlerKinds
      <4>3. /\ req'[q].op = "get" /\ req'[q].pc = g.pc /\ req'[q].profile = p
            /\ req'[q].may = g.may \cup h.yes \cup h.beside
            /\ req'[q].granted = g.granted /\ req'[q].ask = g.ask
            /\ req'[q].always = g.always /\ req'[q].shown = g.shown
            /\ req'[q].steady = g.steady
        BY <3>3, <4>1, <4>2 DEF Gets
      <4>4. GetRemembers(q)'
        BY <2>3, <3>t, <3>3, <4>3 DEF Holds, GetRemembers
      <4>5. GetAsksMandatory(q)'
        BY <1>u, <3>t, <3>3, <4>3 DEF Holds, GetAsksMandatory
      <4> QED
        BY <4>3, <4>4, <4>5 DEF Holds, PutRemembers, EditorSpares, EditorOps
    <3>4. CASE q # r /\ ~(g.op \in {"put", "get"} /\ g.profile = p)
      <4>1. req'[q] = g
        BY <1>3, <3>4 DEF Commit
      <4>2. g.op \in {"put", "get"} => g.profile \in Profiles \ {p}
        BY <3>t, <3>4, HandlerKinds DEF Puts, Gets
      <4>3. PutRemembers(q)'
        BY <2>4, <3>t, <4>1, <4>2 DEF Holds, PutRemembers, Given
      <4>4. GetRemembers(q)'
        BY <2>4, <3>t, <4>1, <4>2 DEF Holds, GetRemembers
      <4>5. GetAsksMandatory(q)' /\ EditorSpares(q)'
        BY <1>u, <3>t, <4>1 DEF Holds, GetAsksMandatory, EditorSpares
      <4> QED
        BY <4>3, <4>4, <4>5 DEF Holds
    <3> QED
      BY <3>1, <3>2, <3>3, <3>4
  <2> QED
    BY <2>5, <2>6
<1> QED
  BY <1>1, <1>2, <1>3

\* Every other step of a request: it moves alone, and no more is consented to.
LEMMA OneMoves ==
  ASSUME ConsentInv, NEW r \in Requests, Handle(r), ~InsertConsents(r)
  PROVE  /\ \A q \in Requests \ {r} : req'[q] = req[q]
         /\ recent' = recent /\ attr' = attr
         /\ consent' = consent \/ \E c : consent' = Without(c)
<1>t. req \in [Requests -> Handlers]
  BY DEF ConsentInv, TypeOK
<1>1. CASE \/ \E p \in Profiles : PutConsents(r, p) \/ GetProfile(r, p)
           \/ AddCategory(r) \/ UpdateCategory(r) \/ RemoveCategory(r)
  BY <1>t, <1>1 DEF PutConsents, GetProfile, AddCategory, UpdateCategory, RemoveCategory, Arrive,
                    tables
<1>2. CASE \/ ReadProfile(r) \/ CheckPayload(r) \/ DeleteConsents(r) \/ AskMandatory(r)
           \/ ReadConsents(r) \/ Split(r) \/ ReadSchema(r) \/ ShowProfile(r)
  BY <1>t, <1>2 DEF ReadProfile, CheckPayload, DeleteConsents, AskMandatory, ReadConsents, Split,
                    ReadSchema, ShowProfile, Goto, Answered, tables
<1>3. CASE CheckCategory(r) \/ Resolve(r) \/ RequestFails(r)
  BY <1>t, <1>3 DEF CheckCategory, Resolve, RequestFails, Goto, Answered, tables
<1>4. CASE InsertCategory(r) \/ ReplaceRows(r) \/ DeleteCategory(r)
  BY <1>t, <1>4 DEF InsertCategory, ReplaceRows, DeleteCategory, Answered
<1> QED
  BY <1>1, <1>2, <1>3, <1>4 DEF Handle

\* The request that moves.
LEMMA MoverHolds ==
  ASSUME ConsentInv, NEW r \in Requests, Handle(r), ~InsertConsents(r)
  PROVE  Holds(r)'
<1>t. req \in [Requests -> Handlers] /\ req[r] \in Handlers
  BY DEF ConsentInv, TypeOK
<1>1. CASE RequestFails(r)
  <2>1. req'[r] = Free
    BY <1>t, <1>1 DEF RequestFails, Answered
  <2> QED
    BY <2>1, FreeHolds
<1>2. CASE ReadProfile(r)
  <2>1. req[r].op = "put" \/ req[r].op = "get"
    BY <1>t, <1>2, HandlerPlaces, HandlerKinds DEF ReadProfile
  <2> QED
    BY <1>2, <2>1, PutHolds, GetHolds
<1>3. CASE CheckPayload(r) \/ DeleteConsents(r)
  <2>1. req[r].op = "put"
    BY <1>t, <1>3, HandlerPlaces, HandlerKinds DEF CheckPayload, DeleteConsents
  <2> QED
    BY <1>3, <2>1, PutHolds
<1>4. CASE AskMandatory(r) \/ ReadConsents(r) \/ Split(r) \/ ReadSchema(r) \/ ShowProfile(r)
  <2>1. req[r].op = "get"
    BY <1>t, <1>4, HandlerPlaces, HandlerKinds DEF AskMandatory, ReadConsents, Split, ReadSchema,
                                                   ShowProfile
  <2> QED
    BY <1>4, <2>1, GetHolds
<1>5. CASE \/ CheckCategory(r) \/ Resolve(r) \/ InsertCategory(r) \/ ReplaceRows(r)
           \/ DeleteCategory(r)
  <2>1. req[r].op \in EditorOps
    BY <1>t, <1>5, HandlerPlaces, HandlerKinds DEF CheckCategory, Resolve, InsertCategory,
       ReplaceRows, DeleteCategory, EditorOps
  <2> QED
    BY <1>5, <2>1, EditorHolds
<1> QED
  BY <1>1, <1>2, <1>3, <1>4, <1>5, ArrivalHolds DEF Handle

LEMMA MandatoryStep ==
  ASSUME ConsentInv, [Next]_vars
  PROVE  MandatoryStays'
<1> USE DEF MandatoryStays, Live
<1>t. TypeOK /\ Mandatory \in Live /\ Mandatory \in Categories
  BY ConsentAssumption DEF ConsentInv, ConsentAssumption
<1>1. ASSUME NEW r \in Requests, Handle(r) PROVE MandatoryStays'
  <2>1. CASE InsertCategory(r)
    BY <1>t, <2>1 DEF InsertCategory, TypeOK
  <2>2. CASE DeleteCategory(r)
    <3>1. req[r].category # Mandatory
      BY <2>2 DEF ConsentInv, Holds, EditorSpares, EditorOps, DeleteCategory
    <3> QED
      BY <1>t, <2>2, <3>1 DEF DeleteCategory, TypeOK
  <2>3. CASE ReplaceRows(r)
    BY <1>t, <2>3 DEF ReplaceRows
  <2> QED
    BY <1>1, <1>t, <2>1, <2>2, <2>3, RequestKeepsRows DEF Handle
<1>2. ASSUME NEW a \in Attributes, DeleteAttribute(a) \/ AddAttribute(a) PROVE MandatoryStays'
  BY <1>2, <1>t DEF DeleteAttribute, AddAttribute
<1>3. ASSUME NEW p \in Profiles, DeleteProfile(p) PROVE MandatoryStays'
  BY <1>3, <1>t DEF DeleteProfile
<1>4. CASE UNCHANGED vars
  BY <1>4, <1>t DEF vars, tables
<1> QED
  BY <1>1, <1>2, <1>3, <1>4 DEF Next

LEMMA ConsentStep ==
  ASSUME ConsentInv, [Next]_vars
  PROVE  ConsentInv'
<1>t. TypeOK /\ TypeOK' /\ MandatoryStays'
  BY TypeStep, MandatoryStep DEF ConsentInv
<1> SUFFICES RevokedStaysRevoked' /\ \A q \in Requests : Holds(q)'
  BY <1>t DEF ConsentInv
<1>a. ASSUME recent' = recent, \A p \in Profiles : Given(p)' \subseteq Given(p)
      PROVE  RevokedStaysRevoked'
  <2>1. SUFFICES ASSUME NEW p \in Profiles PROVE Given(p)' \subseteq recent[p]
    BY <1>a DEF RevokedStaysRevoked, Given
  <2> QED
    BY <1>a DEF ConsentInv, RevokedStaysRevoked
<1>1. ASSUME NEW r \in Requests, Handle(r), ~InsertConsents(r)
      PROVE  RevokedStaysRevoked' /\ \A q \in Requests : Holds(q)'
  <2>1. ASSUME NEW p \in Profiles PROVE Given(p)' \subseteq Given(p)
    <3>1. CASE consent' = consent
      BY <3>1 DEF Given
    <3>2. ASSUME NEW c, consent' = Without(c) PROVE Given(p)' \subseteq Given(p)
      <4>1. consent'[p] = [consent[p] EXCEPT ![c] = "none"]
        BY <3>2 DEF Without
      <4>2. consent[p] \in [Categories -> {"none", "given", "refused"}]
        BY <1>t DEF TypeOK
      <4>3. \A d \in Categories : consent'[p][d] = "given" => consent[p][d] = "given"
        BY <4>1, <4>2
      <4> QED
        BY <4>3 DEF Given
    <3> QED
      BY <1>1, <3>1, <3>2, OneMoves
  <2> QED
    BY <1>1, <1>a, <2>1, OneMoves, MoverHolds, HoldsElsewhere
<1>2. ASSUME NEW r \in Requests, InsertConsents(r)
      PROVE  RevokedStaysRevoked' /\ \A q \in Requests : Holds(q)'
  BY <1>2, CommitHolds
<1>3. ASSUME NEW a \in Attributes, DeleteAttribute(a)
      PROVE  RevokedStaysRevoked' /\ \A q \in Requests : Holds(q)'
  <2>1. /\ consent' = consent /\ recent' = recent /\ attr' = [attr EXCEPT ![a] = NoId]
        /\ \A p \in Profiles : Given(p)' = Given(p)
    BY <1>3 DEF DeleteAttribute, Given
  <2>2. ASSUME NEW q \in Requests PROVE Holds(q)'
    <3> DEFINE g == req[q]
    <3>t. g \in Handlers /\ Holds(q)
      BY <1>t DEF ConsentInv, TypeOK
    <3>1. CASE g.op = "get"
      <4>1. g \in Gets
        BY <3>t, <3>1, HandlerKinds
      <4>2. req'[q] = [g EXCEPT !.steady = @ \ {a}]
        BY <1>3, <3>1 DEF DeleteAttribute
      <4>3. /\ req'[q].op = "get" /\ req'[q].pc = g.pc /\ req'[q].profile = g.profile
            /\ req'[q].may = g.may /\ req'[q].granted = g.granted /\ req'[q].ask = g.ask
            /\ req'[q].always = g.always /\ req'[q].shown = g.shown
            /\ req'[q].steady = g.steady \ {a}
        BY <3>1, <4>1, <4>2 DEF Gets
      <4>4. GetRemembers(q)'
        BY <2>1, <3>t, <3>1, <4>3 DEF Holds, GetRemembers
      <4>5. GetAsksMandatory(q)'
        <5>1. g.steady \subseteq {b \in Identity : attr[b] # NoId}
          BY <3>t, <3>1 DEF Holds, GetAsksMandatory
        <5>2. g.steady \ {a} \subseteq {b \in Identity : attr'[b] # NoId}
          BY <1>t, <2>1, <5>1, ConsentAssumption DEF TypeOK, ConsentAssumption
        <5> QED
          BY <3>t, <3>1, <4>3, <5>2 DEF Holds, GetAsksMandatory
      <4> QED
        BY <4>3, <4>4, <4>5 DEF Holds, PutRemembers, EditorSpares, EditorOps
    <3>2. CASE g.op # "get"
      <4>1. req'[q] = g
        BY <1>3, <3>2 DEF DeleteAttribute
      <4> QED
        BY <2>1, <3>t, <3>2, <4>1 DEF Holds, PutRemembers, GetRemembers, GetAsksMandatory,
                                      EditorSpares, Given
    <3> QED
      BY <3>1, <3>2
  <2> QED
    BY <1>a, <2>1, <2>2
<1>4. ASSUME NEW a \in Attributes, AddAttribute(a)
      PROVE  RevokedStaysRevoked' /\ \A q \in Requests : Holds(q)'
  <2>1. /\ consent' = consent /\ recent' = recent /\ req' = req
        /\ \A p \in Profiles : Given(p)' = Given(p)
    BY <1>4 DEF AddAttribute, Given
  <2>2. {b \in Identity : attr[b] # NoId} \subseteq {b \in Identity : attr'[b] # NoId}
    <3>1. fresh # NoId /\ attr' = [attr EXCEPT ![a] = fresh]
      BY <1>4, <1>t, ConsentAssumption DEF AddAttribute, TypeOK, NoId, ConsentAssumption
    <3> QED
      BY <1>t, <3>1, ConsentAssumption DEF TypeOK, ConsentAssumption
  <2>3. ASSUME NEW q \in Requests PROVE Holds(q)'
    <3>1. Holds(q)
      BY DEF ConsentInv
    <3>2. GetAsksMandatory(q)'
      BY <2>1, <2>2, <3>1 DEF Holds, GetAsksMandatory
    <3> QED
      BY <2>1, <3>1, <3>2 DEF Holds, PutRemembers, GetRemembers, EditorSpares, Given
  <2> QED
    BY <1>a, <2>1, <2>3
<1>5. ASSUME NEW p \in Profiles, DeleteProfile(p)
      PROVE  RevokedStaysRevoked' /\ \A q \in Requests : Holds(q)'
  <2>1. \A a \in Profiles : Given(a)' \subseteq Given(a)
    BY <1>5, <1>t DEF DeleteProfile, Given, TypeOK
  <2>2. UNCHANGED <<req, recent, attr>>
    BY <1>5 DEF DeleteProfile
  <2> QED
    BY <1>a, <2>1, <2>2, HoldsElsewhere
<1>6. CASE UNCHANGED vars
  <2>1. UNCHANGED <<req, recent, attr, consent>>
    BY <1>6 DEF vars, tables
  <2>2. \A a \in Profiles : Given(a)' \subseteq Given(a)
    BY <2>1 DEF Given
  <2> QED
    BY <1>a, <2>1, <2>2, HoldsElsewhere
<1> QED
  BY <1>1, <1>2, <1>3, <1>4, <1>5, <1>6 DEF Next

LEMMA ConsentInit == Init => ConsentInv
<1> SUFFICES ASSUME Init PROVE ConsentInv
  OBVIOUS
<1>1. MandatoryStays
  BY ConsentAssumption DEF Init, MandatoryStays, Live, ConsentAssumption
<1>2. RevokedStaysRevoked
  BY DEF Init, RevokedStaysRevoked, Given
<1>3. \A r \in Requests : Holds(r)
  BY DEF Init, Free, Holds, PutRemembers, GetRemembers, GetAsksMandatory, EditorSpares, EditorOps
<1> QED
  BY <1>1, <1>2, <1>3, TypeInit DEF ConsentInv

LEMMA ConsentInvariant == Spec => []ConsentInv
<1>1. ConsentInv /\ [Next]_vars => ConsentInv'
  BY ConsentStep
<1> QED
  BY <1>1, ConsentInit, PTL DEF Spec

\* A consent in force was given by the last PUT of the profile or by one that overlapped it:
\* "the PUT replaces the full consent record set", whichever two transactions interleave.
THEOREM RevokedSafety == Spec => []RevokedStaysRevoked
<1>1. ConsentInv => RevokedStaysRevoked
  BY DEF ConsentInv
<1> QED
  BY <1>1, ConsentInvariant, PTL

\* A GET is filtered by no consent that was out of force already when it arrived, however
\* many PUTs and deletions fall between its reads: "non-consented categories contribute
\* nothing".
THEOREM ReadSafety == Spec => []ReadsInForce
<1>1. ConsentInv => ReadsInForce
  BY DEF ConsentInv, ReadsInForce, Holds, GetRemembers
<1> QED
  BY <1>1, ConsentInvariant, PTL

\* What the profile is filtered by has every identity attribute that was there all the time:
\* "identity attributes are never stripped".
THEOREM IdentitySafety == Spec => []IdentityNeverStripped
<1>1. ConsentInv => IdentityNeverStripped
  BY DEF ConsentInv, IdentityNeverStripped, Holds, GetAsksMandatory, Allowed
<1> QED
  BY <1>1, ConsentInvariant, PTL
=============================================================================
