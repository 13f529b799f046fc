------------------------- MODULE SchemaRules_proofs -------------------------
(***************************************************************************)
(* What SchemaRules promises for any attributes, rules and requests, and   *)
(* for any bounds: a rule refers to an attribute that is there; two rules  *)
(* come to share a priority, a PATCH undoes another and a parent loses a   *)
(* sub-attribute only through requests that overlapped.                    *)
(***************************************************************************)
EXTENDS SchemaRules, FiniteSetTheorems, TLAPS

-----------------------------------------------------------------------------
(* Type correctness.                                                       *)

\* A handler is told apart by its operation.
LEMMA HandlerKinds ==
  ASSUME NEW h \in Handlers
  PROVE  /\ h.op = "none" => h = Free
         /\ h.op = "add" => h \in Adders
         /\ h.op = "patch" => h \in Patchers
         /\ h.op = "remove" => h \in Removers
         /\ h.op = "add rule" => h \in RuleAdders
         /\ h.op = "patch rule" => h \in RulePatchers
         /\ h.op \in OfAttributes => h # Free /\ h.crossed \subseteq Ids
         /\ h # Free /\ h.op \notin OfAttributes => h.crossed \subseteq 1..RuleIds
<1> USE DEF Free, OfAttributes
<1>1. CASE h = Free
  BY <1>1
<1>2. CASE h \in Adders
  <2>1. h.op = "add" /\ h.crossed \subseteq Ids
    BY <1>2 DEF Adders
  <2> QED
    BY <1>2, <2>1
<1>3. CASE h \in Patchers
  <2>1. h.op = "patch" /\ h.crossed \subseteq Ids
    BY <1>3 DEF Patchers
  <2> QED
    BY <1>3, <2>1
<1>4. CASE h \in Removers
  <2>1. h.op = "remove" /\ h.crossed \subseteq Ids
    BY <1>4 DEF Removers
  <2> QED
    BY <1>4, <2>1
<1>5. CASE h \in RuleAdders
  <2>1. h.op = "add rule" /\ h.crossed \subseteq 1..RuleIds
    BY <1>5 DEF RuleAdders
  <2> QED
    BY <1>5, <2>1
<1>6. CASE h \in RulePatchers
  <2>1. h.op = "patch rule" /\ h.crossed \subseteq 1..RuleIds
    BY <1>6 DEF RulePatchers
  <2> QED
    BY <1>6, <2>1
<1> QED
  BY <1>1, <1>2, <1>3, <1>4, <1>5, <1>6 DEF Handlers

\* What a handler is at tells which it may be.
LEMMA HandlerPlaces ==
  ASSUME NEW h \in Handlers
  PROVE  /\ h.pc = "subs" => h \in Adders \cup Patchers
         /\ h.pc = "exists" => h \in Adders
         /\ h.pc = "parent" => h \in Removers
         /\ h.pc = "property" => h \in RuleAdders
         /\ h.pc = "again" => h \in RuleAdders
         /\ h.pc = "rules" => h \in RuleAdders \cup RulePatchers
<1>1. h = Free => h.pc = "free"
  BY DEF Free
<1>2. h \in Adders => h.pc \in {"subs", "exists", "insert"}
  BY DEF Adders
<1>3. h \in Patchers => h.pc \in {"read", "subs", "update"}
  BY DEF Patchers
<1>4. h \in Removers => h.pc \in {"read", "parent", "delete"}
  BY DEF Removers
<1>5. h \in RuleAdders => h.pc \in {"property", "rules", "insert", "again"}
  BY DEF RuleAdders
<1>6. h \in RulePatchers => h.pc \in {"read", "rules", "update"}
  BY DEF RulePatchers
<1> QED
  BY <1>1, <1>2, <1>3, <1>4, <1>5, <1>6 DEF Handlers

\* A handler that is told of rows of its table stays a handler.
LEMMA CrossedHandler ==
  ASSUME NEW h \in Handlers, h # Free, NEW ids,
         ids \subseteq IF h.op \in OfAttributes THEN Ids ELSE 1..RuleIds
  PROVE  [h EXCEPT !.crossed = @ \cup ids] \in Handlers
<1>1. CASE h \in Adders
  BY <1>1 DEF Handlers, Adders, OfAttributes
<1>2. CASE h \in Patchers
  BY <1>2 DEF Handlers, Patchers, OfAttributes
<1>3. CASE h \in Removers
  BY <1>3 DEF Handlers, Removers, OfAttributes
<1>4. CASE h \in RuleAdders
  BY <1>4 DEF Handlers, RuleAdders, OfAttributes
<1>5. CASE h \in RulePatchers
  BY <1>5 DEF Handlers, RulePatchers, OfAttributes
<1> QED
  BY <1>1, <1>2, <1>3, <1>4, <1>5 DEF Handlers

\* Hence the handlers keep their type when one of them writes.
LEMMA CrossTypes ==
  ASSUME req \in [Requests -> Handlers], NEW r \in Requests, NEW next \in Handlers,
         NEW about \in BOOLEAN, NEW ids, ids \subseteq IF about THEN Ids ELSE 1..RuleIds
  PROVE  Cross(r, next, about, ids) \in [Requests -> Handlers]
<1> SUFFICES ASSUME NEW q \in Requests, q # r, req[q] # Free,
                    about = (req[q].op \in OfAttributes)
             PROVE  [req[q] EXCEPT !.crossed = @ \cup ids] \in Handlers
  BY DEF Cross
<1> QED
  BY CrossedHandler

\* One handler takes a step to another state of it.
LEMMA StepTypes ==
  ASSUME req \in [Requests -> Handlers], NEW r \in Requests, NEW h \in Handlers,
         req' = [req EXCEPT ![r] = h]
  PROVE  req' \in [Requests -> Handlers]
OBVIOUS

\* What a PATCH carries.
LEMMA ChangeTypes ==
  ASSUME NEW to \in Changes
  PROVE  to.name \in Names /\ to.complex \in BOOLEAN /\ to.subs \in (SUBSET Ids) \cup {Keep}
<1>1. to \in [name : Names, complex : BOOLEAN, subs : (SUBSET Ids) \cup {Keep}]
  BY SchemaRulesAssumption DEF SchemaRulesAssumption
<1> QED
  BY <1>1

\* A DELETE keeps the types of the tables.
LEMMA DeleteTypes ==
  ASSUME TypeOK, NEW r \in Requests, NEW ids \in SUBSET Ids, Delete(r, ids)
  PROVE  /\ attr' \in [Ids -> Row \cup {NoRow}] /\ fresh' = fresh
         /\ rule' \in [1..RuleIds -> Rule \cup {NoRule}] /\ made' = made
         /\ req' \in [Requests -> Handlers]
<1>1. Cross(r, Free, TRUE, ids \cap Live) \in [Requests -> Handlers]
  BY CrossTypes DEF TypeOK, Handlers
<1> QED
  BY <1>1 DEF Delete, TypeOK

\* Every variable keeps its type: requests arrive.
LEMMA ArriveTypes ==
  ASSUME TypeOK, NEW r \in Requests,
         \/ PostAttribute(r) \/ PatchAttribute(r) \/ RemoveAttribute(r) \/ RemoveScopes(r)
         \/ PostRule(r) \/ PatchRule(r) \/ DeleteRule(r)
  PROVE  TypeOK'
<1> USE SchemaRulesAssumption
<1>0. Arrives(r) => left' \in 0..Arrivals
  BY DEF Arrives, TypeOK
<1>a. ASSUME NEW h \in Handlers, Arrive(r, h) PROVE TypeOK'
  BY <1>a, <1>0, StepTypes DEF Arrive, TypeOK, tables
<1>1. CASE PostAttribute(r)
  <2>1. PICK row \in Added :
          Arrive(r, [op |-> "add", pc |-> "subs", row |-> row, todo |-> row.subs,
                     crossed |-> {}])
    BY <1>1 DEF PostAttribute
  <2>2. row \in Row /\ row.subs \subseteq Ids
    BY DEF SchemaRulesAssumption, Row
  <2>3. [op |-> "add", pc |-> "subs", row |-> row, todo |-> row.subs, crossed |-> {}]
           \in Handlers
    BY <2>2 DEF Handlers, Adders
  <2> QED
    BY <2>1, <2>3, <1>a
<1>2. CASE PatchAttribute(r)
  <2>1. PICK i \in 1..(fresh - 1), to \in Changes :
          Arrive(r, [op |-> "patch", pc |-> "read", id |-> i, to |-> to, app |-> NoApp,
                     todo |-> {}, crossed |-> {}])
    BY <1>2 DEF PatchAttribute
  <2>2. i \in Ids
    BY DEF TypeOK, SchemaRulesAssumption, Ids
  <2>3. [op |-> "patch", pc |-> "read", id |-> i, to |-> to, app |-> NoApp, todo |-> {},
         crossed |-> {}] \in Handlers
    BY <2>2 DEF Handlers, Patchers
  <2> QED
    BY <2>1, <2>3, <1>a
<1>3. CASE RemoveAttribute(r)
  <2>1. PICK i \in 1..(fresh - 1) :
          Arrive(r, [op |-> "remove", pc |-> "read", id |-> i, name |-> "none",
                     crossed |-> {}])
    BY <1>3 DEF RemoveAttribute
  <2>2. i \in Ids
    BY DEF TypeOK, SchemaRulesAssumption, Ids
  <2>3. [op |-> "remove", pc |-> "read", id |-> i, name |-> "none", crossed |-> {}]
           \in Handlers
    BY <2>2 DEF Handlers, Removers
  <2> QED
    BY <2>1, <2>3, <1>a
<1>4. CASE RemoveScopes(r)
  <2>1. PICK scopes : Arrives(r) /\ Delete(r, {i \in Live : attr[i].scope \in scopes})
    BY <1>4 DEF RemoveScopes
  <2>2. {i \in Live : attr[i].scope \in scopes} \in SUBSET Ids
    BY DEF Live
  <2> QED
    BY <2>1, <2>2, <1>0, DeleteTypes DEF TypeOK
<1>5. CASE PostRule(r)
  <2>1. PICK n \in RuleNames, p \in Priorities, on \in BOOLEAN :
          req' = [req EXCEPT ![r] =
            [op |-> "add rule", pc |-> "property", id |-> made, crossed |-> {},
             new |-> [name |-> n, prop |-> 0, priority |-> p, active |-> on]]]
    BY <1>5 DEF PostRule
  <2>2. made \in 1..RuleIds /\ made' \in 1..(RuleIds + 1)
    <3>1. made <= RuleIds /\ made' = made + 1
      BY <1>5 DEF PostRule
    <3>2. made \in 1..(RuleIds + 1) /\ RuleIds \in Nat
      BY DEF TypeOK, SchemaRulesAssumption
    <3> QED
      BY <3>1, <3>2
  <2>3. n \in Names
    BY DEF SchemaRulesAssumption
  <2>4. [op |-> "add rule", pc |-> "property", id |-> made, crossed |-> {},
         new |-> [name |-> n, prop |-> 0, priority |-> p, active |-> on]] \in Handlers
    BY <2>2, <2>3 DEF Handlers, RuleAdders
  <2>5. req' \in [Requests -> Handlers]
    BY <2>1, <2>4, StepTypes DEF TypeOK
  <2> QED
    BY <1>5, <1>0, <2>2, <2>5 DEF PostRule, TypeOK
<1>6. CASE PatchRule(r)
  <2>1. PICK k \in 1..(made - 1), to \in RuleChanges :
          Arrive(r, [op |-> "patch rule", pc |-> "read", id |-> k, to |-> to, new |-> NoRule,
                     crossed |-> {}])
    BY <1>6 DEF PatchRule
  <2>2. k \in 1..RuleIds
    BY DEF TypeOK, SchemaRulesAssumption
  <2>3. [op |-> "patch rule", pc |-> "read", id |-> k, to |-> to, new |-> NoRule,
         crossed |-> {}] \in Handlers
    BY <2>2 DEF Handlers, RulePatchers
  <2> QED
    BY <2>1, <2>3, <1>a
<1>7. CASE DeleteRule(r)
  <2>1. PICK k \in 1..(made - 1) :
          /\ rule' = [rule EXCEPT ![k] = NoRule]
          /\ req' = Cross(r, Free, FALSE, {k} \cap Rules)
    BY <1>7 DEF DeleteRule
  <2>2. Cross(r, Free, FALSE, {k} \cap Rules) \in [Requests -> Handlers]
    BY CrossTypes DEF TypeOK, Handlers, Rules
  <2> QED
    BY <1>7, <1>0, <2>1, <2>2 DEF DeleteRule, TypeOK
<1> QED
  BY <1>1, <1>2, <1>3, <1>4, <1>5, <1>6, <1>7

\* Every variable keeps its type: attributes are added, changed and deleted.
LEMMA AttributeTypes ==
  ASSUME TypeOK, NEW r \in Requests,
         \/ ReadAttribute(r) \/ CheckSubAttribute(r) \/ CheckExists(r) \/ InsertAttribute(r)
         \/ UpdateAttribute(r) \/ FindAttribute(r) \/ CheckParent(r) \/ DeleteAttribute(r)
  PROVE  TypeOK'
<1> DEFINE h == req[r]
<1> USE SchemaRulesAssumption
<1>0. h \in Handlers
  BY DEF TypeOK
<1>f. Free \in Handlers
  BY DEF Handlers
<1>a. ASSUME NEW g \in Handlers, req' = [req EXCEPT ![r] = g], UNCHANGED <<tables, left>>
      PROVE  TypeOK'
  BY <1>a, StepTypes DEF TypeOK, tables
<1>b. ASSUME Answered(r), UNCHANGED <<tables, left>> PROVE TypeOK'
  BY <1>a, <1>b, <1>f DEF Answered
<1>1. CASE ReadAttribute(r)
  <2>1. h \in Patchers
    BY <1>0, <1>1, HandlerKinds DEF ReadAttribute
  <2>2. CASE Answered(r)
    BY <1>1, <1>b, <2>2 DEF ReadAttribute
  <2>3. CASE ~Answered(r)
    <3> DEFINE row == attr[h.id]
               subs == IF h.to.subs = Keep THEN row.subs ELSE h.to.subs
               app == IF ScopeOf[h.to.name] = "application_data" THEN row.app ELSE NoApp
               g == [h EXCEPT !.pc = "subs", !.todo = subs, !.app = app]
    <3>1. req' = [req EXCEPT ![r] = g] /\ row # NoRow
      BY <1>1, <2>3 DEF ReadAttribute
    <3>2. h.id \in Ids /\ h.to \in Changes
      BY <2>1 DEF Patchers
    <3>3. row \in Row
      BY <3>1, <3>2 DEF TypeOK
    <3>4. subs \in SUBSET Ids
      <4>1. h.to.subs \in (SUBSET Ids) \cup {Keep}
        BY <3>2, ChangeTypes
      <4>2. row.subs \in SUBSET Ids
        BY <3>3 DEF Row
      <4> QED
        BY <4>1, <4>2
    <3>5. app \in Apps \cup {NoApp}
      BY <3>3 DEF Row
    <3>6. g \in Patchers
      BY <2>1, <3>4, <3>5 DEF Patchers
    <3> QED
      BY <1>1, <1>a, <3>1, <3>6 DEF ReadAttribute, Handlers
  <2> QED
    BY <2>2, <2>3
<1>2. CASE CheckSubAttribute(r)
  <2>1. h \in Adders \cup Patchers
    BY <1>0, <1>2, HandlerPlaces DEF CheckSubAttribute
  <2>2. CASE Answered(r)
    BY <1>2, <1>b, <2>2 DEF CheckSubAttribute
  <2>3. CASE \E s \in Ids : req' = [req EXCEPT ![r].todo = @ \ {s}]
    <3>1. PICK s \in Ids : req' = [req EXCEPT ![r] = [h EXCEPT !.todo = @ \ {s}]]
      BY <2>3
    <3>2. [h EXCEPT !.todo = @ \ {s}] \in Handlers
      BY <2>1 DEF Handlers, Adders, Patchers
    <3> QED
      BY <1>2, <1>a, <3>1, <3>2 DEF CheckSubAttribute
  <2>4. CASE Goto(r, IF h.op = "add" THEN "exists" ELSE "update")
    <3>1. req' = [req EXCEPT ![r] = [h EXCEPT !.pc = IF h.op = "add" THEN "exists"
                                                     ELSE "update"]]
      BY <2>4 DEF Goto
    <3>2. [h EXCEPT !.pc = IF h.op = "add" THEN "exists" ELSE "update"] \in Handlers
      BY <2>1 DEF Handlers, Adders, Patchers
    <3> QED
      BY <1>2, <1>a, <3>1, <3>2 DEF CheckSubAttribute
  <2>5. h.todo \subseteq Ids
    BY <2>1 DEF Adders, Patchers
  <2> QED
    BY <1>2, <2>2, <2>3, <2>4, <2>5 DEF CheckSubAttribute
<1>3. CASE CheckExists(r)
  <2>1. h \in Adders
    BY <1>0, <1>3, HandlerPlaces DEF CheckExists
  <2>2. CASE Answered(r)
    BY <1>3, <1>b, <2>2 DEF CheckExists
  <2>3. CASE Goto(r, "insert")
    <3>1. req' = [req EXCEPT ![r] = [h EXCEPT !.pc = "insert"]]
      BY <2>3 DEF Goto
    <3>2. [h EXCEPT !.pc = "insert"] \in Handlers
      BY <2>1 DEF Handlers, Adders
    <3> QED
      BY <1>3, <1>a, <3>1, <3>2 DEF CheckExists
  <2> QED
    BY <1>3, <2>2, <2>3 DEF CheckExists
<1>4. CASE InsertAttribute(r)
  <2>1. h.row \in Row
    BY <1>0, <1>4, HandlerKinds DEF InsertAttribute, Adders
  <2>2. CASE fresh \in Ids
    <3>1. Cross(r, Free, TRUE, {fresh}) \in [Requests -> Handlers]
      BY <2>2, <1>f, CrossTypes DEF TypeOK
    <3>2. fresh + 1 \in 1..(AttributeIds + 1)
      BY <2>2 DEF Ids, SchemaRulesAssumption
    <3> QED
      BY <1>4, <2>1, <2>2, <3>1, <3>2 DEF InsertAttribute, TypeOK
  <2>3. CASE fresh \notin Ids
    BY <1>4, <1>b, <2>3 DEF InsertAttribute, tables
  <2> QED
    BY <2>2, <2>3
<1>5. CASE UpdateAttribute(r)
  <2>1. h \in Patchers
    BY <1>0, <1>5, HandlerKinds DEF UpdateAttribute
  <2>2. CASE attr[h.id] # NoRow
    <3>1. h.id \in Ids /\ h.to \in Changes
      BY <2>1 DEF Patchers
    <3>2. attr[h.id] \in Row
      BY <2>2, <3>1 DEF TypeOK
    <3>3. Patched(attr[h.id], h.to) \in Row
      BY <3>1, <3>2, ChangeTypes DEF Patched, Row
    <3>4. attr' = [attr EXCEPT ![h.id] = Patched(attr[h.id], h.to)]
      BY <1>5, <2>2, <3>1 DEF UpdateAttribute, TypeOK
    <3>5. Cross(r, Free, TRUE, {h.id}) \in [Requests -> Handlers]
      BY <3>1, <1>f, CrossTypes DEF TypeOK
    <3> QED
      BY <1>5, <2>2, <3>1, <3>3, <3>4, <3>5 DEF UpdateAttribute, TypeOK
  <2>3. CASE attr[h.id] = NoRow
    BY <1>5, <1>b, <2>3 DEF UpdateAttribute, tables
  <2> QED
    BY <2>2, <2>3
<1>6. CASE FindAttribute(r)
  <2>1. h \in Removers
    BY <1>0, <1>6, HandlerKinds DEF FindAttribute
  <2>2. CASE attr[h.id] = NoRow
    BY <1>6, <1>b, <2>2 DEF FindAttribute
  <2>3. CASE attr[h.id] # NoRow
    <3> DEFINE name == attr[h.id].name
               g == [h EXCEPT !.name = name,
                              !.pc = IF name \in DOMAIN Parent THEN "parent" ELSE "delete"]
    <3>1. req' = [req EXCEPT ![r] = g]
      BY <1>6, <2>3 DEF FindAttribute
    <3>2. name \in Names
      BY <2>1, <2>3 DEF Removers, TypeOK, Row
    <3>3. g \in Removers
      BY <2>1, <3>2 DEF Removers
    <3> QED
      BY <1>6, <1>a, <3>1, <3>3 DEF FindAttribute, Handlers
  <2> QED
    BY <2>2, <2>3
<1>7. CASE CheckParent(r)
  <2>1. h \in Removers
    BY <1>0, <1>7, HandlerPlaces DEF CheckParent
  <2>2. CASE Answered(r)
    BY <1>7, <1>b, <2>2 DEF CheckParent
  <2>3. CASE Goto(r, "delete")
    <3>1. req' = [req EXCEPT ![r] = [h EXCEPT !.pc = "delete"]]
      BY <2>3 DEF Goto
    <3>2. [h EXCEPT !.pc = "delete"] \in Handlers
      BY <2>1 DEF Handlers, Removers
    <3> QED
      BY <1>7, <1>a, <3>1, <3>2 DEF CheckParent
  <2> QED
    BY <1>7, <2>2, <2>3 DEF CheckParent
<1>8. CASE DeleteAttribute(r)
  <2>1. {h.id} \in SUBSET Ids
    BY <1>0, <1>8, HandlerKinds DEF DeleteAttribute, Removers
  <2> QED
    BY <1>8, <2>1, DeleteTypes DEF DeleteAttribute, TypeOK
<1> QED
  BY <1>1, <1>2, <1>3, <1>4, <1>5, <1>6, <1>7, <1>8

\* Every variable keeps its type: rules are added and changed.
LEMMA RuleTypes ==
  ASSUME TypeOK, NEW r \in Requests,
         \/ FindProperty(r) \/ CheckRules(r) \/ InsertRule(r) \/ AnswerRule(r)
         \/ ReadRule(r) \/ UpdateRule(r) \/ RequestFails(r)
  PROVE  TypeOK'
<1> DEFINE h == req[r]
<1>0. h \in Handlers
  BY DEF TypeOK
<1>f. Free \in Handlers
  BY DEF Handlers
<1>a. ASSUME NEW g \in Handlers, req' = [req EXCEPT ![r] = g], UNCHANGED <<tables, left>>
      PROVE  TypeOK'
  BY <1>a, StepTypes DEF TypeOK, tables
<1>b. ASSUME Answered(r), UNCHANGED <<tables, left>> PROVE TypeOK'
  BY <1>a, <1>b, <1>f DEF Answered
<1>1. CASE FindProperty(r)
  <2>1. h \in RuleAdders
    BY <1>0, <1>1, HandlerPlaces DEF FindProperty
  <2>2. CASE Answered(r)
    BY <1>1, <1>b, <2>2 DEF FindProperty
  <2>3. CASE ~Answered(r)
    <3>1. PICK i \in Named(h.new.name) :
            req' = [req EXCEPT ![r] = [h EXCEPT !.new.prop = i, !.pc = "rules"]]
      BY <1>1, <2>3 DEF FindProperty
    <3>2. i \in Ids
      BY DEF Named, Live
    <3>3. [h.new EXCEPT !.prop = i]
             \in [name : Names, prop : Ids \cup {0}, priority : Priorities, active : BOOLEAN]
      BY <2>1, <3>2 DEF RuleAdders
    <3>4. [h EXCEPT !.new.prop = i, !.pc = "rules"] \in RuleAdders
      BY <2>1, <3>3 DEF RuleAdders
    <3> QED
      BY <1>1, <1>a, <3>1, <3>4 DEF FindProperty, Handlers
  <2> QED
    BY <2>2, <2>3
<1>2. CASE CheckRules(r)
  <2>1. h \in RuleAdders \cup RulePatchers
    BY <1>0, <1>2, HandlerPlaces DEF CheckRules
  <2>2. CASE Answered(r)
    BY <1>2, <1>b, <2>2 DEF CheckRules
  <2>3. CASE ~Answered(r)
    <3> DEFINE g == [h EXCEPT !.pc = IF h.op = "add rule" THEN "insert" ELSE "update"]
    <3>1. req' = [req EXCEPT ![r] = g]
      BY <1>2, <2>3 DEF CheckRules, Goto
    <3>2. h.pc = "rules"
      BY <1>2 DEF CheckRules
    <3>3. CASE h \in RuleAdders
      <4>1. g \in RuleAdders
        BY <3>3 DEF RuleAdders
      <4> QED
        BY <1>2, <1>a, <3>1, <4>1 DEF CheckRules, Handlers
    <3>4. CASE h \in RulePatchers
      <4>1. g \in RulePatchers
        BY <3>2, <3>4 DEF RulePatchers
      <4> QED
        BY <1>2, <1>a, <3>1, <4>1 DEF CheckRules, Handlers
    <3> QED
      BY <2>1, <3>3, <3>4
  <2> QED
    BY <2>2, <2>3
<1>3. CASE InsertRule(r)
  <2>1. h \in RuleAdders
    BY <1>0, <1>3, HandlerKinds DEF InsertRule
  <2>2. CASE h.new.prop \in Live
    <3>1. h.id \in 1..RuleIds /\ h.new \in Rule
      BY <2>1, <2>2 DEF RuleAdders, Rule, Live
    <3>2. [h EXCEPT !.pc = "again"] \in Handlers
      BY <2>1 DEF Handlers, RuleAdders
    <3>3. Cross(r, [h EXCEPT !.pc = "again"], FALSE, {h.id}) \in [Requests -> Handlers]
      BY <3>1, <3>2, CrossTypes DEF TypeOK
    <3> QED
      BY <1>3, <2>2, <3>1, <3>3 DEF InsertRule, TypeOK
  <2>3. CASE h.new.prop \notin Live
    BY <1>3, <1>b, <2>3 DEF InsertRule, tables
  <2> QED
    BY <2>2, <2>3
<1>4. CASE AnswerRule(r)
  BY <1>4, <1>b DEF AnswerRule
<1>5. CASE ReadRule(r)
  <2>1. h \in RulePatchers
    BY <1>0, <1>5, HandlerKinds DEF ReadRule
  <2>2. CASE h.id \notin Rules
    BY <1>5, <1>b, <2>2 DEF ReadRule
  <2>3. CASE h.id \in Rules
    <3> DEFINE g == [h EXCEPT !.new = Overlay(rule[h.id], h.to), !.pc = "rules"]
    <3>1. req' = [req EXCEPT ![r] = g]
      BY <1>5, <2>3 DEF ReadRule
    <3>2. rule[h.id] \in Rule
      BY <2>1, <2>3 DEF RulePatchers, Rules, TypeOK
    <3>3. h.to \in [priority : Priorities \cup {Keep}, active : BOOLEAN \cup {Keep}]
      BY <2>1, SchemaRulesAssumption DEF RulePatchers, SchemaRulesAssumption
    <3>4. Overlay(rule[h.id], h.to) \in Rule
      BY <3>2, <3>3 DEF Overlay, Rule
    <3>5. g \in RulePatchers
      BY <2>1, <3>4 DEF RulePatchers
    <3> QED
      BY <1>5, <1>a, <3>1, <3>5 DEF ReadRule, Handlers
  <2> QED
    BY <2>2, <2>3
<1>6. CASE UpdateRule(r)
  <2>1. h \in RulePatchers
    BY <1>0, <1>6, HandlerKinds DEF UpdateRule
  <2>2. CASE h.id \in Rules
    <3> DEFINE row == [rule[h.id] EXCEPT !.priority = h.new.priority, !.active = h.new.active]
    <3>1. row \in Rule
      <4>1. h.pc = "update"
        BY <1>6 DEF UpdateRule
      <4>2. h.new \in Rule
        BY <2>1, <4>1 DEF RulePatchers
      <4>3. rule[h.id] \in Rule
        BY <2>1, <2>2 DEF RulePatchers, Rules, TypeOK
      <4> QED
        BY <4>2, <4>3 DEF Rule
    <3>2. rule' = [rule EXCEPT ![h.id] = row]
      BY <1>6, <2>2 DEF UpdateRule
    <3>3. Cross(r, Free, FALSE, {h.id}) \in [Requests -> Handlers]
      BY <2>1, <1>f, CrossTypes DEF TypeOK, RulePatchers
    <3> QED
      BY <1>6, <2>1, <2>2, <3>1, <3>2, <3>3 DEF UpdateRule, TypeOK, RulePatchers
  <2>3. CASE h.id \notin Rules
    BY <1>6, <1>b, <2>3 DEF UpdateRule, tables
  <2> QED
    BY <2>2, <2>3
<1>7. CASE RequestFails(r)
  BY <1>7, <1>b DEF RequestFails
<1> QED
  BY <1>1, <1>2, <1>3, <1>4, <1>5, <1>6, <1>7

\* The type invariant is inductive.
LEMMA TypeStep ==
  ASSUME TypeOK, [Next]_vars
  PROVE  TypeOK'
<1>1. ASSUME NEW r \in Requests, Handle(r) PROVE TypeOK'
  BY <1>1, ArriveTypes, AttributeTypes, RuleTypes DEF Handle
<1>2. CASE UNCHANGED vars
  BY <1>2 DEF vars, tables, TypeOK
<1> QED
  BY <1>1, <1>2 DEF Next

LEMMA TypeInit == Init => TypeOK
<1> SUFFICES ASSUME Init PROVE TypeOK
  OBVIOUS
<1> USE SchemaRulesAssumption DEF SchemaRulesAssumption
<1>1. PICK n \in 0..AttributeIds : First \in [1..n -> Row]
  OBVIOUS
<1>2. PICK m \in 0..RuleIds : FirstRules \in [1..m -> Rule]
  OBVIOUS
<1>3. Cardinality(1..n) = n /\ Cardinality(1..m) = m
  <2>1. \A j \in Nat : Cardinality(1..j) = j
    BY FS_Interval
  <2> QED
    BY <2>1
<1>4. fresh \in 1..(AttributeIds + 1) /\ made \in 1..(RuleIds + 1)
  BY <1>1, <1>2, <1>3 DEF Init
<1>5. attr \in [Ids -> Row \cup {NoRow}]
  <2>1. \A i \in DOMAIN First : First[i] \in Row
    BY <1>1
  <2>2. attr = [i \in Ids |-> IF i \in DOMAIN First THEN First[i] ELSE NoRow]
    BY DEF Init
  <2>3. \A i \in Ids : attr[i] \in Row \cup {NoRow}
    BY <2>1, <2>2
  <2> QED
    BY <2>2, <2>3
<1>6. rule \in [1..RuleIds -> Rule \cup {NoRule}]
  BY <1>2 DEF Init
<1> QED
  BY <1>4, <1>5, <1>6 DEF Init, TypeOK, Handlers

\* Every variable of SchemaRules keeps its type: what a handler carries from one statement
\* to the next is always a row, a rule or a change that it has read or was sent.
THEOREM TypeCorrect == Spec => []TypeOK
<1> QED
  BY TypeInit, TypeStep, PTL DEF Spec

-----------------------------------------------------------------------------
(* A rule refers to an attribute that is there.                            *)

\* A row that a PATCH has written is a row.
LEMMA PatchedIsRow ==
  ASSUME NEW row \in Row, NEW to \in Changes
  PROVE  Patched(row, to) # NoRow
<1>1. Patched(row, to).name = to.name
  BY DEF Patched, Row
<1> QED
  BY <1>1, ChangeTypes, SchemaRulesAssumption DEF NoRow, SchemaRulesAssumption

\* The cascade takes the rules with the attributes that a DELETE removes.
LEMMA DeleteCascades ==
  ASSUME TypeOK, RulesOnSchema, NEW r \in Requests, NEW ids, Delete(r, ids)
  PROVE  RulesOnSchema'
<1> SUFFICES ASSUME NEW k \in Rules' PROVE rule'[k].prop \in Live'
  BY DEF RulesOnSchema
<1>1. k \in Rules /\ rule'[k] = rule[k] /\ rule[k].prop \notin ids
  BY DEF Delete, Rules, TypeOK
<1>2. rule[k].prop \in Live
  BY <1>1 DEF RulesOnSchema
<1> QED
  BY <1>1, <1>2 DEF Delete, Live

LEMMA ReferencesStep ==
  ASSUME TypeOK, RulesOnSchema, [Next]_vars
  PROVE  RulesOnSchema'
<1>a. ASSUME UNCHANGED <<attr, rule>> PROVE RulesOnSchema'
  BY <1>a DEF RulesOnSchema, Rules, Live
<1>1. ASSUME NEW r \in Requests, Handle(r) PROVE RulesOnSchema'
  <2>0. req[r] \in Handlers
    BY DEF TypeOK
  <2>1. CASE InsertAttribute(r)
    <3>1. req[r].row \in Row
      BY <2>0, <2>1, HandlerKinds DEF InsertAttribute, Adders
    <3>2. req[r].row # NoRow
      BY <3>1, SchemaRulesAssumption DEF Row, NoRow, SchemaRulesAssumption
    <3>3. \A i \in Ids : attr'[i] = attr[i] \/ attr'[i] = req[r].row
      BY <2>1 DEF InsertAttribute, TypeOK
    <3>4. Live \subseteq Live' /\ rule' = rule
      BY <2>1, <3>2, <3>3 DEF InsertAttribute, Live
    <3> QED
      BY <3>4 DEF RulesOnSchema, Rules
  <2>2. CASE UpdateAttribute(r)
    <3> DEFINE i == req[r].id
    <3>1. req[r].to \in Changes /\ i \in Ids
      BY <2>0, <2>2, HandlerKinds DEF UpdateAttribute, Patchers
    <3>2. CASE attr[i] # NoRow
      <4>1. Patched(attr[i], req[r].to) # NoRow
        BY <3>1, <3>2, PatchedIsRow DEF TypeOK
      <4>2. attr' = [attr EXCEPT ![i] = Patched(attr[i], req[r].to)] /\ rule' = rule
        BY <2>2, <3>2 DEF UpdateAttribute
      <4>3. Live \subseteq Live'
        BY <4>1, <4>2 DEF Live, TypeOK
      <4> QED
        BY <4>2, <4>3 DEF RulesOnSchema, Rules
    <3>3. CASE attr[i] = NoRow
      BY <2>2, <3>3, <1>a DEF UpdateAttribute
    <3> QED
      BY <3>2, <3>3
  <2>3. CASE RemoveScopes(r) \/ DeleteAttribute(r)
    BY <2>3, DeleteCascades DEF RemoveScopes, DeleteAttribute
  <2>4. CASE DeleteRule(r)
    <3>1. attr' = attr /\ \E k : rule' = [rule EXCEPT ![k] = NoRule]
      BY <2>4 DEF DeleteRule
    <3>2. \A k \in Rules' : k \in Rules /\ rule'[k] = rule[k]
      BY <3>1 DEF Rules, TypeOK
    <3> QED
      BY <3>1, <3>2 DEF RulesOnSchema, Live
  <2>5. CASE InsertRule(r)
    BY <2>5, <1>a DEF InsertRule, RulesOnSchema, Rules, Live, TypeOK
  <2>6. CASE UpdateRule(r)
    <3>1. CASE req[r].id \in Rules
      <4> DEFINE j == req[r].id
                 row == [rule[j] EXCEPT !.priority = req[r].new.priority,
                                        !.active = req[r].new.active]
      <4>0. rule' = [rule EXCEPT ![j] = row]
        BY <2>6, <3>1 DEF UpdateRule
      <4>2. row.prop = rule[j].prop
        BY <3>1 DEF Rules, TypeOK, Rule
      <4>1. \A k \in Rules' : k \in Rules /\ rule'[k].prop = rule[k].prop
        BY <3>1, <4>0, <4>2 DEF Rules, TypeOK
      <4> QED
        BY <2>6, <4>1 DEF UpdateRule, RulesOnSchema, Live
    <3>2. CASE req[r].id \notin Rules
      BY <2>6, <3>2, <1>a DEF UpdateRule
    <3> QED
      BY <3>1, <3>2
  <2>7. CASE PostAttribute(r) \/ PatchAttribute(r) \/ RemoveAttribute(r) \/ PatchRule(r)
    BY <2>7, <1>a DEF PostAttribute, PatchAttribute, RemoveAttribute, PatchRule, Arrive, tables
  <2>8. CASE PostRule(r)
    BY <2>8, <1>a DEF PostRule
  <2>9. CASE \/ ReadAttribute(r) \/ CheckSubAttribute(r) \/ CheckExists(r)
             \/ FindAttribute(r) \/ CheckParent(r) \/ FindProperty(r) \/ CheckRules(r)
             \/ AnswerRule(r) \/ ReadRule(r) \/ RequestFails(r)
    BY <2>9, <1>a DEF ReadAttribute, CheckSubAttribute, CheckExists, FindAttribute,
       CheckParent, FindProperty, CheckRules, AnswerRule, ReadRule, RequestFails, tables
  <2> QED
    BY <1>1, <2>1, <2>2, <2>3, <2>4, <2>5, <2>6, <2>7, <2>8, <2>9 DEF Handle
<1>2. CASE UNCHANGED vars
  BY <1>2, <1>a DEF vars, tables
<1> QED
  BY <1>1, <1>2 DEF Next

LEMMA ReferencesInit == Init => RulesOnSchema
<1> SUFFICES ASSUME Init, NEW k \in Rules PROVE rule[k].prop \in Live
  BY DEF RulesOnSchema
<1> USE SchemaRulesAssumption DEF SchemaRulesAssumption
<1>1. PICK n \in 0..AttributeIds : First \in [1..n -> Row]
  OBVIOUS
<1>2. rule = [j \in 1..RuleIds |-> IF j \in DOMAIN FirstRules THEN FirstRules[j] ELSE NoRule]
  BY DEF Init
<1>3. attr = [i \in Ids |-> IF i \in DOMAIN First THEN First[i] ELSE NoRow]
  BY DEF Init
<1>4. k \in DOMAIN FirstRules /\ rule[k] = FirstRules[k]
  BY <1>2 DEF Rules
<1>5. FirstRules[k].prop \in DOMAIN First
  BY <1>4
<1>6. FirstRules[k].prop \in Ids /\ First[FirstRules[k].prop] \in Row
  BY <1>1, <1>5 DEF Ids
<1>7. First[FirstRules[k].prop] # NoRow
  BY <1>6 DEF Row, NoRow
<1> QED
  BY <1>3, <1>4, <1>5, <1>6, <1>7 DEF Live

\* A rule refers to an attribute that is there, whatever was deleted between the look-up of
\* the property and the insert, or later: "property_id" of unification-rules.md.
THEOREM RuleSafety == Spec => []RulesOnSchema
<1>1. TypeOK /\ RulesOnSchema /\ [Next]_vars => RulesOnSchema'
  BY ReferencesStep
<1> QED
  BY <1>1, ReferencesInit, TypeCorrect, PTL DEF Spec

-----------------------------------------------------------------------------
(* Two rules share a priority only through requests that overlapped.       *)

RuleOps == {"add rule", "patch rule"}

\* A request that is about to write a rule has a priority that no rule has but its own and
\* those written since it arrived.
Checked(r) ==
  req[r].op \in RuleOps /\ req[r].pc \in {"insert", "update"} =>
    \A j \in Rules : j # req[r].id /\ j \notin req[r].crossed
                     => rule[j].priority # req[r].new.priority

PrioritiesChecked == \A r \in Requests : Checked(r)

\* What another request writes is crossed out for the handlers of rules, so what they have
\* checked stays true.
LEMMA CheckedUnderWrite ==
  ASSUME TypeOK, NEW r \in Requests, NEW next, NEW ids, NEW q \in Requests, q # r, Checked(q),
         req' = Cross(r, next, FALSE, ids),
         \A j \in Rules' : j \in ids \/ (j \in Rules /\ rule'[j].priority = rule[j].priority)
  PROVE  Checked(q)'
<1>1. CASE req[q].op \in RuleOps
  <2> SUFFICES ASSUME req'[q].pc \in {"insert", "update"}, NEW j \in Rules',
                      j # req'[q].id, j \notin req'[q].crossed
               PROVE  rule'[j].priority # req'[q].new.priority
    BY DEF Checked
  <2>1. /\ req'[q].pc = req[q].pc /\ req'[q].id = req[q].id /\ req'[q].new = req[q].new
        /\ req'[q].crossed = req[q].crossed \cup ids
    <3>1. req[q] \in RuleAdders \cup RulePatchers
      <4>1. req[q] \in Handlers
        BY DEF TypeOK
      <4> QED
        BY <1>1, <4>1, HandlerKinds DEF RuleOps
    <3>2. req[q] # Free /\ req[q].op \notin OfAttributes
      <4>1. Free.op = "none"
        BY DEF Free
      <4> QED
        BY <1>1, <4>1 DEF RuleOps, OfAttributes
    <3>3. req'[q] = [req[q] EXCEPT !.crossed = @ \cup ids]
      BY <3>2 DEF Cross
    <3> QED
      BY <3>1, <3>3 DEF RuleAdders, RulePatchers
  <2>2. j \in Rules /\ rule'[j].priority = rule[j].priority
    BY <2>1
  <2> QED
    BY <1>1, <2>1, <2>2 DEF Checked
<1>2. CASE req[q].op \notin RuleOps
  <2>1. req[q] = Free \/ req[q].op \in OfAttributes
    <3>1. req[q] \in Handlers
      BY DEF TypeOK
    <3>2. /\ req[q] \in Adders \cup Patchers \cup Removers => req[q].op \in OfAttributes
          /\ req[q] \in RuleAdders \cup RulePatchers => req[q].op \in RuleOps
      BY DEF OfAttributes, RuleOps, Adders, Patchers, Removers, RuleAdders, RulePatchers
    <3> QED
      BY <1>2, <3>1, <3>2 DEF Handlers
  <2>2. req'[q] = req[q]
    BY <2>1 DEF Cross
  <2> QED
    BY <1>2, <2>2 DEF Checked
<1> QED
  BY <1>1, <1>2

\* A handler whose record stays has checked what it has when rules only go.
LEMMA CheckedUnderDelete ==
  ASSUME TypeOK, NEW q \in Requests, Checked(q), req'[q] = req[q],
         \A j \in Rules' : j \in Rules /\ rule'[j].priority = rule[j].priority
  PROVE  Checked(q)'
BY DEF Checked

\* Writes of attributes leave the handlers of rules alone.
LEMMA CheckedUnderAttributes ==
  ASSUME TypeOK, NEW r \in Requests, NEW next, NEW ids, NEW q \in Requests, q # r, Checked(q),
         req' = Cross(r, next, TRUE, ids),
         \A j \in Rules' : j \in Rules /\ rule'[j].priority = rule[j].priority
  PROVE  Checked(q)'
<1>1. CASE req[q] # Free /\ req[q].op \in OfAttributes
  <2>1. req'[q] = [req[q] EXCEPT !.crossed = @ \cup ids]
    BY <1>1 DEF Cross
  <2>2. req[q] \in Adders \cup Patchers \cup Removers
    <3>1. req[q] \in Handlers
      BY DEF TypeOK
    <3> QED
      BY <1>1, <3>1, HandlerKinds DEF OfAttributes
  <2>3. req'[q].op = req[q].op
    BY <2>1, <2>2 DEF Adders, Patchers, Removers
  <2> QED
    BY <1>1, <2>3 DEF Checked, OfAttributes, RuleOps
<1>2. CASE ~(req[q] # Free /\ req[q].op \in OfAttributes)
  BY <1>2, CheckedUnderDelete DEF Cross
<1> QED
  BY <1>1, <1>2

\* A handler that steps to a place where nothing is written has nothing to show.
LEMMA CheckedElsewhere ==
  ASSUME NEW q \in Requests,
         req'[q].op \notin RuleOps \/ req'[q].pc \notin {"insert", "update"}
  PROVE  Checked(q)'
BY DEF Checked

LEMMA CheckedStep ==
  ASSUME TypeOK, PrioritiesChecked, NEW r \in Requests, Handle(r)
  PROVE  PrioritiesChecked'
<1> DEFINE h == req[r]
<1>0. h \in Handlers
  BY DEF TypeOK
<1>t. req \in [Requests -> Handlers]
  BY DEF TypeOK
<1> SUFFICES ASSUME NEW q \in Requests PROVE Checked(q)'
  BY DEF PrioritiesChecked
<1>q. Checked(q)
  BY DEF PrioritiesChecked
\* Nothing but the handler's own record changes.
<1>a. ASSUME \A p \in Requests \ {r} : req'[p] = req[p], UNCHANGED rule,
             q = r => req'[r].op \notin RuleOps \/ req'[r].pc \notin {"insert", "update"}
      PROVE  Checked(q)'
  <2>1. CASE q = r
    BY <1>a, <2>1, CheckedElsewhere
  <2>2. CASE q # r
    BY <1>a, <1>q, <2>2, CheckedUnderDelete DEF Rules
  <2> QED
    BY <2>1, <2>2
<1>f. Free.op = "none" /\ Free.pc = "free"
  BY DEF Free
<1>b. ASSUME Answered(r), UNCHANGED rule PROVE Checked(q)'
  BY <1>a, <1>b, <1>f, <1>t DEF Answered, RuleOps
\* The handler writes attributes and is done.
<1>c. ASSUME NEW ids, req' = Cross(r, Free, TRUE, ids),
             \A j \in Rules' : j \in Rules /\ rule'[j] = rule[j]
      PROVE  Checked(q)'
  <2>1. CASE q = r
    BY <1>c, <2>1, CheckedElsewhere DEF Cross, Free, RuleOps
  <2>2. CASE q # r
    BY <1>c, <1>q, <2>2, CheckedUnderAttributes
  <2> QED
    BY <2>1, <2>2
\* The handler writes rules and has nothing more to write.
<1>d. ASSUME NEW ids, NEW next, req' = Cross(r, next, FALSE, ids),
             next.pc \notin {"insert", "update"},
             \A j \in Rules' : j \in ids \/ (j \in Rules /\ rule'[j].priority = rule[j].priority)
      PROVE  Checked(q)'
  <2>1. CASE q = r
    BY <1>d, <2>1, CheckedElsewhere DEF Cross
  <2>2. CASE q # r
    BY <1>d, <1>q, <2>2, CheckedUnderWrite
  <2> QED
    BY <2>1, <2>2
<1>e. ASSUME NEW ids, Delete(r, ids) PROVE Checked(q)'
  <2>1. \A j \in Rules' : j \in Rules /\ rule'[j] = rule[j]
    BY <1>e DEF Delete, Rules, TypeOK
  <2> QED
    BY <1>c, <1>e, <2>1 DEF Delete
<1>1. CASE PostAttribute(r)
  BY <1>1, <1>a, <1>t DEF PostAttribute, Arrive, tables, RuleOps
<1>2. CASE PatchAttribute(r)
  BY <1>2, <1>a, <1>t DEF PatchAttribute, Arrive, tables, RuleOps
<1>3. CASE RemoveAttribute(r)
  BY <1>3, <1>a, <1>t DEF RemoveAttribute, Arrive, tables, RuleOps
<1>4. CASE RemoveScopes(r)
  BY <1>4, <1>e DEF RemoveScopes
<1>5. CASE PostRule(r)
  <2>1. PICK new : req' = [req EXCEPT ![r] =
          [op |-> "add rule", pc |-> "property", id |-> made, crossed |-> {}, new |-> new]]
    BY <1>5 DEF PostRule
  <2>2. (\A p \in Requests \ {r} : req'[p] = req[p]) /\ req'[r].pc = "property"
    BY <1>t, <2>1
  <2>3. UNCHANGED rule
    BY <1>5 DEF PostRule
  <2> QED
    BY <1>a, <2>2, <2>3
<1>6. CASE PatchRule(r)
  <2>1. PICK k, to : req' = [req EXCEPT ![r] =
          [op |-> "patch rule", pc |-> "read", id |-> k, to |-> to, new |-> NoRule,
           crossed |-> {}]]
    BY <1>6 DEF PatchRule, Arrive
  <2>2. (\A p \in Requests \ {r} : req'[p] = req[p]) /\ req'[r].pc = "read"
    BY <1>t, <2>1
  <2>3. UNCHANGED rule
    BY <1>6 DEF PatchRule, Arrive, tables
  <2> QED
    BY <1>a, <2>2, <2>3
<1>7. CASE DeleteRule(r)
  <2>1. PICK k : /\ rule' = [rule EXCEPT ![k] = NoRule]
                 /\ req' = Cross(r, Free, FALSE, {k} \cap Rules)
    BY <1>7 DEF DeleteRule
  <2>2. \A j \in Rules' : j \in Rules /\ rule'[j] = rule[j]
    BY <2>1 DEF Rules, TypeOK
  <2> QED
    BY <1>d, <1>f, <2>1, <2>2
<1>8. CASE ReadAttribute(r)
  <2>1. h \in Patchers
    BY <1>0, <1>8, HandlerKinds DEF ReadAttribute
  <2>2. UNCHANGED rule
    BY <1>8 DEF ReadAttribute, tables
  <2>3. CASE Answered(r)
    BY <1>b, <2>2, <2>3
  <2>4. CASE ~Answered(r)
    <3> DEFINE subs == IF h.to.subs = Keep THEN attr[h.id].subs ELSE h.to.subs
               app == IF ScopeOf[h.to.name] = "application_data" THEN attr[h.id].app ELSE NoApp
    <3>1. req' = [req EXCEPT ![r] = [h EXCEPT !.pc = "subs", !.todo = subs, !.app = app]]
      BY <1>8, <2>4 DEF ReadAttribute
    <3> HIDE DEF subs, app
    <3>2. \A p \in Requests \ {r} : req'[p] = req[p]
      BY <1>t, <3>1
    <3>3. req'[r] = [h EXCEPT !.pc = "subs", !.todo = subs, !.app = app]
      BY <1>t, <3>1
    <3>4. req'[r].op \notin RuleOps
      BY <2>1, <3>3 DEF Patchers, RuleOps
    <3> QED
      BY <1>a, <2>2, <3>2, <3>4
  <2> QED
    BY <2>3, <2>4
<1>9. CASE CheckSubAttribute(r)
  <2>1. h \in Adders \cup Patchers
    BY <1>0, <1>9, HandlerPlaces DEF CheckSubAttribute
  <2>2. (\A p \in Requests \ {r} : req'[p] = req[p]) /\ req'[r].op \notin RuleOps
    BY <1>t, <1>f, <1>9, <2>1 DEF CheckSubAttribute, Answered, Goto, Adders, Patchers, RuleOps
  <2> QED
    BY <1>9, <1>a, <2>2 DEF CheckSubAttribute, tables
<1>10. CASE CheckExists(r)
  <2>1. h \in Adders
    BY <1>0, <1>10, HandlerPlaces DEF CheckExists
  <2>2. (\A p \in Requests \ {r} : req'[p] = req[p]) /\ req'[r].op \notin RuleOps
    BY <1>t, <1>f, <1>10, <2>1 DEF CheckExists, Answered, Goto, Adders, RuleOps
  <2> QED
    BY <1>10, <1>a, <2>2 DEF CheckExists, tables
<1>11. CASE InsertAttribute(r) \/ UpdateAttribute(r)
  BY <1>11, <1>b, <1>c DEF InsertAttribute, UpdateAttribute, Rules
<1>12. CASE FindAttribute(r)
  <2>1. h \in Removers
    BY <1>0, <1>12, HandlerKinds DEF FindAttribute
  <2>2. UNCHANGED rule
    BY <1>12 DEF FindAttribute, tables
  <2>3. CASE Answered(r)
    BY <1>b, <2>2, <2>3
  <2>4. CASE ~Answered(r)
    <3>1. PICK name, pc : req' = [req EXCEPT ![r].name = name, ![r].pc = pc]
      BY <1>12, <2>4 DEF FindAttribute
    <3>2. \A p \in Requests \ {r} : req'[p] = req[p]
      BY <1>t, <3>1
    <3>3. req'[r] = [h EXCEPT !.name = name, !.pc = pc]
      BY <1>t, <3>1
    <3>4. req'[r].op \notin RuleOps
      BY <2>1, <3>3 DEF Removers, RuleOps
    <3> QED
      BY <1>a, <2>2, <3>2, <3>4
  <2> QED
    BY <2>3, <2>4
<1>13. CASE CheckParent(r)
  <2>1. (\A p \in Requests \ {r} : req'[p] = req[p]) /\ req'[r].pc \in {"free", "delete"}
    BY <1>t, <1>f, <1>0, <1>13, HandlerPlaces DEF CheckParent, Answered, Goto, Removers
  <2> QED
    BY <1>13, <1>a, <2>1 DEF CheckParent, tables
<1>14. CASE DeleteAttribute(r)
  BY <1>14, <1>e DEF DeleteAttribute
<1>15. CASE FindProperty(r)
  <2>1. UNCHANGED rule
    BY <1>15 DEF FindProperty, tables
  <2>2. CASE Answered(r)
    BY <1>b, <2>1, <2>2
  <2>3. CASE ~Answered(r)
    <3>1. PICK i \in Named(req[r].new.name) :
            req' = [req EXCEPT ![r].new.prop = i, ![r].pc = "rules"]
      BY <1>15, <2>3 DEF FindProperty
    <3>2. \A p \in Requests \ {r} : req'[p] = req[p]
      BY <1>t, <3>1
    <3>3. req'[r] = [h EXCEPT !.new.prop = i, !.pc = "rules"]
      BY <1>t, <3>1
    <3>4. h \in RuleAdders
      BY <1>0, <1>15, HandlerPlaces DEF FindProperty
    <3>5. req'[r].pc = "rules"
      BY <3>3, <3>4 DEF RuleAdders
    <3> QED
      BY <1>a, <2>1, <3>2, <3>5
  <2> QED
    BY <2>2, <2>3
<1>16. CASE CheckRules(r)
  <2>1. CASE Answered(r)
    BY <1>16, <1>b, <2>1 DEF CheckRules, tables
  <2>2. CASE q # r
    BY <1>16, <1>q, <2>2, CheckedUnderDelete DEF CheckRules, Answered, Goto, Rules, TypeOK, tables
  <2>3. CASE ~Answered(r) /\ q = r
    <3>1. ~Taken(h.id, h.new)
      BY <1>16, <2>3 DEF CheckRules
    <3>2. req'[r] = [h EXCEPT !.pc = IF h.op = "add rule" THEN "insert" ELSE "update"]
      BY <1>16, <2>3 DEF CheckRules, Goto, TypeOK
    <3>3. req'[r].id = h.id /\ req'[r].new = h.new
      BY <1>0, <1>16, <3>2, HandlerPlaces DEF CheckRules, RuleAdders, RulePatchers
    <3> QED
      BY <1>16, <2>3, <3>1, <3>3 DEF CheckRules, Checked, Taken, Rules, tables
  <2> QED
    BY <2>1, <2>2, <2>3
<1>17. CASE InsertRule(r)
  <2>1. CASE h.new.prop \in Live
    <3>1. rule' = [rule EXCEPT ![h.id] = h.new]
      BY <1>17, <2>1 DEF InsertRule
    <3>2. \A j \in Rules' : j \in {h.id} \/ (j \in Rules /\ rule'[j] = rule[j])
      BY <3>1 DEF Rules, TypeOK
    <3>3. [h EXCEPT !.pc = "again"].pc = "again"
      BY <1>0, <1>17, HandlerKinds DEF InsertRule, RuleAdders
    <3> QED
      BY <1>17, <1>d, <2>1, <3>2, <3>3 DEF InsertRule
  <2>2. CASE h.new.prop \notin Live
    BY <1>17, <1>b, <2>2 DEF InsertRule
  <2> QED
    BY <2>1, <2>2
<1>18. CASE ReadRule(r)
  <2>1. h \in RulePatchers
    BY <1>0, <1>18, HandlerKinds DEF ReadRule
  <2>2. UNCHANGED rule
    BY <1>18 DEF ReadRule, tables
  <2>3. CASE Answered(r)
    BY <1>b, <2>2, <2>3
  <2>4. CASE ~Answered(r)
    <3>1. PICK new : req' = [req EXCEPT ![r].new = new, ![r].pc = "rules"]
      BY <1>18, <2>4 DEF ReadRule
    <3>2. \A p \in Requests \ {r} : req'[p] = req[p]
      BY <1>t, <3>1
    <3>3. req'[r] = [h EXCEPT !.new = new, !.pc = "rules"]
      BY <1>t, <3>1
    <3>4. req'[r].pc = "rules"
      BY <2>1, <3>3 DEF RulePatchers
    <3> QED
      BY <1>a, <2>2, <3>2, <3>4
  <2> QED
    BY <2>3, <2>4
<1>19. CASE UpdateRule(r)
  <2>1. CASE h.id \in Rules
    <3>1. \A j \in Rules' : j \in {h.id} \/ (j \in Rules /\ rule'[j] = rule[j])
      BY <1>19, <2>1 DEF UpdateRule, Rules, TypeOK
    <3>2. req' = Cross(r, Free, FALSE, {h.id})
      BY <1>19, <2>1 DEF UpdateRule
    <3> QED
      BY <1>d, <1>f, <3>1, <3>2
  <2>2. CASE h.id \notin Rules
    BY <1>19, <1>b, <2>2 DEF UpdateRule
  <2> QED
    BY <2>1, <2>2
<1>20. CASE AnswerRule(r) \/ RequestFails(r)
  BY <1>20, <1>b DEF AnswerRule, RequestFails, tables
<1> QED
  BY <1>1, <1>2, <1>3, <1>4, <1>5, <1>6, <1>7, <1>8, <1>9, <1>10, <1>11, <1>12, <1>13, <1>14,
     <1>15, <1>16, <1>17, <1>18, <1>19, <1>20 DEF Handle

LEMMA CheckedInit == Init => PrioritiesChecked
<1> SUFFICES ASSUME Init, NEW r \in Requests PROVE Checked(r)
  BY DEF PrioritiesChecked
<1>1. req[r].op = "none"
  BY DEF Init, Free
<1> QED
  BY <1>1 DEF Checked, RuleOps

LEMMA CheckedStutter == PrioritiesChecked /\ UNCHANGED vars => PrioritiesChecked'
BY DEF PrioritiesChecked, Checked, Rules, vars, tables

\* No request writes a priority that another rule already had when it arrived.
LEMMA PrioritiesCheckedAlways == Spec => []PrioritiesChecked
<1>1. TypeOK /\ PrioritiesChecked /\ [Next]_vars => PrioritiesChecked'
  BY CheckedStep, CheckedStutter DEF Next
<1> QED
  BY <1>1, CheckedInit, TypeCorrect, PTL DEF Spec

\* The only writers of priorities are the two statements on rules, and each has checked.
LEMMA ClashByOverlap ==
  ASSUME TypeOK, PrioritiesChecked, [Next]_vars,
         NEW i \in 1..RuleIds, NEW j \in 1..RuleIds, i # j, Clash(i, j)', ~Clash(i, j)
  PROVE  \E r \in Requests, k \in {i, j} :
           /\ req[r].pc \in {"insert", "update"} /\ req[r].op \in {"add rule", "patch rule"}
           /\ req[r].id = k /\ req[r].crossed \cap ({i, j} \ {k}) # {}
<1>a. ASSUME \A k \in Rules' : k \in Rules /\ rule'[k].priority = rule[k].priority PROVE FALSE
  BY <1>a DEF Clash
\* One rule is written, with the priority that its handler has checked.
<1>b. ASSUME NEW r \in Requests, req[r].op \in RuleOps, req[r].pc \in {"insert", "update"},
             \A k \in Rules' : \/ k = req[r].id /\ rule'[k].priority = req[r].new.priority
                               \/ k \in Rules /\ rule'[k].priority = rule[k].priority
      PROVE  \E k \in {i, j} : req[r].id = k /\ req[r].crossed \cap ({i, j} \ {k}) # {}
  <2>1. Checked(r)
    BY DEF PrioritiesChecked
  <2>2. \A m \in Rules : m # req[r].id /\ m \notin req[r].crossed
                         => rule[m].priority # req[r].new.priority
    BY <1>b, <2>1 DEF Checked
  <2>3. {i, j} \subseteq Rules' /\ rule'[i].priority = rule'[j].priority
    BY DEF Clash
  <2>4. CASE req[r].id = i
    <3>1. j \in Rules /\ rule'[j].priority = rule[j].priority
      BY <1>b, <2>3, <2>4
    <3>2. rule'[i].priority = req[r].new.priority \/ (i \in Rules /\ rule'[i].priority = rule[i].priority)
      BY <1>b, <2>3
    <3>3. rule[j].priority = req[r].new.priority
      BY <2>3, <3>1, <3>2 DEF Clash
    <3>4. j \in req[r].crossed
      BY <2>2, <2>4, <3>1, <3>3
    <3> QED
      BY <2>4, <3>4
  <2>5. CASE req[r].id = j
    <3>1. i \in Rules /\ rule'[i].priority = rule[i].priority
      BY <1>b, <2>3, <2>5
    <3>2. rule'[j].priority = req[r].new.priority \/ (j \in Rules /\ rule'[j].priority = rule[j].priority)
      BY <1>b, <2>3
    <3>3. rule[i].priority = req[r].new.priority
      BY <2>3, <3>1, <3>2 DEF Clash
    <3>4. i \in req[r].crossed
      BY <2>2, <2>5, <3>1, <3>3
    <3> QED
      BY <2>5, <3>4
  <2>6. CASE req[r].id \notin {i, j}
    BY <1>b, <2>3, <2>6 DEF Clash
  <2> QED
    BY <2>4, <2>5, <2>6
<1>u. ASSUME UNCHANGED rule PROVE FALSE
  BY <1>u, <1>a DEF Rules
<1>1. ASSUME NEW r \in Requests, Handle(r)
      PROVE  /\ req[r].op \in RuleOps /\ req[r].pc \in {"insert", "update"}
             /\ \E k \in {i, j} : req[r].id = k /\ req[r].crossed \cap ({i, j} \ {k}) # {}
  <2>0. req[r] \in Handlers
    BY DEF TypeOK
  <2>1. CASE InsertRule(r)
    <3>1. CASE req[r].new.prop \in Live
      <4>1. rule' = [rule EXCEPT ![req[r].id] = req[r].new]
        BY <2>1, <3>1 DEF InsertRule
      <4>2. \A k \in Rules' : \/ k = req[r].id /\ rule'[k].priority = req[r].new.priority
                              \/ k \in Rules /\ rule'[k].priority = rule[k].priority
        BY <4>1 DEF Rules, TypeOK
      <4> QED
        BY <1>b, <2>1, <4>2 DEF InsertRule, RuleOps
    <3>2. CASE req[r].new.prop \notin Live
      BY <1>u, <2>1, <3>2 DEF InsertRule
    <3> QED
      BY <3>1, <3>2
  <2>2. CASE UpdateRule(r)
    <3> DEFINE m == req[r].id
               row == [rule[m] EXCEPT !.priority = req[r].new.priority,
                                      !.active = req[r].new.active]
    <3>1. CASE m \in Rules
      <4>1. rule' = [rule EXCEPT ![m] = row]
        BY <2>2, <3>1 DEF UpdateRule
      <4>2. row.priority = req[r].new.priority
        BY <3>1 DEF Rules, TypeOK, Rule
      <4>3. \A k \in Rules' : \/ k = m /\ rule'[k].priority = req[r].new.priority
                              \/ k \in Rules /\ rule'[k].priority = rule[k].priority
        BY <3>1, <4>1, <4>2 DEF Rules, TypeOK
      <4> QED
        BY <1>b, <2>2, <4>3 DEF UpdateRule, RuleOps
    <3>2. CASE m \notin Rules
      BY <1>u, <2>2, <3>2 DEF UpdateRule
    <3> QED
      BY <3>1, <3>2
  <2>3. CASE RemoveScopes(r) \/ DeleteAttribute(r)
    <3>1. \A k \in Rules' : k \in Rules /\ rule'[k] = rule[k]
      BY <2>3 DEF RemoveScopes, DeleteAttribute, Delete, Rules, TypeOK
    <3> QED
      BY <1>a, <3>1
  <2>4. CASE DeleteRule(r)
    <3>1. \E k : rule' = [rule EXCEPT ![k] = NoRule]
      BY <2>4 DEF DeleteRule
    <3>2. \A k \in Rules' : k \in Rules /\ rule'[k] = rule[k]
      BY <3>1 DEF Rules, TypeOK
    <3> QED
      BY <1>a, <3>2
  <2>5. CASE PostAttribute(r) \/ PatchAttribute(r) \/ RemoveAttribute(r) \/ PatchRule(r)
    BY <2>5, <1>u DEF PostAttribute, PatchAttribute, RemoveAttribute, PatchRule, Arrive, tables
  <2>6. CASE PostRule(r) \/ InsertAttribute(r) \/ UpdateAttribute(r)
    BY <2>6, <1>u DEF PostRule, InsertAttribute, UpdateAttribute
  <2>7. CASE \/ ReadAttribute(r) \/ CheckSubAttribute(r) \/ CheckExists(r)
             \/ FindAttribute(r) \/ CheckParent(r) \/ FindProperty(r) \/ CheckRules(r)
             \/ AnswerRule(r) \/ ReadRule(r) \/ RequestFails(r)
    BY <2>7, <1>u DEF ReadAttribute, CheckSubAttribute, CheckExists, FindAttribute,
       CheckParent, FindProperty, CheckRules, AnswerRule, ReadRule, RequestFails, tables
  <2> QED
    BY <1>1, <2>1, <2>2, <2>3, <2>4, <2>5, <2>6, <2>7 DEF Handle
<1>2. CASE UNCHANGED vars
  BY <1>2, <1>u DEF vars, tables
<1> QED
  BY <1>1, <1>2 DEF Next, RuleOps

\* "Unification rule with same priority exist": two rules come to share a priority only
\* through requests that overlapped, however many there are; the table has no UNIQUE
\* constraint, and the comparison in the service is all there is.
THEOREM PrioritySafety == Spec => PrioritiesDiffer
<1>1. TypeOK /\ PrioritiesChecked /\ [Next]_vars =>
      [\A i, j \in 1..RuleIds :
         i # j /\ Clash(i, j)' /\ ~Clash(i, j) =>
           \E r \in Requests, k \in {i, j} :
             /\ req[r].pc \in {"insert", "update"} /\ req[r].op \in {"add rule", "patch rule"}
             /\ req[r].id = k /\ req[r].crossed \cap ({i, j} \ {k}) # {}]_vars
  BY ClashByOverlap
<1> QED
  BY <1>1, TypeCorrect, PrioritiesCheckedAlways, PTL DEF Spec, PrioritiesDiffer

-----------------------------------------------------------------------------
(* What a handler knows of the rows it has read.                           *)

\* A step of another handler leaves the record of q as it is, but for the rows of its table
\* that the step has written, of which q is told.
Told(q) ==
  \/ /\ req'[q] = req[q]
     /\ req[q].op \in OfAttributes => attr' = attr
     /\ req[q].op \in RuleOps => \A k \in Rules' : k \in Rules /\ rule'[k] = rule[k]
  \/ \E ids :
       /\ req[q] # Free /\ req'[q] = [req[q] EXCEPT !.crossed = @ \cup ids]
       /\ req[q].op \in OfAttributes => \A i \in Ids : i \in ids \/ attr'[i] = attr[i]
       /\ req[q].op \in RuleOps =>
            \A k \in Rules' : k \in ids \/ (k \in Rules /\ rule'[k] = rule[k])

\* It is told by Cross.
LEMMA CrossTells ==
  ASSUME TypeOK, NEW r \in Requests, NEW next, NEW about \in BOOLEAN, NEW ids,
         req' = Cross(r, next, about, ids),
         about => /\ \A i \in Ids : i \in ids \/ attr'[i] = attr[i]
                  /\ \A k \in Rules' : k \in Rules /\ rule'[k] = rule[k],
         ~about => /\ attr' = attr
                   /\ \A k \in Rules' : k \in ids \/ (k \in Rules /\ rule'[k] = rule[k]),
         NEW q \in Requests, q # r
  PROVE  Told(q)
<1>0. Free.op = "none"
  BY DEF Free
<1>k. ~(req[q].op \in OfAttributes /\ req[q].op \in RuleOps)
  BY DEF OfAttributes, RuleOps
<1>1. CASE req[q] # Free /\ about = (req[q].op \in OfAttributes)
  <2>1. req'[q] = [req[q] EXCEPT !.crossed = @ \cup ids]
    BY <1>1 DEF Cross
  <2> QED
    BY <1>1, <1>k, <2>1 DEF Told
<1>2. CASE req[q] = Free
  BY <1>2, <1>0 DEF Cross, Told, OfAttributes, RuleOps
<1>3. CASE req[q] # Free /\ about # (req[q].op \in OfAttributes)
  <2>1. req'[q] = req[q]
    BY <1>3 DEF Cross
  <2> QED
    BY <1>3, <1>k, <2>1 DEF Told
<1> QED
  BY <1>1, <1>2, <1>3

LEMMA OthersAreTold ==
  ASSUME TypeOK, NEW r \in Requests, Handle(r), NEW q \in Requests, q # r
  PROVE  Told(q)
<1>t. req \in [Requests -> Handlers]
  BY DEF TypeOK
<1>a. ASSUME req'[q] = req[q], UNCHANGED <<attr, rule>> PROVE Told(q)
  BY <1>a DEF Told, Rules
<1>b. ASSUME Answered(r) PROVE req'[q] = req[q]
  BY <1>b, <1>t DEF Answered
<1>c. ASSUME NEW pc, Goto(r, pc) PROVE req'[q] = req[q]
  BY <1>c, <1>t DEF Goto
<1>d. ASSUME NEW ids, Delete(r, ids) PROVE Told(q)
  <2>1. req' = Cross(r, Free, TRUE, ids \cap Live)
    BY <1>d DEF Delete
  <2>2. \A i \in Ids : i \in ids \cap Live \/ attr'[i] = attr[i]
    BY <1>d DEF Delete, Live
  <2>3. \A k \in Rules' : k \in Rules /\ rule'[k] = rule[k]
    BY <1>d DEF Delete, Rules, TypeOK
  <2> QED
    BY <2>1, <2>2, <2>3, CrossTells
<1>1. CASE PostAttribute(r) \/ PatchAttribute(r) \/ RemoveAttribute(r) \/ PatchRule(r)
  <2>1. PICK h : Arrive(r, h)
    BY <1>1 DEF PostAttribute, PatchAttribute, RemoveAttribute, PatchRule
  <2> QED
    BY <2>1, <1>a, <1>t DEF Arrive, tables
<1>2. CASE RemoveScopes(r) \/ DeleteAttribute(r)
  BY <1>2, <1>d DEF RemoveScopes, DeleteAttribute
<1>3. CASE PostRule(r)
  BY <1>3, <1>a, <1>t DEF PostRule
<1>4. CASE DeleteRule(r)
  <2>1. PICK k \in 1..(made - 1) : /\ rule' = [rule EXCEPT ![k] = NoRule]
                                   /\ req' = Cross(r, Free, FALSE, {k} \cap Rules)
    BY <1>4 DEF DeleteRule
  <2>2. \A j \in Rules' : j \in Rules /\ rule'[j] = rule[j]
    BY <2>1 DEF Rules, TypeOK
  <2>3. attr' = attr
    BY <1>4 DEF DeleteRule
  <2> QED
    BY <2>1, <2>2, <2>3, CrossTells
<1>5. CASE RequestFails(r) \/ AnswerRule(r)
  BY <1>5, <1>a, <1>b DEF RequestFails, AnswerRule, tables
<1>6. CASE \/ ReadAttribute(r) \/ CheckSubAttribute(r) \/ FindAttribute(r)
           \/ FindProperty(r) \/ ReadRule(r)
  <2>1. req'[q] = req[q]
    BY <1>6, <1>b, <1>c, <1>t
       DEF ReadAttribute, CheckSubAttribute, FindAttribute, FindProperty, ReadRule
  <2> QED
    BY <1>6, <1>a, <2>1
       DEF ReadAttribute, CheckSubAttribute, FindAttribute, FindProperty, ReadRule, tables
<1>7. CASE CheckExists(r) \/ CheckParent(r) \/ CheckRules(r)
  <2>1. req'[q] = req[q]
    BY <1>7, <1>b, <1>c DEF CheckExists, CheckParent, CheckRules
  <2> QED
    BY <1>7, <1>a, <2>1 DEF CheckExists, CheckParent, CheckRules, tables
<1>8. CASE InsertAttribute(r)
  <2>1. CASE fresh \in Ids
    <3>1. /\ req' = Cross(r, Free, TRUE, {fresh}) /\ rule' = rule
          /\ attr' = [attr EXCEPT ![fresh] = req[r].row]
      BY <1>8, <2>1 DEF InsertAttribute
    <3>2. \A i \in Ids : i \in {fresh} \/ attr'[i] = attr[i]
      BY <3>1 DEF TypeOK
    <3> QED
      BY <3>1, <3>2, CrossTells DEF Rules
  <2>2. CASE fresh \notin Ids
    BY <1>8, <2>2, <1>a, <1>b DEF InsertAttribute
  <2> QED
    BY <2>1, <2>2
<1>9. CASE UpdateAttribute(r)
  <2> DEFINE i == req[r].id
  <2>1. CASE attr[i] # NoRow
    <3>1. req' = Cross(r, Free, TRUE, {i}) /\ rule' = rule
      BY <1>9, <2>1 DEF UpdateAttribute
    <3>2. \A j \in Ids : j \in {i} \/ attr'[j] = attr[j]
      BY <1>9, <2>1 DEF UpdateAttribute, TypeOK
    <3> QED
      BY <3>1, <3>2, CrossTells DEF Rules
  <2>2. CASE attr[i] = NoRow
    BY <1>9, <2>2, <1>a, <1>b DEF UpdateAttribute
  <2> QED
    BY <2>1, <2>2
<1>10. CASE InsertRule(r)
  <2> DEFINE k == req[r].id
  <2>1. CASE req[r].new.prop \in Live
    <3>1. /\ req' = Cross(r, [req[r] EXCEPT !.pc = "again"], FALSE, {k}) /\ attr' = attr
          /\ rule' = [rule EXCEPT ![k] = req[r].new]
      BY <1>10, <2>1 DEF InsertRule
    <3>2. \A j \in Rules' : j \in {k} \/ (j \in Rules /\ rule'[j] = rule[j])
      BY <3>1 DEF Rules, TypeOK
    <3> QED
      BY <3>1, <3>2, CrossTells
  <2>2. CASE req[r].new.prop \notin Live
    BY <1>10, <2>2, <1>a, <1>b DEF InsertRule
  <2> QED
    BY <2>1, <2>2
<1>11. CASE UpdateRule(r)
  <2> DEFINE k == req[r].id
  <2>1. CASE k \in Rules
    <3>1. req' = Cross(r, Free, FALSE, {k}) /\ attr' = attr
      BY <1>11, <2>1 DEF UpdateRule
    <3>2. \A j \in Rules' : j \in {k} \/ (j \in Rules /\ rule'[j] = rule[j])
      BY <1>11, <2>1 DEF UpdateRule, Rules, TypeOK
    <3> QED
      BY <3>1, <3>2, CrossTells
  <2>2. CASE k \notin Rules
    BY <1>11, <2>2, <1>a, <1>b DEF UpdateRule
  <2> QED
    BY <2>1, <2>2
<1> QED
  BY <1>1, <1>2, <1>3, <1>4, <1>5, <1>6, <1>7, <1>8, <1>9, <1>10, <1>11 DEF Handle

\* A handler that is told of rows keeps the rest of its record.
LEMMA TellingKeeps ==
  ASSUME NEW h \in Handlers, h # Free, NEW ids
  PROVE  LET g == [h EXCEPT !.crossed = @ \cup ids] IN
         /\ g.op = h.op /\ g.pc = h.pc /\ g.crossed = h.crossed \cup ids
         /\ h.op = "add" => g.row = h.row /\ g.todo = h.todo
         /\ h.op = "patch" => g.id = h.id /\ g.to = h.to /\ g.todo = h.todo
         /\ h.op = "remove" => g.id = h.id /\ g.name = h.name
         /\ h.op = "add rule" => g.id = h.id
         /\ h.op = "patch rule" => g.id = h.id /\ g.to = h.to /\ g.new = h.new
<1>1. CASE h \in Adders
  BY <1>1 DEF Adders
<1>2. CASE h \in Patchers
  BY <1>2 DEF Patchers
<1>3. CASE h \in Removers
  BY <1>3 DEF Removers
<1>4. CASE h \in RuleAdders
  BY <1>4 DEF RuleAdders
<1>5. CASE h \in RulePatchers
  BY <1>5 DEF RulePatchers
<1> QED
  BY <1>1, <1>2, <1>3, <1>4, <1>5 DEF Handlers

-----------------------------------------------------------------------------
(* A PATCH of a rule keeps what it does not carry.                         *)

\* A PATCH that has read its rule has a value of its own or the rule's, if the rule was not
\* written since the PATCH arrived.
Kept(q) ==
  req[q].op = "patch rule" /\ req[q].pc \in {"rules", "update"}
    /\ req[q].id \in Rules /\ req[q].id \notin req[q].crossed =>
      /\ req[q].new.priority \in {rule[req[q].id].priority, req[q].to.priority}
      /\ req[q].new.active \in {rule[req[q].id].active, req[q].to.active}

PatchesKeep == \A q \in Requests : Kept(q)

\* What the handler puts over the rule is the rule's or the PATCH's.
LEMMA OverlayKeeps ==
  ASSUME NEW row \in Rule, NEW to \in RuleChanges
  PROVE  /\ Overlay(row, to).priority \in {row.priority, to.priority}
         /\ Overlay(row, to).active \in {row.active, to.active}
<1>1. to \in [priority : Priorities \cup {Keep}, active : BOOLEAN \cup {Keep}]
  BY SchemaRulesAssumption DEF SchemaRulesAssumption
<1> QED
  BY <1>1 DEF Overlay, Rule

LEMMA KeptWhenTold ==
  ASSUME TypeOK, NEW q \in Requests, Kept(q), Told(q)
  PROVE  Kept(q)'
<1>1. CASE req'[q] = req[q] /\ (req[q].op \in RuleOps =>
             \A k \in Rules' : k \in Rules /\ rule'[k] = rule[k])
  BY <1>1 DEF Kept, RuleOps
<1>2. CASE ~(req'[q] = req[q] /\ (req[q].op \in RuleOps =>
               \A k \in Rules' : k \in Rules /\ rule'[k] = rule[k]))
  <2>1. PICK ids :
          /\ req[q] # Free /\ req'[q] = [req[q] EXCEPT !.crossed = @ \cup ids]
          /\ req[q].op \in RuleOps =>
               \A k \in Rules' : k \in ids \/ (k \in Rules /\ rule'[k] = rule[k])
    BY <1>2 DEF Told
  <2>2. req[q] \in Handlers
    BY DEF TypeOK
  <2>3. /\ req'[q].op = req[q].op /\ req'[q].pc = req[q].pc
        /\ req'[q].crossed = req[q].crossed \cup ids
        /\ req[q].op = "patch rule" =>
             req'[q].id = req[q].id /\ req'[q].to = req[q].to /\ req'[q].new = req[q].new
    BY <2>1, <2>2, TellingKeeps
  <2> QED
    BY <2>1, <2>3 DEF Kept, RuleOps
<1> QED
  BY <1>1, <1>2

\* What a handler of a rule does itself.
LEMMA OwnKept ==
  ASSUME TypeOK, NEW r \in Requests, Handle(r), Kept(r)
  PROVE  Kept(r)'
<1> DEFINE h == req[r]
<1>t. req \in [Requests -> Handlers] /\ h \in Handlers
  BY DEF TypeOK
<1>f. Free.op = "none"
  BY DEF Free
<1>a. ASSUME Answered(r) PROVE Kept(r)'
  BY <1>a, <1>t, <1>f DEF Answered, Kept
<1>b. ASSUME req'[r].op # "patch rule" \/ req'[r].pc \notin {"rules", "update"} PROVE Kept(r)'
  BY <1>b DEF Kept
<1>c. ASSUME NEW about, NEW ids, req' = Cross(r, Free, about, ids) PROVE Kept(r)'
  <2>1. req'[r] = Free
    BY <1>c DEF Cross
  <2> QED
    BY <2>1, <1>b, <1>f
<1>1. CASE PostAttribute(r) \/ PatchAttribute(r) \/ RemoveAttribute(r)
  <2>1. req'[r].op \in {"add", "patch", "remove"}
    BY <1>1, <1>t DEF PostAttribute, PatchAttribute, RemoveAttribute, Arrive
  <2> QED
    BY <1>b, <2>1
<1>2. CASE PostRule(r) \/ PatchRule(r)
  <2>1. ASSUME PostRule(r) PROVE req'[r].pc = "property"
    <3>1. PICK new : req' = [req EXCEPT ![r] =
            [op |-> "add rule", pc |-> "property", id |-> made, crossed |-> {}, new |-> new]]
      BY <2>1 DEF PostRule
    <3> QED
      BY <1>t, <3>1
  <2>2. ASSUME PatchRule(r) PROVE req'[r].pc = "read"
    <3>1. PICK k, to : req' = [req EXCEPT ![r] =
            [op |-> "patch rule", pc |-> "read", id |-> k, to |-> to, new |-> NoRule,
             crossed |-> {}]]
      BY <2>2 DEF PatchRule, Arrive
    <3> QED
      BY <1>t, <3>1
  <2> QED
    BY <1>b, <1>2, <2>1, <2>2
<1>3. CASE RemoveScopes(r) \/ DeleteAttribute(r) \/ DeleteRule(r)
  BY <1>3, <1>c DEF RemoveScopes, DeleteAttribute, DeleteRule, Delete
<1>4. CASE InsertAttribute(r) \/ UpdateAttribute(r) \/ UpdateRule(r)
  <2>1. \/ Answered(r)
        \/ req' = Cross(r, Free, TRUE, {fresh})
        \/ req' = Cross(r, Free, TRUE, {h.id})
        \/ req' = Cross(r, Free, FALSE, {h.id})
    BY <1>4 DEF InsertAttribute, UpdateAttribute, UpdateRule
  <2> QED
    BY <2>1, <1>a, <1>c
<1>5. CASE RequestFails(r) \/ AnswerRule(r)
  BY <1>5, <1>a DEF RequestFails, AnswerRule
<1>6. CASE ReadAttribute(r)
  <2>1. h \in Patchers
    BY <1>6, <1>t, HandlerKinds DEF ReadAttribute
  <2>2. CASE ~Answered(r)
    <3> DEFINE subs == IF h.to.subs = Keep THEN attr[h.id].subs ELSE h.to.subs
               app == IF ScopeOf[h.to.name] = "application_data" THEN attr[h.id].app ELSE NoApp
    <3>1. req' = [req EXCEPT ![r] = [h EXCEPT !.pc = "subs", !.todo = subs, !.app = app]]
      BY <1>6, <2>2 DEF ReadAttribute
    <3> HIDE DEF subs, app
    <3>2. req'[r] = [h EXCEPT !.pc = "subs", !.todo = subs, !.app = app]
      BY <1>t, <3>1
    <3>3. req'[r].op = h.op
      BY <2>1, <3>2 DEF Patchers
    <3> QED
      BY <1>b, <1>6, <3>3 DEF ReadAttribute
  <2> QED
    BY <1>a, <2>2
<1>7. CASE CheckSubAttribute(r)
  <2>1. h \in Adders \cup Patchers
    BY <1>7, <1>t, HandlerPlaces DEF CheckSubAttribute
  <2>2. CASE ~Answered(r)
    <3>1. \/ \E pc : req'[r] = [h EXCEPT !.pc = pc]
          \/ \E todo : req'[r] = [h EXCEPT !.todo = todo]
      BY <1>7, <1>t, <2>2 DEF CheckSubAttribute, Goto
    <3>2. req'[r].op \in {"add", "patch"}
      BY <2>1, <3>1 DEF Adders, Patchers
    <3> QED
      BY <1>b, <3>2
  <2> QED
    BY <1>a, <2>2
<1>8. CASE FindAttribute(r)
  <2>1. h \in Removers
    BY <1>8, <1>t, HandlerKinds DEF FindAttribute
  <2>2. CASE ~Answered(r)
    <3>1. PICK name, pc : req' = [req EXCEPT ![r].name = name, ![r].pc = pc]
      BY <1>8, <2>2 DEF FindAttribute
    <3>2. req'[r] = [h EXCEPT !.name = name, !.pc = pc]
      BY <1>t, <3>1
    <3>3. req'[r].op = "remove"
      BY <2>1, <3>2 DEF Removers
    <3> QED
      BY <1>b, <3>3
  <2> QED
    BY <1>a, <2>2
<1>9. CASE CheckExists(r) \/ CheckParent(r)
  <2>1. h \in Adders \cup Removers
    BY <1>9, <1>t, HandlerPlaces DEF CheckExists, CheckParent
  <2>2. CASE ~Answered(r)
    <3>1. PICK pc \in {"insert", "delete"} : Goto(r, pc)
      BY <1>9, <2>2 DEF CheckExists, CheckParent
    <3>2. req'[r] = [h EXCEPT !.pc = pc]
      BY <3>1, <1>t DEF Goto
    <3>3. req'[r].op \in {"add", "remove"}
      BY <2>1, <3>2 DEF Adders, Removers
    <3> QED
      BY <1>b, <3>3
  <2> QED
    BY <1>a, <2>2
<1>10. CASE FindProperty(r)
  <2>1. h \in RuleAdders
    BY <1>10, <1>t, HandlerPlaces DEF FindProperty
  <2>2. CASE ~Answered(r)
    <3>1. PICK i : req' = [req EXCEPT ![r].new.prop = i, ![r].pc = "rules"]
      BY <1>10, <2>2 DEF FindProperty
    <3>2. req'[r] = [h EXCEPT !.new.prop = i, !.pc = "rules"]
      BY <1>t, <3>1
    <3>3. req'[r].op = "add rule"
      BY <2>1, <3>2 DEF RuleAdders
    <3> QED
      BY <1>b, <3>3
  <2> QED
    BY <1>a, <2>2
<1>11. CASE CheckRules(r)
  <2>1. CASE ~Answered(r)
    <3>1. req'[r] = [h EXCEPT !.pc = IF h.op = "add rule" THEN "insert" ELSE "update"]
      BY <1>11, <1>t, <2>1 DEF CheckRules, Goto
    <3>2. h \in RuleAdders \cup RulePatchers
      BY <1>11, <1>t, HandlerPlaces DEF CheckRules
    <3>3. CASE h \in RuleAdders
      <4>1. req'[r].op = "add rule"
        BY <3>1, <3>3 DEF RuleAdders
      <4> QED
        BY <1>b, <4>1
    <3>4. CASE h \in RulePatchers
      <4>1. /\ req'[r].id = h.id /\ req'[r].to = h.to /\ req'[r].new = h.new
            /\ req'[r].crossed = h.crossed
        BY <3>1, <3>4 DEF RulePatchers
      <4>2. h.op = "patch rule"
        BY <3>4 DEF RulePatchers
      <4>3. h.pc = "rules" /\ rule' = rule
        BY <1>11 DEF CheckRules, tables
      <4> QED
        BY <4>1, <4>2, <4>3 DEF Kept, Rules
    <3> QED
      BY <3>2, <3>3, <3>4
  <2> QED
    BY <1>a, <2>1
<1>12. CASE InsertRule(r)
  <2>1. h \in RuleAdders
    BY <1>12, <1>t, HandlerKinds DEF InsertRule
  <2>2. CASE ~Answered(r)
    <3>1. PICK ids : req' = Cross(r, [h EXCEPT !.pc = "again"], FALSE, ids)
      BY <1>12, <2>2 DEF InsertRule
    <3>2. req'[r].op = "add rule"
      BY <2>1, <3>1 DEF Cross, RuleAdders
    <3> QED
      BY <1>b, <3>2
  <2> QED
    BY <1>a, <2>2
<1>13. CASE ReadRule(r)
  <2>1. h \in RulePatchers
    BY <1>13, <1>t, HandlerKinds DEF ReadRule
  <2>2. CASE h.id \in Rules
    <3> DEFINE new == Overlay(rule[h.id], h.to)
    <3>1. req' = [req EXCEPT ![r].new = new, ![r].pc = "rules"] /\ rule' = rule
      BY <1>13, <2>2 DEF ReadRule, tables
    <3>2. rule[h.id] \in Rule /\ h.to \in RuleChanges
      BY <2>1, <2>2 DEF Rules, TypeOK, RulePatchers
    <3>3. /\ new.priority \in {rule[h.id].priority, h.to.priority}
          /\ new.active \in {rule[h.id].active, h.to.active}
      BY <3>2, OverlayKeeps
    <3> HIDE DEF new
    <3>4. req'[r] = [h EXCEPT !.new = new, !.pc = "rules"]
      BY <1>t, <3>1
    <3>5. req'[r].id = h.id /\ req'[r].to = h.to /\ req'[r].new = new
      BY <2>1, <3>4 DEF RulePatchers
    <3> QED
      BY <3>1, <3>3, <3>5 DEF Kept
  <2> QED
    BY <1>13, <1>a, <2>2 DEF ReadRule
<1> QED
  BY <1>1, <1>2, <1>3, <1>4, <1>5, <1>6, <1>7, <1>8, <1>9, <1>10, <1>11, <1>12, <1>13 DEF Handle

LEMMA PatchesKeepStep ==
  ASSUME TypeOK, PatchesKeep, [Next]_vars
  PROVE  PatchesKeep'
<1>1. ASSUME NEW r \in Requests, Handle(r), NEW q \in Requests PROVE Kept(q)'
  <2>1. Kept(q)
    BY DEF PatchesKeep
  <2>2. CASE q = r
    BY <1>1, <2>1, <2>2, OwnKept
  <2>3. CASE q # r
    BY <1>1, <2>1, <2>3, OthersAreTold, KeptWhenTold
  <2> QED
    BY <2>2, <2>3
<1>2. CASE UNCHANGED vars
  BY <1>2 DEF PatchesKeep, Kept, Rules, vars, tables
<1> QED
  BY <1>1, <1>2 DEF Next, PatchesKeep

\* A handler that goes on stays with its operation, and with what it was sent.
LEMMA OwnOperation ==
  ASSUME TypeOK, NEW r \in Requests, Handle(r), req[r] # Free, req'[r] # Free
  PROVE  /\ req'[r].op = req[r].op /\ req'[r].crossed = req[r].crossed
         /\ req[r].op = "add" => req'[r].row = req[r].row
         /\ req[r].op = "patch" => req'[r].id = req[r].id /\ req'[r].to = req[r].to
         /\ req[r].op = "remove" => req'[r].id = req[r].id
         /\ req[r].op = "add rule" => req'[r].id = req[r].id
<1> DEFINE h == req[r]
           Same(g) == /\ g.op = h.op /\ g.crossed = h.crossed
                      /\ h.op = "add" => g.row = h.row
                      /\ h.op = "patch" => g.id = h.id /\ g.to = h.to
                      /\ h.op = "remove" => g.id = h.id
                      /\ h.op = "add rule" => g.id = h.id
<1>t. req \in [Requests -> Handlers] /\ h \in Handlers
  BY DEF TypeOK
<1>a. ~Answered(r)
  BY <1>t DEF Answered
<1>b. ASSUME NEW pc PROVE Same([h EXCEPT !.pc = pc])
  <2>1. CASE h \in Adders
    BY <2>1 DEF Adders
  <2>2. CASE h \in Patchers
    BY <2>2 DEF Patchers
  <2>3. CASE h \in Removers
    BY <2>3 DEF Removers
  <2>4. CASE h \in RuleAdders
    BY <2>4 DEF RuleAdders
  <2>5. CASE h \in RulePatchers
    BY <2>5 DEF RulePatchers
  <2> QED
    BY <1>t, <2>1, <2>2, <2>3, <2>4, <2>5 DEF Handlers
<1>c. ASSUME NEW pc, Goto(r, pc) PROVE Same(req'[r])
  <2>1. req'[r] = [h EXCEPT !.pc = pc]
    BY <1>c, <1>t DEF Goto
  <2> HIDE DEF Same
  <2> QED
    BY <1>b, <2>1
<1>d. ASSUME NEW about, NEW ids, req' = Cross(r, Free, about, ids) PROVE FALSE
  BY <1>d DEF Cross
<1> SUFFICES Same(req'[r])
  OBVIOUS
<1> HIDE DEF Same
<1>1. ~(\/ PostAttribute(r) \/ PatchAttribute(r) \/ RemoveAttribute(r) \/ RemoveScopes(r)
        \/ PostRule(r) \/ PatchRule(r) \/ DeleteRule(r))
  BY DEF PostAttribute, PatchAttribute, RemoveAttribute, RemoveScopes, PostRule, PatchRule,
         DeleteRule, Arrive, Arrives
<1>2. ~DeleteAttribute(r)
  BY <1>d DEF DeleteAttribute, Delete
<1>3. ~(InsertAttribute(r) \/ UpdateAttribute(r) \/ UpdateRule(r))
  <2>1. ASSUME InsertAttribute(r) \/ UpdateAttribute(r) \/ UpdateRule(r)
        PROVE  \/ Answered(r)
               \/ req' = Cross(r, Free, TRUE, {fresh})
               \/ req' = Cross(r, Free, TRUE, {h.id})
               \/ req' = Cross(r, Free, FALSE, {h.id})
    BY <2>1 DEF InsertAttribute, UpdateAttribute, UpdateRule
  <2> QED
    BY <2>1, <1>a, <1>d
<1>4. ~(RequestFails(r) \/ AnswerRule(r))
  BY <1>a DEF RequestFails, AnswerRule
<1>6. CASE ReadAttribute(r)
  <2>1. h \in Patchers
    BY <1>6, <1>t, HandlerKinds DEF ReadAttribute
  <2> DEFINE subs == IF h.to.subs = Keep THEN attr[h.id].subs ELSE h.to.subs
             app == IF ScopeOf[h.to.name] = "application_data" THEN attr[h.id].app ELSE NoApp
  <2>2. req' = [req EXCEPT ![r] = [h EXCEPT !.pc = "subs", !.todo = subs, !.app = app]]
    BY <1>6, <1>a DEF ReadAttribute
  <2> HIDE DEF subs, app
  <2>3. req'[r] = [h EXCEPT !.pc = "subs", !.todo = subs, !.app = app]
    BY <1>t, <2>2
  <2> QED
    BY <2>1, <2>3 DEF Patchers, Same
<1>7. CASE CheckSubAttribute(r)
  <2>1. h \in Adders \cup Patchers
    BY <1>7, <1>t, HandlerPlaces DEF CheckSubAttribute
  <2>2. CASE \E pc : Goto(r, pc)
    BY <1>c, <2>2
  <2>3. CASE ~\E pc : Goto(r, pc)
    <3>1. PICK todo : req'[r] = [h EXCEPT !.todo = todo]
      BY <1>7, <1>t, <1>a, <2>3 DEF CheckSubAttribute
    <3>2. CASE h \in Adders
      BY <3>1, <3>2 DEF Adders, Same
    <3>3. CASE h \in Patchers
      BY <3>1, <3>3 DEF Patchers, Same
    <3> QED
      BY <2>1, <3>2, <3>3
  <2> QED
    BY <2>2, <2>3
<1>8. CASE FindAttribute(r)
  <2>1. h \in Removers
    BY <1>8, <1>t, HandlerKinds DEF FindAttribute
  <2>2. PICK name, pc : req' = [req EXCEPT ![r].name = name, ![r].pc = pc]
    BY <1>8, <1>a DEF FindAttribute
  <2>3. req'[r] = [h EXCEPT !.name = name, !.pc = pc]
    BY <1>t, <2>2
  <2> QED
    BY <2>1, <2>3 DEF Removers, Same
<1>9. CASE CheckExists(r) \/ CheckParent(r) \/ CheckRules(r)
  BY <1>9, <1>a, <1>c DEF CheckExists, CheckParent, CheckRules
<1>10. CASE FindProperty(r)
  <2>1. h \in RuleAdders
    BY <1>10, <1>t, HandlerPlaces DEF FindProperty
  <2>2. PICK i : req' = [req EXCEPT ![r].new.prop = i, ![r].pc = "rules"]
    BY <1>10, <1>a DEF FindProperty
  <2>3. req'[r] = [h EXCEPT !.new.prop = i, !.pc = "rules"]
    BY <1>t, <2>2
  <2> QED
    BY <2>1, <2>3 DEF RuleAdders, Same
<1>11. CASE InsertRule(r)
  <2>1. req'[r] = [h EXCEPT !.pc = "again"]
    BY <1>11, <1>a DEF InsertRule, Cross
  <2> QED
    BY <1>b, <2>1
<1>12. CASE ReadRule(r)
  <2>1. h \in RulePatchers
    BY <1>12, <1>t, HandlerKinds DEF ReadRule
  <2>2. PICK new : req' = [req EXCEPT ![r].new = new, ![r].pc = "rules"]
    BY <1>12, <1>a DEF ReadRule
  <2>3. req'[r] = [h EXCEPT !.new = new, !.pc = "rules"]
    BY <1>t, <2>2
  <2> QED
    BY <2>1, <2>3 DEF RulePatchers, Same
<1> QED
  BY <1>1, <1>2, <1>3, <1>4, <1>6, <1>7, <1>8, <1>9, <1>10, <1>11, <1>12 DEF Handle

\* The id of a rule that is being added is its own, and no rule has it yet.
Adding(q) == req[q].op = "add rule" /\ req[q].pc # "again"

NewIds ==
  /\ \A k \in Rules : k < made
  /\ \A q \in Requests : Adding(q) => req[q].id < made /\ req[q].id \notin Rules
  /\ \A p, q \in Requests : Adding(p) /\ Adding(q) /\ req[p].id = req[q].id => p = q

LEMMA AddingBefore ==
  ASSUME TypeOK, NEW r \in Requests, Handle(r), ~PostRule(r), NEW q \in Requests, Adding(q)'
  PROVE  Adding(q) /\ req'[q].id = req[q].id /\ ~(q = r /\ InsertRule(r))
<1>t. req \in [Requests -> Handlers]
  BY DEF TypeOK
<1>f. Free.op = "none"
  BY DEF Free
<1>1. CASE q # r
  <2>1. Told(q)
    BY <1>1, OthersAreTold
  <2>2. CASE req'[q] = req[q]
    BY <1>1, <2>2 DEF Adding
  <2>3. CASE req'[q] # req[q]
    <3>1. PICK ids : req[q] # Free /\ req'[q] = [req[q] EXCEPT !.crossed = @ \cup ids]
      BY <2>1, <2>3 DEF Told
    <3>2. /\ req'[q].op = req[q].op /\ req'[q].pc = req[q].pc
          /\ req[q].op = "add rule" => req'[q].id = req[q].id
      BY <1>t, <3>1, TellingKeeps
    <3> QED
      BY <1>1, <3>2 DEF Adding
  <2> QED
    BY <2>2, <2>3
<1>2. CASE q = r
  <2>1. req'[r] # Free
    BY <1>2, <1>f DEF Adding
  <2>2. CASE req[r] = Free
    <3>0. Free.pc = "free"
      BY DEF Free
    <3>1. \/ PostAttribute(r) \/ PatchAttribute(r) \/ RemoveAttribute(r) \/ RemoveScopes(r)
          \/ PatchRule(r) \/ DeleteRule(r)
      BY <2>2, <1>f, <3>0 DEF Handle, ReadAttribute, CheckSubAttribute, CheckExists,
         InsertAttribute, UpdateAttribute, FindAttribute, CheckParent, DeleteAttribute,
         FindProperty, CheckRules, InsertRule, AnswerRule, ReadRule, UpdateRule, RequestFails
    <3>2. CASE RemoveScopes(r) \/ DeleteRule(r)
      BY <2>1, <3>2 DEF RemoveScopes, DeleteRule, Delete, Cross
    <3>3. CASE PostAttribute(r) \/ PatchAttribute(r) \/ RemoveAttribute(r)
      <4>1. req'[r].op \in {"add", "patch", "remove"}
        BY <3>3, <1>t DEF PostAttribute, PatchAttribute, RemoveAttribute, Arrive
      <4> QED
        BY <1>2, <4>1 DEF Adding
    <3>4. CASE PatchRule(r)
      <4>1. PICK k, to : req' = [req EXCEPT ![r] =
              [op |-> "patch rule", pc |-> "read", id |-> k, to |-> to, new |-> NoRule,
               crossed |-> {}]]
        BY <3>4 DEF PatchRule, Arrive
      <4>2. req'[r].op = "patch rule"
        BY <1>t, <4>1
      <4> QED
        BY <1>2, <4>2 DEF Adding
    <3> QED
      BY <3>1, <3>2, <3>3, <3>4
  <2>3. CASE req[r] # Free
    <3>1. req'[r].op = req[r].op /\ (req[r].op = "add rule" => req'[r].id = req[r].id)
      BY <2>1, <2>3, OwnOperation
    <3>2. req[r].pc # "again"
      <4>1. ASSUME req[r].pc = "again" PROVE AnswerRule(r) \/ RequestFails(r)
        <5>1. req[r] \in RuleAdders
          BY <4>1, <1>t, HandlerPlaces
        <5>2. req[r].op = "add rule"
          BY <5>1 DEF RuleAdders
        <5> QED
          BY <2>3, <4>1, <5>2 DEF Handle, PostAttribute, PatchAttribute, RemoveAttribute,
             RemoveScopes, PostRule, PatchRule, DeleteRule, Arrive, Arrives, ReadAttribute,
             CheckSubAttribute, CheckExists, InsertAttribute, UpdateAttribute, FindAttribute,
             CheckParent, DeleteAttribute, FindProperty, CheckRules, InsertRule, ReadRule,
             UpdateRule
      <4> QED
        BY <1>t, <2>1, <4>1 DEF AnswerRule, RequestFails, Answered
    <3>3. ~InsertRule(r)
      <4>1. ASSUME InsertRule(r) PROVE req'[r] = Free \/ req'[r].pc = "again"
        <5>1. CASE Answered(r)
          BY <5>1, <1>t DEF Answered
        <5>2. CASE ~Answered(r)
          <6>1. req'[r] = [req[r] EXCEPT !.pc = "again"]
            BY <4>1, <5>2 DEF InsertRule, Cross
          <6>2. req[r] \in RuleAdders
            BY <4>1, <1>t, HandlerKinds DEF InsertRule
          <6> QED
            BY <6>1, <6>2 DEF RuleAdders
        <5> QED
          BY <5>1, <5>2
      <4> QED
        BY <1>2, <2>1, <4>1 DEF Adding
    <3> QED
      BY <1>2, <3>1, <3>2, <3>3 DEF Adding
  <2> QED
    BY <2>2, <2>3
<1> QED
  BY <1>1, <1>2

\* Rules come by the INSERT only, and no other statement than the UPDATE changes one.
LEMMA RulesBefore ==
  ASSUME TypeOK, NEW r \in Requests, Handle(r), NEW k \in Rules'
  PROVE  \/ k \in Rules /\ rule'[k] = rule[k]
         \/ InsertRule(r) /\ k = req[r].id
         \/ UpdateRule(r) /\ k = req[r].id /\ k \in Rules
            /\ rule'[k].priority = req[r].new.priority /\ rule'[k].active = req[r].new.active
<1>1. CASE rule' = rule
  BY <1>1 DEF Rules
<1>2. CASE RemoveScopes(r) \/ DeleteAttribute(r)
  BY <1>2 DEF RemoveScopes, DeleteAttribute, Delete, Rules, TypeOK
<1>3. CASE DeleteRule(r)
  <2>1. \E j : rule' = [rule EXCEPT ![j] = NoRule]
    BY <1>3 DEF DeleteRule
  <2> QED
    BY <2>1 DEF Rules, TypeOK
<1>4. CASE InsertRule(r)
  BY <1>4 DEF InsertRule, Rules, TypeOK
<1>5. CASE UpdateRule(r)
  <2> DEFINE m == req[r].id
             row == [rule[m] EXCEPT !.priority = req[r].new.priority,
                                    !.active = req[r].new.active]
  <2>1. CASE m \in Rules
    <3>1. rule' = [rule EXCEPT ![m] = row]
      BY <1>5, <2>1 DEF UpdateRule
    <3>2. row.priority = req[r].new.priority /\ row.active = req[r].new.active
      BY <2>1 DEF Rules, TypeOK, Rule
    <3> HIDE DEF row
    <3> QED
      BY <1>5, <2>1, <3>1, <3>2 DEF Rules, TypeOK
  <2>2. CASE m \notin Rules
    BY <1>1, <1>5, <2>2 DEF UpdateRule
  <2> QED
    BY <2>1, <2>2
<1>6. CASE PostAttribute(r) \/ PatchAttribute(r) \/ RemoveAttribute(r) \/ PatchRule(r)
  BY <1>1, <1>6 DEF PostAttribute, PatchAttribute, RemoveAttribute, PatchRule, Arrive, tables
<1>7. CASE PostRule(r) \/ InsertAttribute(r) \/ UpdateAttribute(r)
  BY <1>1, <1>7 DEF PostRule, InsertAttribute, UpdateAttribute
<1>8. CASE \/ ReadAttribute(r) \/ CheckSubAttribute(r) \/ CheckExists(r)
           \/ FindAttribute(r) \/ CheckParent(r) \/ FindProperty(r) \/ CheckRules(r)
           \/ AnswerRule(r) \/ ReadRule(r) \/ RequestFails(r)
  BY <1>1, <1>8 DEF ReadAttribute, CheckSubAttribute, CheckExists, FindAttribute,
     CheckParent, FindProperty, CheckRules, AnswerRule, ReadRule, RequestFails, tables
<1> QED
  BY <1>2, <1>3, <1>4, <1>5, <1>6, <1>7, <1>8 DEF Handle

LEMMA MadeGrows ==
  ASSUME NEW r \in Requests, Handle(r), ~PostRule(r)
  PROVE  made' = made
<1>1. CASE \/ PostAttribute(r) \/ PatchAttribute(r) \/ RemoveAttribute(r) \/ RemoveScopes(r)
           \/ PatchRule(r) \/ DeleteRule(r)
  BY <1>1 DEF PostAttribute, PatchAttribute, RemoveAttribute, RemoveScopes, PatchRule,
     DeleteRule, Arrive, Delete, tables
<1>2. CASE \/ InsertAttribute(r) \/ UpdateAttribute(r) \/ DeleteAttribute(r)
           \/ InsertRule(r) \/ UpdateRule(r)
  BY <1>2 DEF InsertAttribute, UpdateAttribute, DeleteAttribute, Delete, InsertRule, UpdateRule
<1>3. CASE \/ ReadAttribute(r) \/ CheckSubAttribute(r) \/ CheckExists(r)
           \/ FindAttribute(r) \/ CheckParent(r) \/ FindProperty(r) \/ CheckRules(r)
           \/ AnswerRule(r) \/ ReadRule(r) \/ RequestFails(r)
  BY <1>3 DEF ReadAttribute, CheckSubAttribute, CheckExists, FindAttribute,
     CheckParent, FindProperty, CheckRules, AnswerRule, ReadRule, RequestFails, tables
<1> QED
  BY <1>1, <1>2, <1>3 DEF Handle

LEMMA NewIdsStep ==
  ASSUME TypeOK, NewIds, [Next]_vars
  PROVE  NewIds'
<1>1. CASE UNCHANGED vars
  BY <1>1 DEF NewIds, Adding, Rules, vars, tables
<1>2. ASSUME NEW r \in Requests, PostRule(r) PROVE NewIds'
  <2>1. PICK new : req' = [req EXCEPT ![r] =
          [op |-> "add rule", pc |-> "property", id |-> made, crossed |-> {}, new |-> new]]
    BY <1>2 DEF PostRule
  <2>2. /\ \A q \in Requests \ {r} : req'[q] = req[q]
        /\ req'[r].id = made
    BY <2>1 DEF TypeOK
  <2>3. made' = made + 1 /\ rule' = rule /\ made \in Nat
    <3>1. made' = made + 1 /\ rule' = rule
      BY <1>2 DEF PostRule
    <3>2. made \in Nat
      BY DEF TypeOK
    <3> QED
      BY <3>1, <3>2
  <2>4. \A k \in Rules : k < made /\ k \in Nat
    BY DEF NewIds, Rules
  <2>5. \A k \in Rules : k < made'
    BY <2>3, <2>4
  <2>6. \A q \in Requests \ {r} : Adding(q)' => Adding(q) /\ req'[q].id = req[q].id
    BY <2>2 DEF Adding
  <2>7. \A q \in Requests : Adding(q) => req[q].id < made /\ req[q].id \in Nat
    <3>1. ASSUME NEW q \in Requests, Adding(q) PROVE req[q].id \in 1..RuleIds
      <4>1. req[q] \in Handlers
        BY DEF TypeOK
      <4> QED
        BY <3>1, <4>1, HandlerKinds DEF Adding, RuleAdders
    <3> QED
      BY <3>1 DEF NewIds
  <2>8. \A q \in Requests : Adding(q)' => req'[q].id < made' /\ req'[q].id \notin Rules
    <3> SUFFICES ASSUME NEW q \in Requests, Adding(q)'
                 PROVE  req'[q].id < made' /\ req'[q].id \notin Rules
      OBVIOUS
    <3>1. CASE q = r
      BY <2>2, <2>3, <2>4, <3>1
    <3>2. CASE q # r
      BY <2>3, <2>6, <2>7, <3>2 DEF NewIds
    <3> QED
      BY <3>1, <3>2
  <2>9. \A p, q \in Requests : Adding(p)' /\ Adding(q)' /\ req'[p].id = req'[q].id => p = q
    <3> SUFFICES ASSUME NEW p \in Requests, NEW q \in Requests, p # q, Adding(p)', Adding(q)'
                 PROVE  req'[p].id # req'[q].id
      OBVIOUS
    <3>1. CASE p = r
      BY <2>2, <2>3, <2>6, <2>7, <3>1
    <3>2. CASE q = r
      BY <2>2, <2>3, <2>6, <2>7, <3>2
    <3>3. CASE p # r /\ q # r
      BY <2>6, <3>3 DEF NewIds
    <3> QED
      BY <3>1, <3>2, <3>3
  <2> QED
    BY <2>3, <2>5, <2>8, <2>9 DEF NewIds, Rules
<1>3. ASSUME NEW r \in Requests, Handle(r), ~PostRule(r) PROVE NewIds'
  <2>1. made' = made
    BY <1>3, MadeGrows
  <2>2. \A q \in Requests : Adding(q)' =>
          Adding(q) /\ req'[q].id = req[q].id /\ ~(q = r /\ InsertRule(r))
    BY <1>3, AddingBefore
  <2>3. InsertRule(r) => Adding(r)
    BY DEF InsertRule, Adding
  <2>4. \A k \in Rules' : k \in Rules \/ (Adding(r) /\ InsertRule(r) /\ k = req[r].id)
    BY <1>3, <2>3, RulesBefore
  <2>5. \A k \in Rules' : k < made'
    BY <2>1, <2>4 DEF NewIds
  <2>6. \A q \in Requests : Adding(q)' => req'[q].id < made' /\ req'[q].id \notin Rules'
    <3> SUFFICES ASSUME NEW q \in Requests, Adding(q)'
                 PROVE  req'[q].id < made' /\ req'[q].id \notin Rules'
      OBVIOUS
    <3>1. Adding(q) /\ req'[q].id = req[q].id /\ ~(q = r /\ InsertRule(r))
      BY <2>2
    <3>2. req[q].id < made /\ req[q].id \notin Rules
      BY <3>1 DEF NewIds
    <3>3. Adding(r) /\ InsertRule(r) => req[q].id # req[r].id
      BY <3>1 DEF NewIds
    <3> QED
      BY <2>1, <2>4, <3>1, <3>2, <3>3
  <2>7. \A p, q \in Requests : Adding(p)' /\ Adding(q)' /\ req'[p].id = req'[q].id => p = q
    BY <2>2 DEF NewIds
  <2> QED
    BY <2>5, <2>6, <2>7 DEF NewIds
<1> QED
  BY <1>1, <1>2, <1>3 DEF Next

PatchInv == PatchesKeep /\ NewIds

LEMMA PatchInit == Init => PatchInv
<1> SUFFICES ASSUME Init PROVE PatchInv
  OBVIOUS
<1>1. \A q \in Requests : req[q].op = "none"
  BY DEF Init, Free
<1>2. PICK n \in 0..RuleIds : FirstRules \in [1..n -> Rule]
  BY SchemaRulesAssumption DEF SchemaRulesAssumption
<1>3. DOMAIN FirstRules = 1..n /\ n \in Nat
  BY <1>2, SchemaRulesAssumption DEF SchemaRulesAssumption
<1>4. Cardinality(1..n) = n
  BY <1>3, FS_Interval
<1>5. made = n + 1
  BY <1>3, <1>4 DEF Init
<1>6. \A k \in Rules : k \in 1..n
  BY <1>3 DEF Init, Rules
<1>7. \A k \in Rules : k < made
  BY <1>3, <1>5, <1>6
<1> QED
  BY <1>1, <1>7 DEF PatchInv, PatchesKeep, Kept, NewIds, Adding

LEMMA PatchInvAlways == Spec => []PatchInv
<1>1. TypeOK /\ PatchInv /\ [Next]_vars => PatchInv'
  BY PatchesKeepStep, NewIdsStep DEF PatchInv
<1> QED
  BY <1>1, PatchInit, TypeCorrect, PTL DEF Spec

\* A rule changes by the UPDATE of a PATCH, which has what it carries and what the rule was.
LEMMA ChangedByPatch ==
  ASSUME TypeOK, PatchInv, [Next]_vars, NEW k \in 1..RuleIds, k \in Rules, k \in Rules',
         NEW f \in {"priority", "active"}, rule'[k][f] # rule[k][f]
  PROVE  \E r \in Requests :
           /\ req[r].op = "patch rule" /\ req[r].pc = "update" /\ req[r].id = k
           /\ req[r].to[f] = rule'[k][f] \/ k \in req[r].crossed
<1>1. ~UNCHANGED vars
  BY DEF vars, tables
<1>2. PICK r \in Requests : Handle(r)
  BY <1>1 DEF Next
<1>3. ~(InsertRule(r) /\ k = req[r].id)
  BY DEF PatchInv, NewIds, Adding, InsertRule
<1>4. /\ UpdateRule(r) /\ k = req[r].id
      /\ rule'[k].priority = req[r].new.priority /\ rule'[k].active = req[r].new.active
  BY <1>2, <1>3, RulesBefore
<1>5. req[r].op = "patch rule" /\ req[r].pc = "update"
  BY <1>4 DEF UpdateRule
<1>6. CASE k \in req[r].crossed
  BY <1>4, <1>5, <1>6
<1>7. CASE k \notin req[r].crossed
  <2>1. /\ req[r].new.priority \in {rule[k].priority, req[r].to.priority}
        /\ req[r].new.active \in {rule[k].active, req[r].to.active}
    BY <1>4, <1>5, <1>7 DEF PatchInv, PatchesKeep, Kept
  <2>2. CASE f = "priority"
    BY <1>4, <1>5, <2>1, <2>2
  <2>3. CASE f = "active"
    BY <1>4, <1>5, <2>1, <2>3
  <2> QED
    BY <2>2, <2>3
<1> QED
  BY <1>6, <1>7

\* A PATCH of a rule writes every column back as it read it, and yet the priority and the
\* switch of a rule change only as a PATCH says, unless the rule was written while the PATCH
\* was under way.
THEOREM PatchSafety == Spec => PatchKeepsTheRest
<1>1. TypeOK /\ PatchInv /\ [Next]_vars =>
      [\A k \in 1..RuleIds :
         k \in Rules /\ k \in Rules' =>
           \A f \in {"priority", "active"} :
             rule'[k][f] # rule[k][f] =>
               \E r \in Requests :
                 /\ req[r].op = "patch rule" /\ req[r].pc = "update" /\ req[r].id = k
                 /\ req[r].to[f] = rule'[k][f] \/ k \in req[r].crossed]_vars
  BY ChangedByPatch
<1> QED
  BY <1>1, TypeCorrect, PatchInvAlways, PTL DEF Spec, PatchKeepsTheRest

-----------------------------------------------------------------------------
(* A parent loses a sub-attribute only through requests that overlapped.   *)

\* A sub-attribute that was looked at is there, or was written since.
Seen(q, s) == s \in req[q].todo \/ s \in req[q].crossed \/ s \in Live

SubsSeen(q) ==
  /\ req[q].op = "add" =>
       /\ \A s \in req[q].row.subs : Seen(q, s)
       /\ req[q].pc \in {"exists", "insert"} => req[q].todo = {}
  /\ req[q].op = "patch" =>
       /\ req[q].pc \in {"subs", "update"} /\ req[q].to.subs # Keep =>
            \A s \in req[q].to.subs : Seen(q, s)
       /\ req[q].pc = "update" => req[q].todo = {}

\* No attribute, or not every one, of that name has i as its sub-attribute.
NotNamed(name, i) ==
  name \in DOMAIN Parent =>
    Named(Parent[name]) = {} \/ \E j \in Named(Parent[name]) : i \notin attr[j].subs

\* While nothing was written since it arrived, a deletion knows the attribute's name and its
\* parent.
ParentSeen(q) ==
  req[q].op = "remove" /\ req[q].pc \in {"parent", "delete"} /\ req[q].crossed = {} =>
    /\ req[q].id \in Live /\ req[q].name = attr[req[q].id].name
    /\ req[q].pc = "delete" => NotNamed(req[q].name, req[q].id)

FamilySeen == \A q \in Requests : SubsSeen(q) /\ ParentSeen(q)

LEMMA FamilySeenWhenTold ==
  ASSUME TypeOK, NEW q \in Requests, SubsSeen(q), ParentSeen(q), Told(q)
  PROVE  SubsSeen(q)' /\ ParentSeen(q)'
<1>0. req[q] \in Handlers
  BY DEF TypeOK
<1>1. CASE req[q].op \notin OfAttributes
  <2>1. req'[q].op = req[q].op
    <3>1. CASE req'[q] = req[q]
      BY <3>1
    <3>2. CASE req'[q] # req[q]
      <4>1. PICK ids : req[q] # Free /\ req'[q] = [req[q] EXCEPT !.crossed = @ \cup ids]
        BY <3>2 DEF Told
      <4> QED
        BY <1>0, <4>1, TellingKeeps
    <3> QED
      BY <3>1, <3>2
  <2> QED
    BY <1>1, <2>1 DEF SubsSeen, ParentSeen, OfAttributes
<1>2. CASE req[q].op \in OfAttributes /\ req'[q] = req[q] /\ attr' = attr
  <2>1. Live' = Live /\ \A name : Named(name)' = Named(name)
    BY <1>2 DEF Live, Named
  <2> QED
    BY <1>2, <2>1 DEF SubsSeen, Seen, ParentSeen, NotNamed
<1>3. CASE req[q].op \in OfAttributes /\ ~(req'[q] = req[q] /\ attr' = attr)
  <2>1. PICK ids :
          /\ req[q] # Free /\ req'[q] = [req[q] EXCEPT !.crossed = @ \cup ids]
          /\ \A i \in Ids : i \in ids \/ attr'[i] = attr[i]
    BY <1>3 DEF Told
  <2>2. /\ req'[q].op = req[q].op /\ req'[q].pc = req[q].pc
        /\ req'[q].crossed = req[q].crossed \cup ids
        /\ req[q].op = "add" => req'[q].row = req[q].row /\ req'[q].todo = req[q].todo
        /\ req[q].op = "patch" => /\ req'[q].id = req[q].id /\ req'[q].to = req[q].to
                                  /\ req'[q].todo = req[q].todo
        /\ req[q].op = "remove" => req'[q].id = req[q].id /\ req'[q].name = req[q].name
    BY <1>0, <2>1, TellingKeeps
  <2>3. \A i \in Live : i \in ids \/ i \in Live'
    BY <2>1 DEF Live
  <2>4. SubsSeen(q)'
    BY <2>2, <2>3 DEF SubsSeen, Seen
  <2>5. ParentSeen(q)'
    <3> SUFFICES ASSUME req[q].op = "remove", req[q].pc \in {"parent", "delete"},
                        req[q].crossed = {}, ids = {}
                 PROVE  ParentSeen(q)'
      BY <2>2 DEF ParentSeen
    <3>1. \A i \in Ids : attr'[i] = attr[i]
      BY <2>1
    <3>2. Live' = Live /\ \A name : Named(name)' = Named(name)
      BY <3>1 DEF Live, Named
    <3>3. \A name : Named(name) \subseteq Ids
      BY DEF Named, Live
    <3> QED
      BY <2>2, <3>1, <3>2, <3>3 DEF ParentSeen, NotNamed, Live
  <2> QED
    BY <2>4, <2>5
<1> QED
  BY <1>1, <1>2, <1>3

LEMMA OwnFamilySeen ==
  ASSUME TypeOK, NEW r \in Requests, Handle(r), SubsSeen(r), ParentSeen(r)
  PROVE  SubsSeen(r)' /\ ParentSeen(r)'
<1> DEFINE h == req[r]
           Good == SubsSeen(r)' /\ ParentSeen(r)'
<1> SUFFICES Good
  OBVIOUS
<1> HIDE DEF Good
<1>t. req \in [Requests -> Handlers] /\ h \in Handlers
  BY DEF TypeOK
<1>f. Free.op = "none"
  BY DEF Free
<1>b. ASSUME req'[r].op \notin OfAttributes PROVE Good
  BY <1>b DEF SubsSeen, ParentSeen, OfAttributes, Good
<1>a. ASSUME req'[r] = Free PROVE Good
  BY <1>a, <1>b, <1>f DEF OfAttributes
<1>1. CASE h = Free /\ req'[r] # Free
  <2>0. Free.pc = "free"
    BY DEF Free
  <2>1. \/ PostAttribute(r) \/ PatchAttribute(r) \/ RemoveAttribute(r) \/ RemoveScopes(r)
        \/ PostRule(r) \/ PatchRule(r) \/ DeleteRule(r)
    BY <1>1, <1>f, <2>0 DEF Handle, ReadAttribute, CheckSubAttribute, CheckExists,
       InsertAttribute, UpdateAttribute, FindAttribute, CheckParent, DeleteAttribute,
       FindProperty, CheckRules, InsertRule, AnswerRule, ReadRule, UpdateRule, RequestFails
  <2>2. CASE RemoveScopes(r) \/ DeleteRule(r)
    BY <1>1, <2>2 DEF RemoveScopes, DeleteRule, Delete, Cross
  <2>3. CASE PostAttribute(r)
    <3>1. PICK row \in Added :
            Arrive(r, [op |-> "add", pc |-> "subs", row |-> row, todo |-> row.subs,
                       crossed |-> {}])
      BY <2>3 DEF PostAttribute
    <3>2. req'[r] = [op |-> "add", pc |-> "subs", row |-> row, todo |-> row.subs,
                     crossed |-> {}]
      BY <1>t, <3>1 DEF Arrive
    <3> QED
      BY <3>2 DEF SubsSeen, Seen, ParentSeen, Good
  <2>4. CASE PatchAttribute(r)
    <3>1. PICK i, to : Arrive(r, [op |-> "patch", pc |-> "read", id |-> i, to |-> to,
                                  app |-> NoApp, todo |-> {}, crossed |-> {}])
      BY <2>4 DEF PatchAttribute
    <3>2. req'[r].op = "patch" /\ req'[r].pc = "read"
      BY <1>t, <3>1 DEF Arrive
    <3> QED
      BY <3>2 DEF SubsSeen, ParentSeen, Good
  <2>5. CASE RemoveAttribute(r)
    <3>1. PICK i : Arrive(r, [op |-> "remove", pc |-> "read", id |-> i, name |-> "none",
                              crossed |-> {}])
      BY <2>5 DEF RemoveAttribute
    <3>2. req'[r].op = "remove" /\ req'[r].pc = "read"
      BY <1>t, <3>1 DEF Arrive
    <3> QED
      BY <3>2 DEF SubsSeen, ParentSeen, Good
  <2>6. CASE PostRule(r)
    <3>1. PICK new : req' = [req EXCEPT ![r] =
            [op |-> "add rule", pc |-> "property", id |-> made, crossed |-> {}, new |-> new]]
      BY <2>6 DEF PostRule
    <3>2. req'[r].op = "add rule"
      BY <1>t, <3>1
    <3> QED
      BY <1>b, <3>2 DEF OfAttributes
  <2>7. CASE PatchRule(r)
    <3>1. PICK k, to : req' = [req EXCEPT ![r] =
            [op |-> "patch rule", pc |-> "read", id |-> k, to |-> to, new |-> NoRule,
             crossed |-> {}]]
      BY <2>7 DEF PatchRule, Arrive
    <3>2. req'[r].op = "patch rule"
      BY <1>t, <3>1
    <3> QED
      BY <1>b, <3>2 DEF OfAttributes
  <2> QED
    BY <2>1, <2>2, <2>3, <2>4, <2>5, <2>6, <2>7
<1>2. CASE h # Free /\ req'[r] # Free /\ h.op \notin OfAttributes
  BY <1>2, <1>b, OwnOperation
<1>3. CASE h # Free /\ req'[r] # Free /\ h.op \in OfAttributes
  <2>a. ~Answered(r)
    BY <1>t, <1>3 DEF Answered
  <2>k. h \in Adders \cup Patchers \cup Removers
    BY <1>t, <1>3, HandlerKinds DEF OfAttributes
  <2>1. \/ ReadAttribute(r) \/ CheckSubAttribute(r) \/ CheckExists(r)
        \/ FindAttribute(r) \/ CheckParent(r)
    <3>0. h.pc \notin {"property", "rules", "again"}
      BY <2>k DEF Adders, Patchers, Removers
    <3>1. ~(\/ PostAttribute(r) \/ PatchAttribute(r) \/ RemoveAttribute(r) \/ RemoveScopes(r)
            \/ PostRule(r) \/ PatchRule(r) \/ DeleteRule(r))
      BY <1>3 DEF PostAttribute, PatchAttribute, RemoveAttribute, RemoveScopes, PostRule,
         PatchRule, DeleteRule, Arrive, Arrives
    <3>2. ~(FindProperty(r) \/ CheckRules(r) \/ InsertRule(r) \/ AnswerRule(r) \/ ReadRule(r)
            \/ UpdateRule(r))
      BY <1>3, <3>0 DEF FindProperty, CheckRules, InsertRule, AnswerRule, ReadRule,
         UpdateRule, OfAttributes
    <3>3. ASSUME NEW ids, req' = Cross(r, Free, TRUE, ids) PROVE FALSE
      BY <1>3, <3>3 DEF Cross
    <3>4. ~(InsertAttribute(r) \/ UpdateAttribute(r) \/ DeleteAttribute(r) \/ RequestFails(r))
      BY <2>a, <3>3 DEF InsertAttribute, UpdateAttribute, DeleteAttribute, Delete, RequestFails
    <3> QED
      BY <3>1, <3>2, <3>4 DEF Handle
  <2>2. attr' = attr
    BY <2>1 DEF ReadAttribute, CheckSubAttribute, CheckExists, FindAttribute, CheckParent, tables
  <2>3. Live' = Live /\ \A name : Named(name)' = Named(name)
    BY <2>2 DEF Live, Named
  <2>4. CASE ReadAttribute(r)
    <3>1. h \in Patchers
      BY <2>4, <1>t, HandlerKinds DEF ReadAttribute
    <3> DEFINE subs == IF h.to.subs = Keep THEN attr[h.id].subs ELSE h.to.subs
               app == IF ScopeOf[h.to.name] = "application_data" THEN attr[h.id].app ELSE NoApp
    <3>2. req' = [req EXCEPT ![r] = [h EXCEPT !.pc = "subs", !.todo = subs, !.app = app]]
      BY <2>4, <2>a DEF ReadAttribute
    <3>3. h.to.subs # Keep => subs = h.to.subs
      OBVIOUS
    <3> HIDE DEF subs, app
    <3>4. req'[r] = [h EXCEPT !.pc = "subs", !.todo = subs, !.app = app]
      BY <1>t, <3>2
    <3>5. /\ req'[r].op = "patch" /\ req'[r].pc = "subs" /\ req'[r].todo = subs
          /\ req'[r].to = h.to
      BY <3>1, <3>4 DEF Patchers
    <3> QED
      BY <3>3, <3>5 DEF SubsSeen, Seen, ParentSeen, Good
  <2>5. CASE CheckSubAttribute(r)
    <3>1. h \in Adders \cup Patchers /\ h.pc = "subs"
      BY <2>5, <1>t, HandlerPlaces DEF CheckSubAttribute
    <3>2. CASE h.todo = {}
      <4>1. req'[r] = [h EXCEPT !.pc = IF h.op = "add" THEN "exists" ELSE "update"]
        BY <2>5, <1>t, <3>2 DEF CheckSubAttribute, Goto
      <4>2. CASE h \in Adders
        <5>1. /\ req'[r].op = "add" /\ h.op = "add" /\ req'[r].todo = h.todo
              /\ req'[r].row = h.row /\ req'[r].crossed = h.crossed
          BY <4>1, <4>2 DEF Adders
        <5> QED
          BY <2>3, <3>2, <5>1 DEF SubsSeen, Seen, ParentSeen, Good
      <4>3. CASE h \in Patchers
        <5>1. /\ req'[r].op = "patch" /\ h.op = "patch" /\ req'[r].todo = h.todo
              /\ req'[r].to = h.to /\ req'[r].crossed = h.crossed
          BY <4>1, <4>3 DEF Patchers
        <5> QED
          BY <2>3, <3>1, <3>2, <5>1 DEF SubsSeen, Seen, ParentSeen, Good
      <4> QED
        BY <3>1, <4>2, <4>3
    <3>3. CASE h.todo # {}
      <4> DEFINE s == CHOOSE i \in h.todo : TRUE
                 name == IF h.op = "add" THEN h.row.name ELSE h.to.name
                 app == IF h.op = "add" THEN h.row.app ELSE h.app
      <4>1. SubAttributeOk(s, name, app) /\ req' = [req EXCEPT ![r].todo = @ \ {s}]
        BY <2>5, <2>a, <3>3 DEF CheckSubAttribute
      <4>2. s \in Ids
        <5>1. h.todo \subseteq Ids
          BY <3>1 DEF Adders, Patchers
        <5> QED
          BY <3>3, <5>1
      <4> HIDE DEF s, name, app
      <4>3. s \in Live
        BY <4>1, <4>2 DEF SubAttributeOk, Live
      <4>4. req'[r] = [h EXCEPT !.todo = @ \ {s}]
        BY <4>1, <1>t
      <4>5. CASE h \in Adders
        <5>1. /\ req'[r].op = "add" /\ h.op = "add" /\ req'[r].todo = h.todo \ {s}
              /\ req'[r].row = h.row /\ req'[r].crossed = h.crossed /\ req'[r].pc = "subs"
          BY <3>1, <4>4, <4>5 DEF Adders
        <5> QED
          BY <2>3, <4>3, <5>1 DEF SubsSeen, Seen, ParentSeen, Good
      <4>6. CASE h \in Patchers
        <5>1. /\ req'[r].op = "patch" /\ h.op = "patch" /\ req'[r].todo = h.todo \ {s}
              /\ req'[r].to = h.to /\ req'[r].crossed = h.crossed /\ req'[r].pc = "subs"
          BY <3>1, <4>4, <4>6 DEF Patchers
        <5> QED
          BY <2>3, <3>1, <4>3, <5>1 DEF SubsSeen, Seen, ParentSeen, Good
      <4> QED
        BY <3>1, <4>5, <4>6
    <3> QED
      BY <3>2, <3>3
  <2>6. CASE CheckExists(r)
    <3>1. h \in Adders /\ h.pc = "exists"
      BY <2>6, <1>t, HandlerPlaces DEF CheckExists
    <3>2. Goto(r, "insert")
      BY <2>6, <2>a DEF CheckExists
    <3>3. req'[r] = [h EXCEPT !.pc = "insert"]
      BY <3>2, <1>t DEF Goto
    <3>4. /\ req'[r].op = "add" /\ h.op = "add" /\ req'[r].todo = h.todo
          /\ req'[r].row = h.row /\ req'[r].crossed = h.crossed
      BY <3>1, <3>3 DEF Adders
    <3> QED
      BY <2>3, <3>1, <3>4 DEF SubsSeen, Seen, ParentSeen, Good
  <2>7. CASE FindAttribute(r)
    <3>1. h \in Removers /\ h.id \in Ids
      BY <2>7, <1>t, HandlerKinds DEF FindAttribute, Removers
    <3> DEFINE name == attr[h.id].name
               pc == IF name \in DOMAIN Parent THEN "parent" ELSE "delete"
    <3>2. attr[h.id] # NoRow /\ req' = [req EXCEPT ![r].name = name, ![r].pc = pc]
      BY <2>7, <2>a DEF FindAttribute
    <3>3. pc = "delete" => name \notin DOMAIN Parent
      OBVIOUS
    <3> HIDE DEF name, pc
    <3>4. req'[r] = [h EXCEPT !.name = name, !.pc = pc]
      BY <1>t, <3>2
    <3>5. /\ req'[r].op = "remove" /\ req'[r].id = h.id /\ req'[r].name = name
          /\ req'[r].pc = pc
      BY <3>1, <3>4 DEF Removers
    <3>6. h.id \in Live /\ name = attr[h.id].name
      BY <3>1, <3>2 DEF Live, name
    <3> QED
      BY <2>2, <2>3, <3>3, <3>5, <3>6 DEF SubsSeen, ParentSeen, NotNamed, Good
  <2>8. CASE CheckParent(r)
    <3>1. h \in Removers /\ h.pc = "parent"
      BY <2>8, <1>t, HandlerPlaces DEF CheckParent
    <3>2. Goto(r, "delete") /\ NotNamed(h.name, h.id)
      BY <2>8, <2>a DEF CheckParent, NotNamed
    <3>3. req'[r] = [h EXCEPT !.pc = "delete"]
      BY <3>2, <1>t DEF Goto
    <3>4. /\ req'[r].op = "remove" /\ h.op = "remove" /\ req'[r].id = h.id
          /\ req'[r].name = h.name /\ req'[r].crossed = h.crossed
      BY <3>1, <3>3 DEF Removers
    <3> QED
      BY <2>2, <2>3, <3>1, <3>2, <3>4 DEF SubsSeen, ParentSeen, NotNamed, Good
  <2> QED
    BY <2>1, <2>4, <2>5, <2>6, <2>7, <2>8
<1> QED
  BY <1>a, <1>1, <1>2, <1>3

LEMMA FamilySeenStep ==
  ASSUME TypeOK, FamilySeen, [Next]_vars
  PROVE  FamilySeen'
<1>1. ASSUME NEW r \in Requests, Handle(r), NEW q \in Requests
      PROVE  SubsSeen(q)' /\ ParentSeen(q)'
  <2>1. SubsSeen(q) /\ ParentSeen(q)
    BY DEF FamilySeen
  <2>2. CASE q = r
    BY <1>1, <2>1, <2>2, OwnFamilySeen
  <2>3. CASE q # r
    BY <1>1, <2>1, <2>3, OthersAreTold, FamilySeenWhenTold
  <2> QED
    BY <2>2, <2>3
<1>2. CASE UNCHANGED vars
  BY <1>2 DEF FamilySeen, SubsSeen, Seen, ParentSeen, NotNamed, Named, Live, vars, tables
<1> QED
  BY <1>1, <1>2 DEF Next, FamilySeen

LEMMA FamilySeenAlways == Spec => []FamilySeen
<1>1. Init => FamilySeen
  <2> SUFFICES ASSUME Init PROVE FamilySeen
    OBVIOUS
  <2>1. \A q \in Requests : req[q].op = "none"
    BY DEF Init, Free
  <2> QED
    BY <2>1 DEF FamilySeen, SubsSeen, ParentSeen
<1>2. TypeOK /\ FamilySeen /\ [Next]_vars => FamilySeen'
  BY FamilySeenStep
<1> QED
  BY <1>1, <1>2, TypeCorrect, PTL DEF Spec

\* A deletion that was told of nothing does not take a sub-attribute from a parent in its
\* place: the parent is the only attribute of its name, and was asked.
LEMMA DeletionSawParent ==
  ASSUME TypeOK, FamilySeen, NEW r \in Requests, DeleteAttribute(r),
         NEW i \in Live, i # req[r].id, req[r].id \in Live, req[r].id \in attr[i].subs,
         InPlace(i, req[r].id)
  PROVE  req[r].crossed # {}
<1> DEFINE s == req[r].id
<1> SUFFICES ASSUME req[r].crossed = {} PROVE FALSE
  OBVIOUS
<1>1. req[r].op = "remove" /\ req[r].pc = "delete"
  BY DEF DeleteAttribute
<1>2. req[r].name = attr[s].name /\ NotNamed(req[r].name, s)
  BY <1>1 DEF FamilySeen, ParentSeen
<1>3. attr[s].name \in DOMAIN Parent /\ Parent[attr[s].name] = attr[i].name
  BY DEF InPlace, Children
<1>4. Named(attr[i].name) = {i}
  BY DEF InPlace
<1> QED
  BY <1>2, <1>3, <1>4 DEF NotNamed

LEMMA DanglesByOverlap ==
  ASSUME TypeOK, FamilySeen, [Next]_vars, NEW i \in Ids, NEW s \in Ids,
         Dangles(i, s)', ~Dangles(i, s)
  PROVE  \/ i \in Live /\ s \in Live /\ ~InPlace(i, s)
         \/ \E r \in Requests :
              /\ req[r].pc \in {"insert", "update", "delete"}
              /\ \/ req[r].op = "remove" /\ req[r].id = s /\ req[r].crossed # {}
                 \/ req[r].op = "patch" /\ req[r].id = i /\ s \in req[r].crossed
                 \/ req[r].op = "add" /\ fresh = i /\ s \in req[r].crossed
<1>1. attr' # attr
  BY DEF Dangles, Live
<1>2. PICK r \in Requests : Handle(r)
  BY <1>1 DEF Next, vars, tables
<1>3. i \in Live' /\ s \in attr'[i].subs /\ s \notin Live'
  BY DEF Dangles
<1>4. req[r] \in Handlers
  BY DEF TypeOK
<1>d. ASSUME NEW ids, Delete(r, ids)
      PROVE  i \in Live /\ s \in Live /\ i \notin ids /\ s \in ids /\ s \in attr[i].subs
  <2>1. i \in Live /\ i \notin ids /\ attr'[i] = attr[i]
    BY <1>3, <1>d DEF Delete, Live
  <2>2. s \in Live
    BY <1>3, <2>1 DEF Dangles
  <2>3. s \in ids
    BY <1>3, <1>d, <2>2 DEF Delete, Live
  <2> QED
    BY <1>3, <2>1, <2>2, <2>3
<1>5. CASE RemoveScopes(r)
  <2>1. PICK scopes : Delete(r, {j \in Live : attr[j].scope \in scopes})
    BY <1>5 DEF RemoveScopes
  <2>2. /\ i \in Live /\ s \in Live
        /\ attr[i].scope \notin scopes /\ attr[s].scope \in scopes
    BY <1>d, <2>1
  <2> QED
    BY <2>2 DEF InPlace
<1>6. CASE DeleteAttribute(r)
  <2>1. Delete(r, {req[r].id}) /\ req[r].op = "remove" /\ req[r].pc = "delete"
    BY <1>6 DEF DeleteAttribute
  <2>2. i \in Live /\ s \in Live /\ i # s /\ s = req[r].id /\ s \in attr[i].subs
    BY <1>d, <2>1
  <2>3. InPlace(i, s) => req[r].crossed # {}
    BY <1>6, <2>2, DeletionSawParent
  <2> QED
    BY <2>1, <2>2, <2>3
<1>7. CASE InsertAttribute(r)
  <2>1. /\ attr' = [attr EXCEPT ![fresh] = req[r].row]
        /\ req[r].op = "add" /\ req[r].pc = "insert"
    BY <1>1, <1>7 DEF InsertAttribute
  <2>2. req[r].row # NoRow
    <3>1. req[r].row \in Row
      BY <1>4, <2>1, HandlerKinds DEF Adders
    <3> QED
      BY <3>1, SchemaRulesAssumption DEF Row, NoRow, SchemaRulesAssumption
  <2>3. s \notin Live
    BY <1>3, <2>1, <2>2 DEF Live, TypeOK
  <2>4. CASE i = fresh
    <3>1. s \in req[r].row.subs
      BY <1>3, <2>1, <2>4 DEF TypeOK
    <3>2. s \in req[r].crossed
      BY <2>1, <2>3, <3>1 DEF FamilySeen, SubsSeen, Seen
    <3> QED
      BY <2>1, <2>4, <3>2
  <2>5. CASE i # fresh
    <3>1. attr'[i] = attr[i]
      BY <2>1, <2>5 DEF TypeOK
    <3> QED
      BY <1>3, <2>3, <3>1 DEF Dangles, Live
  <2> QED
    BY <2>4, <2>5
<1>8. CASE UpdateAttribute(r)
  <2> DEFINE m == req[r].id
  <2>1. /\ attr[m] # NoRow /\ attr' = [attr EXCEPT ![m] = Patched(@, req[r].to)]
        /\ req[r].op = "patch" /\ req[r].pc = "update"
    BY <1>1, <1>8 DEF UpdateAttribute
  <2>2. m \in Ids /\ req[r].to \in Changes
    BY <1>4, <2>1, HandlerKinds DEF Patchers
  <2>3. attr[m] \in Row
    BY <2>1, <2>2 DEF TypeOK
  <2>4. Patched(attr[m], req[r].to) # NoRow
    BY <2>2, <2>3, PatchedIsRow
  <2>5. s \notin Live
    BY <1>3, <2>1, <2>4 DEF Live, TypeOK
  <2>6. i \in Live
    BY <1>3, <2>1, <2>2 DEF Live, TypeOK
  <2>7. s \notin attr[i].subs
    BY <2>5, <2>6 DEF Dangles
  <2>8. i = m
    BY <1>3, <2>1, <2>7 DEF TypeOK
  <2>9. attr'[m] = Patched(attr[m], req[r].to)
    BY <2>1, <2>2 DEF TypeOK
  <2>10. req[r].to.subs # Keep /\ s \in req[r].to.subs
    <3>1. attr'[m].subs = IF req[r].to.subs = Keep THEN attr[m].subs ELSE req[r].to.subs
      BY <2>3, <2>9 DEF Patched, Row
    <3> QED
      BY <1>3, <2>7, <2>8, <3>1
  <2>11. s \in req[r].crossed
    BY <2>1, <2>5, <2>10 DEF FamilySeen, SubsSeen, Seen
  <2> QED
    BY <2>1, <2>8, <2>11
<1>9. CASE ~(\/ RemoveScopes(r) \/ DeleteAttribute(r) \/ InsertAttribute(r) \/ UpdateAttribute(r))
  BY <1>1, <1>2, <1>9 DEF Handle, PostAttribute, PatchAttribute, RemoveAttribute, PostRule,
     PatchRule, DeleteRule, Arrive, ReadAttribute, CheckSubAttribute, CheckExists,
     FindAttribute, CheckParent, FindProperty, CheckRules, InsertRule, AnswerRule, ReadRule,
     UpdateRule, RequestFails, tables
<1> QED
  BY <1>5, <1>6, <1>7, <1>8, <1>9

\* "If this attribute is referenced as a sub-attribute of a parent, block the deletion": a
\* parent in its place keeps its sub-attributes, however attributes are added, changed and
\* deleted, unless two requests overlapped.
THEOREM FamilySafety == Spec => SubAttributesStay
<1>1. TypeOK /\ FamilySeen /\ [Next]_vars =>
      [\A i, s \in Ids :
         Dangles(i, s)' /\ ~Dangles(i, s) =>
           \/ i \in Live /\ s \in Live /\ ~InPlace(i, s)
           \/ \E r \in Requests :
                /\ req[r].pc \in {"insert", "update", "delete"}
                /\ \/ req[r].op = "remove" /\ req[r].id = s /\ req[r].crossed # {}
                   \/ req[r].op = "patch" /\ req[r].id = i /\ s \in req[r].crossed
                   \/ req[r].op = "add" /\ fresh = i /\ s \in req[r].crossed]_vars
  BY DanglesByOverlap
<1> QED
  BY <1>1, TypeCorrect, FamilySeenAlways, PTL DEF Spec, SubAttributesStay
=============================================================================
