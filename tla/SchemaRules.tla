---------------------------- MODULE SchemaRules ----------------------------
(***************************************************************************)
(* The profile schema as administrators change it, and the unification     *)
(* rules on its attributes.                                                *)
(*                                                                         *)
(*   internal/profile_schema/{handler,service,store}      attr, fresh      *)
(*   internal/unification_rules/{handler,service,store}   rule, made, req  *)
(*                                                                         *)
(* Each step is one statement on the database; each request is a handler   *)
(* goroutine that reads, compares and then writes.  Of an attribute's name *)
(* only its place matters: its scope and the name one level up.  A list of *)
(* attributes has one element, and a PATCH leaves the application as it is *)
(* and comes on the path of the scope that its new name has.  What a       *)
(* schema sync writes is in SchemaSync.                                    *)
(***************************************************************************)
EXTENDS Naturals, FiniteSets

CONSTANTS Names,         \* attribute names
          ScopeOf,       \* the scope that each of them begins with
          Parent,        \* the name one level up, of those with two dots or more
          Apps,          \* application identifiers
          First,         \* the attributes at the start, with ids 1, 2, ...
          Added,         \* attributes that a POST may carry
          Changes,       \* what a PATCH of an attribute may carry
          AttributeIds,  \* a bound: attributes get the ids 1..AttributeIds
          RuleNames,     \* property names that a new rule may have
          Priorities,
          FirstRules,    \* the rules at the start, with ids 1, 2, ...
          RuleChanges,   \* what a PATCH of a rule may carry
          RuleIds,       \* a bound: rules get the ids 1..RuleIds
          Requests,      \* handler goroutines, each free again when it has answered
          Arrivals,      \* requests that arrive in all (a bound)
          Failures,      \* may a call to the database fail?
          Keep           \* a field that a PATCH does not carry

NoApp  == "no application"
NoRow  == [name |-> "none"]
NoRule == [name |-> "none"]
Scopes == {"identity_attributes", "traits", "application_data"}
Ids    == 1..AttributeIds

Row  == [name : Names, app : Apps \cup {NoApp}, scope : Scopes,
         complex : BOOLEAN, subs : SUBSET Ids]
Rule == [name : Names, prop : Ids, priority : Priorities, active : BOOLEAN]

\* The names that may stand in sub_attributes of an attribute of that name.
Children(name) == {n \in DOMAIN Parent : Parent[n] = name}

ASSUME SchemaRulesAssumption ==
  /\ AttributeIds \in Nat /\ RuleIds \in Nat /\ Arrivals \in Nat
  /\ "none" \notin Names /\ NoApp \notin Apps
  /\ ScopeOf \in [Names -> Scopes]
  /\ DOMAIN Parent \subseteq Names
  /\ \A n \in DOMAIN Parent : Parent[n] \in Names /\ ScopeOf[Parent[n]] = ScopeOf[n]
  /\ \E n \in 0..AttributeIds : First \in [1..n -> Row]
  /\ Added \subseteq Row
  /\ \A row \in Added : ScopeOf[row.name] = row.scope
  /\ Changes \subseteq [name : Names, complex : BOOLEAN, subs : (SUBSET Ids) \cup {Keep}]
  /\ RuleNames \subseteq Names
  /\ \E n \in 0..RuleIds : FirstRules \in [1..n -> Rule]
  /\ \A k \in DOMAIN FirstRules : FirstRules[k].prop \in DOMAIN First
  /\ RuleChanges \subseteq [priority : Priorities \cup {Keep}, active : BOOLEAN \cup {Keep}]
  /\ Failures \in BOOLEAN

VARIABLES
  attr,   \* the rows of profile_schema by attribute_id, or NoRow
  fresh,  \* the next attribute_id
  rule,   \* the rows of unification_rules by rule_id, or NoRule
  made,   \* the next rule_id
  req,    \* what each handler goroutine is at
  left    \* requests that may still arrive

tables == <<attr, fresh, rule, made>>
vars   == <<tables, req, left>>

Free == [op |-> "none", pc |-> "free"]

\* `crossed` is for the properties: the ids of the rows of its table that other requests
\* have written or deleted since this one arrived.
Adders ==
  [op : {"add"}, pc : {"subs", "exists", "insert"}, row : Row, todo : SUBSET Ids,
   crossed : SUBSET Ids]
Patchers ==
  [op : {"patch"}, pc : {"read", "subs", "update"}, id : Ids, to : Changes,
   app : Apps \cup {NoApp}, todo : SUBSET Ids, crossed : SUBSET Ids]
Removers ==
  [op : {"remove"}, pc : {"read", "parent", "delete"}, id : Ids, name : Names \cup {"none"},
   crossed : SUBSET Ids]
RuleAdders ==
  [op : {"add rule"}, pc : {"property", "rules", "insert", "again"}, id : 1..RuleIds,
   new : [name : Names, prop : Ids \cup {0}, priority : Priorities, active : BOOLEAN],
   crossed : SUBSET (1..RuleIds)]
RulePatchers ==
  [op : {"patch rule"}, pc : {"read"}, id : 1..RuleIds,
   to : RuleChanges, new : {NoRule}, crossed : SUBSET (1..RuleIds)]
  \cup
  [op : {"patch rule"}, pc : {"rules", "update"}, id : 1..RuleIds,
   to : RuleChanges, new : Rule, crossed : SUBSET (1..RuleIds)]

Handlers == {Free} \cup Adders \cup Patchers \cup Removers \cup RuleAdders \cup RulePatchers

TypeOK ==
  /\ attr \in [Ids -> Row \cup {NoRow}]
  /\ fresh \in 1..(AttributeIds + 1)
  /\ rule \in [1..RuleIds -> Rule \cup {NoRule}]
  /\ made \in 1..(RuleIds + 1)
  /\ req \in [Requests -> Handlers]
  /\ left \in 0..Arrivals

Init ==
  /\ attr = [i \in Ids |-> IF i \in DOMAIN First THEN First[i] ELSE NoRow]
  /\ fresh = Cardinality(DOMAIN First) + 1
  /\ rule = [k \in 1..RuleIds |-> IF k \in DOMAIN FirstRules THEN FirstRules[k] ELSE NoRule]
  /\ made = Cardinality(DOMAIN FirstRules) + 1
  /\ req = [r \in Requests |-> Free]
  /\ left = Arrivals

-----------------------------------------------------------------------------
(***************************************************************************)
(* The tables.                                                             *)
(***************************************************************************)

Live  == {i \in Ids : attr[i] # NoRow}
Rules == {k \in 1..RuleIds : rule[k] # NoRule}

\* GetProfileSchemaAttributeByName: LIMIT 1, and the names are not unique.
Named(name) == {i \in Live : attr[i].name = name}

OfAttributes == {"add", "patch", "remove"}

\* The handlers after a statement of r (or of no handler) that wrote the rows `ids` of the
\* attributes, or of the rules.
Cross(r, next, about, ids) ==
  [q \in Requests |->
     CASE q = r -> next
       [] q # r /\ req[q] # Free /\ about = (req[q].op \in OfAttributes) ->
            [req[q] EXCEPT !.crossed = @ \cup ids]
       [] OTHER -> req[q]]

Goto(r, pc) == req' = [req EXCEPT ![r].pc = pc]
Answered(r) == req' = [req EXCEPT ![r] = Free]

\* DELETE of rows of profile_schema; the rules on them go as well.
Delete(r, ids) ==
  /\ attr' = [i \in Ids |-> IF i \in ids THEN NoRow ELSE attr[i]]
  /\ rule' = [k \in 1..RuleIds |-> IF k \in Rules /\ rule[k].prop \in ids THEN NoRule
                                   ELSE rule[k]]
  /\ req' = Cross(r, Free, TRUE, ids \cap Live)
  /\ UNCHANGED <<fresh, made>>

-----------------------------------------------------------------------------
(***************************************************************************)
(* Requests.                                                               *)
(***************************************************************************)

Arrives(r) == req[r] = Free /\ left > 0 /\ left' = left - 1

Arrive(r, h) ==
  /\ Arrives(r)
  /\ req' = [req EXCEPT ![r] = h]
  /\ UNCHANGED tables

\* POST /profile-schema/{scope}: identity attributes are refused, as is a list of
\* sub-attributes for any type but complex, and complex without one.
PostAttribute(r) ==
  \E row \in Added :
    /\ row.scope # "identity_attributes"
    /\ row.complex = (row.subs # {})
    /\ Arrive(r, [op |-> "add", pc |-> "subs", row |-> row, todo |-> row.subs, crossed |-> {}])

\* PATCH /profile-schema/{scope}/{id}: the path's scope is not that of the identity
\* attributes, but nobody compares it with the attribute's.
PatchAttribute(r) ==
  \E i \in 1..(fresh - 1), to \in Changes :
    /\ ScopeOf[to.name] # "identity_attributes"
    /\ Arrive(r, [op |-> "patch", pc |-> "read", id |-> i, to |-> to, app |-> NoApp,
                  todo |-> {}, crossed |-> {}])

\* DELETE /profile-schema/{scope}/{id}, whatever the attribute's scope.
RemoveAttribute(r) ==
  \E i \in 1..(fresh - 1) :
    Arrive(r, [op |-> "remove", pc |-> "read", id |-> i, name |-> "none", crossed |-> {}])

\* DELETE /profile-schema/{scope} and DELETE /profile-schema: one statement, by the column
\* `scope`, which a PATCH of the name leaves as it was.
RemoveScopes(r) ==
  \E scopes \in {{"traits"}, {"application_data"}, {"traits", "application_data"}} :
    /\ Arrives(r)
    /\ Delete(r, {i \in Live : attr[i].scope \in scopes})

\* POST /unification-rules: no rule on the application data.
PostRule(r) ==
  \E n \in RuleNames, p \in Priorities, on \in BOOLEAN :
    /\ ScopeOf[n] # "application_data"
    /\ made <= RuleIds
    /\ Arrives(r)
    /\ made' = made + 1
    /\ req' = [req EXCEPT ![r] =
         [op |-> "add rule", pc |-> "property", id |-> made, crossed |-> {},
          new |-> [name |-> n, prop |-> 0, priority |-> p, active |-> on]]]
    /\ UNCHANGED <<attr, fresh, rule>>

\* PATCH /unification-rules/{id}.
PatchRule(r) ==
  \E k \in 1..(made - 1), to \in RuleChanges :
    Arrive(r, [op |-> "patch rule", pc |-> "read", id |-> k, to |-> to, new |-> NoRule,
               crossed |-> {}])

\* DELETE /unification-rules/{id}.
DeleteRule(r) ==
  \E k \in 1..(made - 1) :
    /\ Arrives(r)
    /\ rule' = [rule EXCEPT ![k] = NoRule]
    /\ req' = Cross(r, Free, FALSE, {k} \cap Rules)
    /\ UNCHANGED <<attr, fresh, made>>

\* A failed call to the database, or to the identity server for the application.
RequestFails(r) ==
  /\ Failures /\ req[r] # Free
  /\ Answered(r)
  /\ UNCHANGED <<tables, left>>

-----------------------------------------------------------------------------
(***************************************************************************)
(* Attributes are added, changed and deleted.                              *)
(***************************************************************************)

\* A sub-attribute is there, one level below the attribute and of the same application.
SubAttributeOk(s, name, app) ==
  attr[s] # NoRow /\ attr[s].name \in Children(name) /\ attr[s].app = app

\* UpdateProfileSchemaAttributeById: 404, and the sub-attributes and the application that
\* count are those of the row unless the PATCH has its own.
ReadAttribute(r) ==
  /\ req[r].op = "patch" /\ req[r].pc = "read"
  /\ LET h == req[r]
         row == attr[h.id]
         subs == IF h.to.subs = Keep THEN row.subs ELSE h.to.subs
         app == IF ScopeOf[h.to.name] = "application_data" THEN row.app ELSE NoApp
     IN  IF /\ row # NoRow
            /\ h.to.complex = (subs # {})
            /\ ScopeOf[h.to.name] = "application_data" => app # NoApp
         THEN req' = [req EXCEPT ![r] = [h EXCEPT !.pc = "subs", !.todo = subs, !.app = app]]
         ELSE Answered(r)
  /\ UNCHANGED <<tables, left>>

\* validateSchemaAttribute reads the sub-attributes one after another.
CheckSubAttribute(r) ==
  /\ req[r].pc = "subs"
  /\ LET h == req[r] IN
     IF h.todo = {} THEN Goto(r, IF h.op = "add" THEN "exists" ELSE "update")
     ELSE LET s == CHOOSE i \in h.todo : TRUE
              name == IF h.op = "add" THEN h.row.name ELSE h.to.name
              app == IF h.op = "add" THEN h.row.app ELSE h.app
          IN  IF SubAttributeOk(s, name, app) THEN req' = [req EXCEPT ![r].todo = @ \ {s}]
              ELSE Answered(r)
  /\ UNCHANGED <<tables, left>>

\* An attribute of that name is a conflict, unless it is another application's.
CheckExists(r) ==
  /\ req[r].pc = "exists"
  /\ LET row == req[r].row IN
     \/ Named(row.name) = {} /\ Goto(r, "insert")
     \/ \E i \in Named(row.name) :
          IF row.scope = "application_data" /\ attr[i].app # row.app
          THEN Goto(r, "insert") ELSE Answered(r)
  /\ UNCHANGED <<tables, left>>

InsertAttribute(r) ==
  /\ req[r].op = "add" /\ req[r].pc = "insert"
  /\ IF fresh \in Ids
     THEN /\ attr' = [attr EXCEPT ![fresh] = req[r].row]
          /\ fresh' = fresh + 1
          /\ req' = Cross(r, Free, TRUE, {fresh})
     ELSE Answered(r) /\ UNCHANGED <<attr, fresh>>
  /\ UNCHANGED <<rule, made, left>>

\* The columns that the PATCH carries: a list of sub-attributes is skipped when it is nil.
Patched(row, to) ==
  [row EXCEPT !.name = to.name, !.complex = to.complex,
              !.subs = IF to.subs = Keep THEN @ ELSE to.subs]

\* PatchProfileSchemaAttributeById: one UPDATE, which finds no row when the attribute is gone.
UpdateAttribute(r) ==
  /\ req[r].op = "patch" /\ req[r].pc = "update"
  /\ LET h == req[r] IN
     IF attr[h.id] # NoRow
     THEN /\ attr' = [attr EXCEPT ![h.id] = Patched(@, h.to)]
          /\ req' = Cross(r, Free, TRUE, {h.id})
     ELSE Answered(r) /\ UNCHANGED attr
  /\ UNCHANGED <<fresh, rule, made, left>>

\* DeleteProfileSchemaAttributeById: an attribute that is not there counts as deleted.
FindAttribute(r) ==
  /\ req[r].op = "remove" /\ req[r].pc = "read"
  /\ LET row == attr[req[r].id] IN
     IF row = NoRow THEN Answered(r)
     ELSE req' = [req EXCEPT ![r].name = row.name,
                             ![r].pc = IF row.name \in DOMAIN Parent THEN "parent" ELSE "delete"]
  /\ UNCHANGED <<tables, left>>

\* Seeded fault: the parent is asked for the attribute's name, which it has not.
CheckParent_ByName(r) ==
  /\ req[r].pc = "parent"
  /\ \/ Named(req[r].name) = {} /\ Goto(r, "delete")
     \/ \E i \in Named(req[r].name) :
          IF req[r].id \in attr[i].subs THEN Answered(r) ELSE Goto(r, "delete")
  /\ UNCHANGED <<tables, left>>

\* An attribute of the parent's name must not have it among its sub-attributes.
CheckParent(r) ==
  /\ req[r].pc = "parent"
  /\ LET parents == Named(Parent[req[r].name]) IN
     \/ parents = {} /\ Goto(r, "delete")
     \/ \E i \in parents : IF req[r].id \in attr[i].subs THEN Answered(r) ELSE Goto(r, "delete")
  /\ UNCHANGED <<tables, left>>

DeleteAttribute(r) ==
  /\ req[r].op = "remove" /\ req[r].pc = "delete"
  /\ Delete(r, {req[r].id})
  /\ UNCHANGED left

-----------------------------------------------------------------------------
(***************************************************************************)
(* Rules are added and changed.                                            *)
(***************************************************************************)

\* AddUnificationRule: an attribute of the property's name is there and not complex.
FindProperty(r) ==
  /\ req[r].pc = "property"
  /\ LET found == Named(req[r].new.name) IN
     \/ found = {} /\ Answered(r)
     \/ \E i \in found :
          IF attr[i].complex THEN Answered(r)
          ELSE req' = [req EXCEPT ![r].new.prop = i, ![r].pc = "rules"]
  /\ UNCHANGED <<tables, left>>

\* Seeded fault: rules that are not active do not count.
Taken_ActiveOnly(k, new) ==
  \E j \in Rules \ {k} : rule[j].active /\ rule[j].priority = new.priority

\* Another rule has the priority.
Taken(k, new) == \E j \in Rules \ {k} : rule[j].priority = new.priority

\* The rules are read once; a new one must not share its property with another either.
CheckRules(r) ==
  /\ req[r].pc = "rules"
  /\ LET h == req[r] IN
     IF Taken(h.id, h.new) \/ (h.op = "add rule" /\ \E j \in Rules : rule[j].name = h.new.name)
     THEN Answered(r)
     ELSE Goto(r, IF h.op = "add rule" THEN "insert" ELSE "update")
  /\ UNCHANGED <<tables, left>>

\* Seeded fault: the rule is stored without a look at the attribute it refers to.
InsertRule_NoForeignKey(r) ==
  /\ req[r].op = "add rule" /\ req[r].pc = "insert"
  /\ rule' = [rule EXCEPT ![req[r].id] = req[r].new]
  /\ req' = Cross(r, [req[r] EXCEPT !.pc = "again"], FALSE, {req[r].id})
  /\ UNCHANGED <<attr, fresh, made, left>>

\* The foreign key refuses a rule whose attribute has gone.
InsertRule(r) ==
  /\ req[r].op = "add rule" /\ req[r].pc = "insert"
  /\ LET h == req[r] IN
     IF h.new.prop \in Live
     THEN /\ rule' = [rule EXCEPT ![h.id] = h.new]
          /\ req' = Cross(r, [h EXCEPT !.pc = "again"], FALSE, {h.id})
     ELSE Answered(r) /\ UNCHANGED rule
  /\ UNCHANGED <<attr, fresh, made, left>>

\* The handler reads the rule again for its answer, and panics when it has gone.
AnswerRule(r) ==
  /\ req[r].pc = "again"
  /\ Answered(r)
  /\ UNCHANGED <<tables, left>>

\* Seeded fault: a priority that the PATCH does not carry is taken for zero.
Overlay_ZeroPriority(row, to) ==
  [row EXCEPT !.priority = IF to.priority = Keep THEN 0 ELSE to.priority,
              !.active = IF to.active = Keep THEN @ ELSE to.active]

\* Seeded fault: a flag that the PATCH does not carry is taken for off.
Overlay_Zero(row, to) ==
  [row EXCEPT !.priority = IF to.priority = Keep THEN @ ELSE to.priority,
              !.active = to.active = TRUE]

\* The handler puts what the PATCH carries over the rule that it has read.
Overlay(row, to) ==
  [row EXCEPT !.priority = IF to.priority = Keep THEN @ ELSE to.priority,
              !.active = IF to.active = Keep THEN @ ELSE to.active]

ReadRule(r) ==
  /\ req[r].op = "patch rule" /\ req[r].pc = "read"
  /\ LET h == req[r] IN
     IF h.id \notin Rules THEN Answered(r)
     ELSE req' = [req EXCEPT ![r].new = Overlay(rule[h.id], h.to), ![r].pc = "rules"]
  /\ UNCHANGED <<tables, left>>

\* One UPDATE of the priority, the flag and the rule's name, read or given.
UpdateRule(r) ==
  /\ req[r].op = "patch rule" /\ req[r].pc = "update"
  /\ LET h == req[r] IN
     IF h.id \in Rules
     THEN /\ rule' = [rule EXCEPT ![h.id].priority = h.new.priority,
                                  ![h.id].active = h.new.active]
          /\ req' = Cross(r, Free, FALSE, {h.id})
     ELSE Answered(r) /\ UNCHANGED rule
  /\ UNCHANGED <<attr, fresh, made, left>>

-----------------------------------------------------------------------------
Handle(r) ==
  \/ PostAttribute(r) \/ PatchAttribute(r) \/ RemoveAttribute(r) \/ RemoveScopes(r)
  \/ PostRule(r) \/ PatchRule(r) \/ DeleteRule(r)
  \/ ReadAttribute(r) \/ CheckSubAttribute(r) \/ CheckExists(r) \/ InsertAttribute(r)
  \/ UpdateAttribute(r) \/ FindAttribute(r) \/ CheckParent(r) \/ DeleteAttribute(r)
  \/ FindProperty(r) \/ CheckRules(r) \/ InsertRule(r) \/ AnswerRule(r)
  \/ ReadRule(r) \/ UpdateRule(r)
  \/ RequestFails(r)

Next == \E r \in Requests : Handle(r)

Spec == Init /\ [][Next]_vars

-----------------------------------------------------------------------------
\* unification-rules.md: property_id is "the attribute_id of the schema attribute being
\* matched".  Whatever is deleted between the look-up of the property and the insert, or
\* later, a rule refers to an attribute that is there.
RulesOnSchema == \A k \in Rules : rule[k].prop \in Live

Clash(i, j) == {i, j} \subseteq Rules /\ rule[i].priority = rule[j].priority

\* "Unification rule with same priority exist": two rules come to share a priority only
\* through requests that overlapped; the one that writes last has missed the other.
PrioritiesDiffer ==
  [][\A i, j \in 1..RuleIds :
       i # j /\ Clash(i, j)' /\ ~Clash(i, j) =>
         \E r \in Requests, k \in {i, j} :
           /\ req[r].pc \in {"insert", "update"} /\ req[r].op \in {"add rule", "patch rule"}
           /\ req[r].id = k /\ req[r].crossed \cap ({i, j} \ {k}) # {}]_vars

\* A PATCH of a rule writes every column back as it read it.  Even so the order and the
\* switch of a rule change only as a PATCH says, unless two of them overlapped.
PatchKeepsTheRest ==
  [][\A k \in 1..RuleIds :
       k \in Rules /\ k \in Rules' =>
         \A f \in {"priority", "active"} :
           rule'[k][f] # rule[k][f] =>
             \E r \in Requests :
               /\ req[r].op = "patch rule" /\ req[r].pc = "update" /\ req[r].id = k
               /\ req[r].to[f] = rule'[k][f] \/ k \in req[r].crossed]_vars

Dangles(i, s) == i \in Live /\ s \in attr[i].subs /\ s \notin Live

\* Only one attribute has the name, the column `scope` is that of the name, and the
\* sub-attribute is one level below.
InPlace(i, s) ==
  /\ Named(attr[i].name) = {i}
  /\ attr[i].scope = ScopeOf[attr[i].name] /\ attr[s].scope = attr[i].scope
  /\ attr[s].name \in Children(attr[i].name)

\* "If this attribute is referenced as a sub-attribute of a parent, block the deletion": a
\* parent in its place loses a sub-attribute only when the two were written by requests
\* that overlapped.
SubAttributesStay ==
  [][\A i, s \in Ids :
       Dangles(i, s)' /\ ~Dangles(i, s) =>
         \/ i \in Live /\ s \in Live /\ ~InPlace(i, s)
         \/ \E r \in Requests :
              /\ req[r].pc \in {"insert", "update", "delete"}
              /\ \/ req[r].op = "remove" /\ req[r].id = s /\ req[r].crossed # {}
                 \/ req[r].op = "patch" /\ req[r].id = i /\ s \in req[r].crossed
                 \/ req[r].op = "add" /\ fresh = i /\ s \in req[r].crossed]_vars
=============================================================================
