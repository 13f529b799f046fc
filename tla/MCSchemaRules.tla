--------------------------- MODULE MCSchemaRules ---------------------------
(* A small organization: an identity attribute, a trait with a rule, and    *)
(* an application's complex attribute with one sub-attribute.               *)
EXTENDS SchemaRules, TLC

MCScopeOf == [email |-> "identity_attributes", tier |-> "traits",
              home |-> "application_data", city |-> "application_data"]
MCParent  == [city |-> "home"]

Attribute(name, app, subs) ==
  [name |-> name, app |-> app, scope |-> MCScopeOf[name], complex |-> subs # {}, subs |-> subs]

MCFirst == <<Attribute("email", NoApp, {}), Attribute("tier", NoApp, {}),
             Attribute("city", "shop", {}), Attribute("home", "shop", {3})>>
MCAdded == {Attribute("home", "shop", {3}), Attribute("home", "blog", {}),
            Attribute("tier", NoApp, {})}
MCChanges == {[name |-> "home", complex |-> TRUE, subs |-> Keep],
              [name |-> "home", complex |-> FALSE, subs |-> {}],
              [name |-> "home", complex |-> TRUE, subs |-> {3}],
              [name |-> "city", complex |-> FALSE, subs |-> Keep],
              [name |-> "tier", complex |-> FALSE, subs |-> Keep]}
MCFirstRules == <<[name |-> "email", prop |-> 1, priority |-> 1, active |-> TRUE],
                  [name |-> "tier", prop |-> 2, priority |-> 2, active |-> FALSE]>>
MCRuleChanges == {[priority |-> p, active |-> Keep] : p \in {2, 3, Keep}}
                   \cup {[priority |-> Keep, active |-> FALSE]}

Symmetry == Permutations(Requests)
=============================================================================
