----------------------------- MODULE CompaniesMC ----------------------------
(* Two scenes of the companies of the platform.  In one, three creations   *)
(* compete for two names, two domains and a person.  In the other, two     *)
(* superusers and an administrator open two pages, between them, on the    *)
(* configuration of a company, so that an edit follows or meets another.   *)
EXTENDS Companies

CONSTANTS n1, n2, d1, d2, p1, i1, i2, i3, a1, a2, o1

MCNames == {n1, n2}
MCDomains == {d1, d2}
MCPeople == {p1}
MCIds == {i1, i2, i3}
MCPlatform == {a1, a2}
Alike ==
  Permutations(MCNames) \cup Permutations(MCDomains) \cup Permutations(MCPlatform)

General ==
  [profile |-> "general",
   on |-> (Modules \ {"collections"}) \cup {"kanban"}, order |-> DefaultModuleOrder,
   widgets |-> Widgets, roles |-> DefaultRolePolicies,
   labels |-> [title |-> "old", singular |-> "old", subtitle |-> "old"], objects |-> TRUE,
   ops |-> [density |-> "airy", hero |-> "none", validity |-> 1, prefix |-> "old"]]

MCDefaults ==
  [general |-> General,
   broker |-> [General EXCEPT !.profile = "broker", !.ops.density = "compact",
                  !.order = <<"deals", "documents", "entities", "activities", "reports",
                              "objects", "proposals", "collections", "collab", "assessments">>]]

MCCompany == {o1}
MCTouched == {"deals", "collections"}
MCGranted == {<<"deals", "view">>}
=============================================================================
