------------------------------ MODULE Companies -----------------------------
(***************************************************************************)
(* The companies of the platform, side by side: the creations that compete *)
(* for names, domains and people, and the pages open on the configuration  *)
(* of a company that is there.  A behaviour is about one of them, which    *)
(* scene names.                                                            *)
(***************************************************************************)
EXTENDS Provisioning, Menus

VARIABLE scene

(* In the scene of the creations there is no configuration to look at.     *)
CompaniesInit ==
  /\ scene \in {"creations", "settings"}
  /\ Init
  /\ IF scene = "settings" THEN WsInit ELSE WsIdle /\ config = NoPage

CompaniesNext ==
  /\ \/ scene = "creations" /\ Next /\ UNCHANGED wsVars
     \/ scene = "settings" /\ WsNext /\ UNCHANGED vars
  /\ UNCHANGED scene

CompaniesSpec == CompaniesInit /\ [][CompaniesNext]_<<scene, vars, wsVars>>

(* The menus are looked at when somebody has saved and nobody has a page   *)
(* open: whoever has one may go away, and leave the same configuration     *)
(* (module Menus).                                                         *)
SavedMenusMatchGates ==
  scene = "settings" /\ (\E e \in Editors : at[e] \in {"half", "done"})
                     /\ (\A e \in Editors : at[e] \notin {"open", "checked"})
    => WsTypeOK /\ MenusMatchGates
=============================================================================
