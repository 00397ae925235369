--------------------------- MODULE ConsolidationMC ---------------------------
(* Two companies of a holding that can be switched off or restricted, a    *)
(* page and a worker; the choices are the rows that tell modes apart.      *)
EXTENDS Consolidation

CONSTANTS c1, c2, w1, v1

TwoCompanies == {c1, c2}
OneWorker == {w1}
OneViewer == {v1}
OpenGroup == {[active |-> TRUE, mode |-> "full"]}
MCGroup == OpenGroup \cup {[active |-> FALSE, mode |-> "full"],
                           [active |-> TRUE, mode |-> "blocked"]}
OpenLink == {[active |-> TRUE, mode |-> "aggregate_only"]}
MCLink == OpenLink \cup {[active |-> TRUE, mode |-> "blocked"]}
OpenTenant == {[active |-> TRUE, allow |-> TRUE]}
MCFigures == {0, 1}
=============================================================================
