------------------------ MODULE OperationalGrantsMC -------------------------
(* One worker and two ticks suffice for a grant that expires.              *)
EXTENDS OperationalGrants

CONSTANT w1

OneWorker == {w1}
MCExpiries == {Never, 1}
=============================================================================
