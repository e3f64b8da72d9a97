-------------------------- MODULE MCOrgSockets --------------------------
(* Instances of OrgSockets for TLC. *)
EXTENDS OrgSockets, TLC

CONSTANTS laptop, desktop, alice

\* Two devices of one user.
OneUser == (laptop :> alice) @@ (desktop :> alice)
=============================================================================
