------------------------ MODULE MCOrgTransactions ------------------------
(* Instances of OrgTransactions for TLC. *)
EXTENDS OrgTransactions, TLC

CONSTANTS org, stamp, app, user, invite, oldInvite

\* One invite that never expires, and its user.
OneInvitee  == invite :> user
OneExpiry   == invite :> 9

\* An older invite of the same user that expires, and one that replaced it.
TwoInvitees == (invite :> user) @@ (oldInvite :> user)
TwoExpiries == (invite :> 2) @@ (oldInvite :> 1)

Symmetry == Permutations(Requests) \cup Permutations(Sessions)
=============================================================================
