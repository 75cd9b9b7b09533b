---------------------------- MODULE MCWebApp ------------------------------
(* The user owns an organisation of two workspaces and administers another. *)
EXTENDS WebApp

MCWorkspacesOf == [a |-> {"a1", "a2"}, b |-> {"b1"}]
MCRoleIn == [a |-> "OWNER", b |-> "ADMIN"]
==========================================================================
