------------------------------ MODULE Accounts ------------------------------
(* The accounts of the product (the table users), which sessions and
   workspaces share. *)

CONSTANTS Users, Admins  \* accounts, and those with the role administrator

VARIABLE active          \* users.active
=============================================================================
