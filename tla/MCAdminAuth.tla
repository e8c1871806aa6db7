---------------------------- MODULE MCAdminAuth ----------------------------
(***************************************************************************)
(* The instance of AdminAuth for TLC: two names, and two requests that may *)
(* be inside SetupAdmin at once.                                           *)
(***************************************************************************)
EXTENDS AdminAuth

CONSTANTS root, admin, strong, short

MCTooShort == [user : Users, password : {short}]
=============================================================================
