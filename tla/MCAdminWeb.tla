----------------------------- MODULE MCAdminWeb -----------------------------
(***************************************************************************)
(* AdminWeb with the forms of the client and small pages.                  *)
(***************************************************************************)
EXTENDS AdminWeb, TLC

W == INSTANCE Forms
MCForm == DOMAIN W!ProfileOf
MCProfile == W!ProfileOf

\* A bank row in each of two stores, and two expenses of the first.
MCTxStore == "t1" :> "A" @@ "t2" :> "B"
MCItemStore == "e1" :> "A" @@ "e2" :> "A"

\* An approval that can pay one of two bank rows, but not both.
MCBankRow == "b1" :> 2 @@ "b2" :> 2
MCApproval == "a1" :> 3

\* Four pages, two of one route, and two sets of rights.
MCRoute == "/" :> "/" @@ "/bank?A" :> "/bank" @@ "/bank?B" :> "/bank" @@ "/users" :> "/users"
MCRights == {{"/", "/bank?A", "/bank?B"}, {"/", "/users"}}
=============================================================================
