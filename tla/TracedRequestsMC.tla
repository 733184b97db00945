-------------------------- MODULE TracedRequestsMC --------------------------
(***************************************************************************)
(* Model-checking instance of TracedRequests: an upload and two questions, *)
(* and a role that may only ask and one that may also upload, as in the    *)
(* default role catalog.                                                   *)
(***************************************************************************)
EXTENDS TracedRequests

ThreeRequests == {"r1", "r2", "r3"}
TwoCapabilities == {"question", "upload"}
Purposes == [r \in ThreeRequests |-> IF r = "r1" THEN {"upload"} ELSE {"question"}]

Reader == "reader"
Uploader == "uploader"
TwoRoles == {Reader, Uploader}
DefaultRoles == (Reader :> {"question"}) @@ (Uploader :> {"question", "upload"})
=============================================================================
