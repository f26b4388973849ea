----------------------------- MODULE MCServices ------------------------------
(* Services with two services and the lists of ports they may have.        *)
EXTENDS Services

(* web comes and goes with either of its two ports, api with its one. *)
Changing ==
  [s \in {"web", "api"} |-> IF s = "web" THEN {<<80>>, <<80, 443>>, <<443>>}
                           ELSE {<<8080>>, <<>>}]

(* A port may go from api to web.                                          *)
Moving ==
  [s \in {"web", "api"} |-> IF s = "web" THEN {<<80>>, <<80, 443>>}
                           ELSE {<<443>>, <<8080>>}]

WebFirst == <<"web", "api">>
=============================================================================
