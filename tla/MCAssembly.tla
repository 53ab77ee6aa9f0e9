------------------------------ MODULE MCAssembly ------------------------------
(***************************************************************************)
(* Small instances of Assembly.  Snapshots of up to three exchanges over   *)
(* two operations and two statuses; t1 and t2 are types of two test files  *)
(* that each refer to a subschema of the same name.                        *)
(***************************************************************************)
EXTENDS Assembly, TLC

CONSTANTS get, post, s200, s404, v1, v2, t1, t2, bearerAuth, apiKeyAuth,
          Address, street, postbox

MCOp     == {get, post}
MCStatus == {s200, s404}
MCSample == {v1, v2}
MCType   == {t1, t2}
MCScheme == {bearerAuth, apiKeyAuth}
MCName   == {Address}
MCDef    == {street, postbox}
MCDefsOf == (t1 :> {<<Address, street>>}) @@ (t2 :> {<<Address, postbox>>})
\* Bodies, counts and statuses of one operation, with one security scheme.
Evidence ==
  {x \in [op : {get}, status : MCStatus \cup {None}, request : {v1, None},
          response : {v1, v2, None}, declared : {None}, security : {None, bearerAuth}] :
     x.status = None => x.response = None}

\* Declarations and security schemes over two operations.
Declarations ==
  [op : MCOp, status : {s200}, request : {None}, response : {v1},
   declared : MCType \cup {None}, security : {None, bearerAuth, apiKeyAuth}]

MCInput == Evidence \cup Declarations
===============================================================================
