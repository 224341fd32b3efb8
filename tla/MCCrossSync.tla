---------------------------- MODULE MCCrossSync ----------------------------
(***************************************************************************)
(* Instances of CrossSync for TLC: three regions in a full mesh, the       *)
(* events of post p1 at home in region a, one of p2 in region b.           *)
(***************************************************************************)
EXTENDS CrossSync

CONSTANTS p1, p2, t1, a, b, c, create, update, delete, createB

Typed(type) ==
  [type |-> type, uid |-> p1, category |-> "TIER_2", visibility |-> "GLOBAL",
   consent |-> TRUE, media |-> FALSE, count |-> FALSE]

MCEvent ==
  [e \in EventIds |->
     CASE e = create -> Typed("POST_CREATED")
       [] e = update -> Typed("POST_UPDATED")
       [] e = createB -> [Typed("POST_CREATED") EXCEPT !.uid = p2]
       [] OTHER      -> Typed("POST_DELETED")]

FullMesh == [r \in Regions |-> Regions \ {r}]

HomeRegion == [e \in EventIds |-> IF e = createB THEN b ELSE a]

\* create, update, delete, in this order.
InOrder ==
  [e \in EventIds |->
     CASE e \in {create, createB} -> {}
       [] e = update -> {create}
       [] OTHER      -> {create, update} \cap EventIds]
=============================================================================
