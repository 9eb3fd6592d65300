------------------------------ MODULE DbmValues -------------------------------
(***************************************************************************)
(* What include/dbm/fed.h promises of dbm_t: a handle is a value.  A call  *)
(* changes the handle it is made on, by what it computes from this handle  *)
(* and its argument, and no other handle.  Sharing does not appear.        *)
(***************************************************************************)
EXTENDS IntervalZones

CONSTANT Handle  \* the dbm_t of the program

VARIABLE value  \* a dimension and a zone, {} for an empty dbm_t

vars == value

Init == value \in [Handle -> [dim : Dims, zone : {{}}]]

-----------------------------------------------------------------------------

Get(h, zone) == value' = [value EXCEPT ![h].zone = zone]

Transform(h, op) ==
  /\ Applies(op, value[h].dim, value[h].zone)
  /\ Get(h, Image(op, value[h].dim, value[h].zone))

Constrain(h, zone) ==
  /\ zone \in Zones(value[h].dim)
  /\ Get(h, value[h].zone \cap zone)

SetValue(h, zone) == zone \in Zones(value[h].dim) /\ Get(h, zone)

SetDimension(h, dim) == value' = [value EXCEPT ![h] = [dim |-> dim, zone |-> {}]]

Assign(h, arg) == value' = [value EXCEPT ![h] = value[arg]]

Intersection(h, arg) ==
  /\ value[h].dim = value[arg].dim
  /\ Get(h, value[h].zone \cap value[arg].zone)

ConvexUnion(h, arg) ==
  /\ value[h].dim = value[arg].dim
  /\ Get(h, IF value[h].zone \cup value[arg].zone = {} THEN {}
            ELSE Hull(value[h].zone \cup value[arg].zone))

ChangeClocks(h, dim, zone) ==
  /\ zone \in IF value[h].zone = {} THEN {{}}
              ELSE Resized(value[h].dim, value[h].zone, dim)
  /\ value' = [value EXCEPT ![h] = [dim |-> dim, zone |-> zone]]

Next ==
  \E h \in Handle :
    \/ \E op \in LazyOps \cup CopyOps : Transform(h, op)
    \/ \E zone \in AllZones : Constrain(h, zone) \/ SetValue(h, zone)
    \/ \E dim \in Dims : SetDimension(h, dim)
    \/ \E dim \in NewDims, zone \in AllZones \cup {{}} : ChangeClocks(h, dim, zone)
    \/ \E arg \in Handle : Assign(h, arg) \/ Intersection(h, arg) \/ ConvexUnion(h, arg)

Spec == Init /\ [][Next]_vars

=============================================================================
