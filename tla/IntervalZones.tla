---------------------------- MODULE IntervalZones -----------------------------
(***************************************************************************)
(* The zones that the models of sharing move around.  Dimension 2 stands   *)
(* for every dimension above 1: its zones are those of one clock,          *)
(* intervals of Points.  Dimension 1 has no clock and one non-empty zone.  *)
(***************************************************************************)
EXTENDS Integers, FiniteSets, FiniteSetsExt

CONSTANTS
  MaxPoint,  \* the clock of dimension 2 is at most this
  NewDims    \* dimensions that resize and changeClocks ask for

ASSUME PointAssumption == MaxPoint \in Nat
ASSUME DimsAssumption == NewDims \subseteq {1, 2}

Dims == {1, 2}
Points == 0 .. MaxPoint

Interval(lo, hi) == {p \in Points : lo <= p /\ p <= hi}

Zones(dim) ==
  IF dim = 1 THEN {{0}}
  ELSE {Interval(lo, hi) : lo, hi \in Points} \ {{}}

AllZones == UNION {Zones(dim) : dim \in Dims}

dbm_init(dim) == IF dim = 1 THEN {0} ELSE Points

Hull(S) == Interval(Min(S), Max(S))

\* Operations on the clock of a zone: the first ones never empty it.
LazyOps == {<<"up", 0>>, <<"down", 0>>, <<"freeClock", 0>>} \cup ({"updateValue"} \X Points)
CopyOps == {<<"tightenDown", 0>>, <<"tightenUp", 0>>, <<"updateIncrement", 1>>}

\* MaxPoint bounds the model, not the code: a clock does not go above it.
Applies(op, dim, zone) ==
  /\ zone # {}
  /\ op[1] \in {"freeClock", "updateValue", "updateIncrement"} => dim > 1
  /\ op[1] = "updateIncrement" => Max(zone) < MaxPoint

Image(op, dim, zone) ==
  IF dim = 1 THEN zone
  ELSE CASE op[1] = "up" -> Interval(Min(zone), MaxPoint)
         [] op[1] = "down" -> Interval(0, Max(zone))
         [] op[1] = "freeClock" -> Points
         [] op[1] = "updateValue" -> {op[2]}
         [] op[1] = "updateIncrement" -> {p + op[2] : p \in zone}
         [] op[1] = "tightenDown" -> zone \ {Min(zone)}
         [] op[1] = "tightenUp" -> zone \ {Max(zone)}

\* The zones of a dbm_t whose clocks are changed: the clock is kept, or is another.
Resized(old, zone, dim) ==
  IF old = 2 /\ dim = 2 THEN {zone, Points} ELSE {dbm_init(dim)}

=============================================================================
