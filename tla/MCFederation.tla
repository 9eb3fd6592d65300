---------------------------- MODULE MCFederation ----------------------------
(* Instances of Federation for TLC. *)
EXTENDS Federation, TLC

Zone(l, u, d) ==
  dbm_close((0 :> (0 :> 1 @@ 1 :> l[1] @@ 2 :> l[2]))
         @@ (1 :> (0 :> u[1] @@ 1 :> 1 @@ 2 :> d[1]))
         @@ (2 :> (0 :> u[2] @@ 1 :> d[2] @@ 2 :> 1)))

Inf == dbm_LS_INFINITY
Free == <<Inf, Inf>>

\* Squares that touch, with and without their borders, which have a convex union or leave
\* a hole; three zones of which no two have a convex union, but all together do; a
\* diagonal, a zone without upper bounds, and one around all the others.
LeftBelow == Zone(<<1, 1>>, <<3, 3>>, Free)
RightBelow == Zone(<<-1, 1>>, <<5, 3>>, Free)
LeftAbove == Zone(<<1, -1>>, <<4, 5>>, Free)
RightAbove == Zone(<<-2, -1>>, <<5, 5>>, Free)
Upper == Zone(<<1, -1>>, <<5, 5>>, <<1, Inf>>)
Lower == Zone(<<-1, 1>>, <<5, 5>>, <<Inf, 1>>)
Diagonal == Zone(<<1, 1>>, <<5, 5>>, <<1, 1>>)
Above == Zone(<<-1, -2>>, Free, <<3, Inf>>)
All == Zone(<<1, 1>>, <<5, 5>>, Free)

MCZones == {LeftBelow, RightBelow, LeftAbove, RightAbove, Upper, Lower, Diagonal, Above, All}

MCArgs ==
  {<<>>} \cup {<<D>> : D \in MCZones}
    \cup {<<LeftBelow, RightAbove>>, <<Diagonal, Lower>>, <<Upper, RightBelow>>,
          <<Above, LeftAbove>>}

MCRestrictions == {All, Lower, Diagonal, LeftBelow}

MCBounds == {-2, 1, 4}

=============================================================================
