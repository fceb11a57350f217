--------------------------------- MODULE Geo ---------------------------------
(***************************************************************************)
(* Points and distances (geo/geo.go).  Degrees are whole.                  *)
(***************************************************************************)
EXTENDS Integers

\* geo.Coordinates.Validate
Validate(c) == c.latitude \in -90..90 /\ c.longitude \in -180..180

\* The unit that stands for a missing one.
NewDistance(d) == [value |-> d.value, unit |-> IF d.unit = "" THEN "KM" ELSE d.unit]

\* In tenths of a millimetre, so that the four units are integers.
Kilometre == 10000000
Mile      == 16093440
Foot      == 3048
Metre     == 10000

UnitLength(unit) ==
    IF unit \in {"", "KM"} THEN Kilometre
    ELSE IF unit = "MILE" THEN Mile ELSE IF unit = "FEET" THEN Foot ELSE Metre

Meters(distance) == distance.value * UnitLength(distance.unit)
=============================================================================
