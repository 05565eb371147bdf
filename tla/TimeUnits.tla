----------------------------- MODULE TimeUnits ------------------------------
(* Generated times are floating point numbers of microseconds: here they    *)
(* are integers in units of 1/Fraction microsecond.  A driver's clock counts *)
(* whole microseconds.                                                      *)
EXTENDS Integers

CONSTANTS
  Fraction,          \* generated time units per microsecond
  MicrosPerSecond,   \* 1 000 000 in the code
  SecondsPerMinute,  \* 60 in the code
  Unit               \* a unit of a trace, which is a minute or a second

ASSUME TimeAssumption == {Fraction, MicrosPerSecond, SecondsPerMinute, Unit} \subseteq Nat \ {0}

second == MicrosPerSecond * Fraction
minute == SecondsPerMinute * second
=============================================================================
