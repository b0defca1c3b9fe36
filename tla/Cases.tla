------------------------------- MODULE Cases --------------------------------
(***************************************************************************)
(* The base of the modules about pure functions.  A behaviour is one case, *)
(* an input the program can be given; a property says what the function    *)
(* makes of it.  case.area names the function's module.                    *)
(***************************************************************************)

VARIABLE case

Next == UNCHANGED case

\* The implication keeps a property from reading the fields of another area's cases.
About(area) == case.area = area
=============================================================================
