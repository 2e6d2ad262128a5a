--------------------------- MODULE MCCountryBans ---------------------------
(* Instances of CountryBans for TLC.                                       *)
EXTENDS CountryBans

\* One country of two chunks, the second one short; and one the database
\* does not know.
OneSize  == [c \in Countries |-> 3]
TwoSizes == [c \in Countries |-> IF c = "BR" THEN 3 ELSE 0]
=============================================================================
