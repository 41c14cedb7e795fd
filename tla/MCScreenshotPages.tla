--------------------------- MODULE MCScreenshotPages ---------------------------
(* ScreenshotPages for TLC: two employees of two departments, three screenshots. *)
EXTENDS ScreenshotPages

TwoEmployees == <<"ann", "bob">>
TwoDepts == [ann |-> "dev", bob |-> "ops"]
ThreeShots == [ann |-> <<"a3", "a2", "a1">>, bob |-> <<"b1">>]
Images == [a1 |-> "plain", a2 |-> "api2", a3 |-> "api3", b1 |-> NoUri]
==============================================================================
