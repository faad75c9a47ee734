------------------------ MODULE MCGlobalFinalization ------------------------
(* TLC instances of GlobalFinalization: which heights get a certificate of  *)
(* their own and which frames fail authentication.                          *)
EXTENDS GlobalFinalization

NoFrames == {}
SecondFrame == {Main(2)}
=============================================================================
