--------------------------- MODULE MCWindowManager ---------------------------
(* Three windows in every relation; subscribers that call back.              *)
EXTENDS WindowManager

Structural == {"create", "destroy"}
Closing == {"asking", "closed"}
==============================================================================
