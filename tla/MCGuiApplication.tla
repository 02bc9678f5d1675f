--------------------------- MODULE MCGuiApplication ---------------------------
(* The coordinator and one service of the application.                       *)
EXTENDS GuiApplication

MCThread == {Caller, Ender, User}
MCCode == {0, FailureCode}
===============================================================================
