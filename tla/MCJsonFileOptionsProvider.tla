----------------------- MODULE MCJsonFileOptionsProvider -----------------------
(* One or two documents the options accept.                                  *)
EXTENDS JsonFileOptionsProvider
CONSTANTS one, two

MCGood == {one, two}
===============================================================================
