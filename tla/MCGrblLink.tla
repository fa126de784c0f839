------------------------------ MODULE MCGrblLink ------------------------------
(* GrblLink for TLC: the sets the configurations choose from. *)
EXTENDS GrblLink

None == {}
Hold == {"hold"}
AllRequests == {"hold", "resume", "reset"}
Everything == {"error", "ALARM", "banner"}
OneLine == {1}
TwoLines == {2}
OneOrTwo == {1, 2}
FirstLine == {1}
SecondLine == {2}
===============================================================================
