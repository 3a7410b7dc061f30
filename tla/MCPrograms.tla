------------------------------ MODULE MCPrograms ------------------------------
(* The subset sizes, the points and the curves of the instance that         *)
(* programs.cfg describes.                                                  *)
EXTENDS Programs
MCSizes == <<1, 2>>
MCPoints == <<0, 1, 3>>
MCGaps == {<<"r1", 1>>, <<"r2", 2>>}
MCCurves == {<<0, 2, 1>>, <<3, 0, 2>>}
===============================================================================
