---------------------------- MODULE MCCourierSync ----------------------------
(* CourierSync on small instances: an unreadable operation stands between two *)
(* scans, and three operations never fit in one upload.                       *)
EXTENDS CourierSync

MCKinds    == <<"ILLISIBLE", "SCAN", "OPERATION">>
MCTwoKinds == <<"SCAN", "OPERATION">>
=============================================================================
