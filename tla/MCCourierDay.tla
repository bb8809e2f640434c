----------------------------- MODULE MCCourierDay -----------------------------
(* CourierDay with one parcel, taken out a second time the next day.           *)
EXTENDS CourierDay
=============================================================================
