----------------------------- MODULE MCGeocode ------------------------------
(* Two threads of one process, an address with two candidates, the shorter   *)
(* one on its own, and a point.                                              *)
EXTENDS Geocode

MCProcess == {"api"}
MCThread == {"t1", "t2"}
MCProcessOf == [w \in MCThread |-> "api"]
MCAddress == {"venue", "area"}
MCSpot == {"point"}
MCCandidates == {<<"venue", "area">>, <<"area">>}
=============================================================================
