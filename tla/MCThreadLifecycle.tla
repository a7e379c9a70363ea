-------------------------- MODULE MCThreadLifecycle --------------------------
(* ThreadLifecycle for TLC: three starts, exceptions from every place.       *)
EXTENDS ThreadLifecycle

AllPlaces == Places
=============================================================================
