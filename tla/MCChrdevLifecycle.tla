------------------------ MODULE MCChrdevLifecycle ------------------------
(* An instance of ChrdevLifecycle for TLC: all five drivers, two CPUs.       *)
EXTENDS ChrdevLifecycle

AllDrivers == Names
=============================================================================
