------------------------------- MODULE MCZones -------------------------------
(***************************************************************************)
(* Small instances of Zones.  Zone ids are used up as zones are created,   *)
(* which bounds the model; the two sessions are interchangeable, and so    *)
(* are the zones other than the first.                                     *)
(***************************************************************************)
EXTENDS Zones, TLC

Symmetry == Permutations(Session) \cup Permutations(Zone \ {FirstZone})

=============================================================================
