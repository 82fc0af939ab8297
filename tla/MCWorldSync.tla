---------------------------- MODULE MCWorldSync ------------------------------
(***************************************************************************)
(* What the tests of the repository say of the state of the world.         *)
(***************************************************************************)
EXTENDS WorldSync

(* oms/tests/omstest.cpp:157: a target that has deserialized the changes   *)
(* of a source has as many objects as the source.                          *)
TargetAsLarge ==
  orderly /\ last > 0 =>
    \A update \in net :
      update.no = last => Cardinality(DOMAIN world) = Cardinality(update.view)
==============================================================================
