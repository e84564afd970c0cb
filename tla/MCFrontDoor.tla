------------------------------ MODULE MCFrontDoor ------------------------------
(***************************************************************************)
(* The stores of MCResolver behind a front door.                           *)
(***************************************************************************)
EXTENDS FrontDoor, MCResolver

\* The private resource with its salt, without it, with an unusable one, and rootless.
DoorUrns == SaltUrns \cup {Urn(private, NoRoot, s)}
=============================================================================
