---------------------------- MODULE MCLicensing -----------------------------
(***************************************************************************)
(* Small instances of Licensing: one user and the deadlines the provider   *)
(* may send.                                                               *)
(***************************************************************************)
EXTENDS Licensing

CONSTANT u1

OneWindow == {<<1, 2>>}
TwoWindows == {<<1, 2>>, <<2, 3>>}
=============================================================================
