--------------------------- MODULE MCGroupCommit ---------------------------
(* Small instances of GroupCommit for TLC: one contested token, an         *)
(* uncontested fact, and the patches that put and take them.               *)
EXTENDS GroupCommit

CONSTANTS token

(* Seed the token unguarded; take it only while it is there. *)
PutToken  == [pre |-> {}, upd |-> [f \in Facts |-> 1]]
TakeToken == [pre |-> Facts, upd |-> [f \in Facts |-> -1]]
TokenPatches == {PutToken, TakeToken}
============================================================================
