--------------------------- MODULE MCCrossDomain ---------------------------
(***************************************************************************)
(* Domain a has a patch that takes the one lamp and mails domain b, one    *)
(* that wants the lamp and mails nobody outside, one that only mails b,    *)
(* and two passes over its outbox; domain c mails b under the numbers a    *)
(* uses.                                                                   *)
(***************************************************************************)
EXTENDS CrossDomain

To(inbox, body) == [inbox |-> inbox, body |-> body]
Patch(pre, adds, dels, emits) == [pre |-> pre, adds |-> adds, dels |-> dels, emits |-> emits]
Lamp == <<"lamp">>

MCRoutes ==
  [d \in {"a", "b", "c"} |-> IF d = "b" THEN << >> ELSE [i \in {"ib"} |-> "b"]]
MCJob ==
  [c1 |-> Patch({Lamp}, {<<"got", 1>>}, {Lamp}, <<To("ib", "m1"), To("ia", "l1")>>),
   c2 |-> Patch({Lamp}, {<<"got", 2>>}, {Lamp}, <<To("ia", "l2")>>),
   c3 |-> Patch({}, {}, {}, <<To("ib", "m3")>>),
   c4 |-> Patch({}, {}, {}, <<To("ib", "m4")>>)]
MCHome ==
  [c1 |-> "a", c2 |-> "a", c3 |-> "a", c4 |-> "c",
   f1 |-> "a", f2 |-> "a", f3 |-> "c", r1 |-> "b"]
MCWorld == [d \in {"a", "b", "c"} |-> IF d = "a" THEN {Lamp} ELSE {}]
============================================================================
