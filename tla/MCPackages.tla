----------------------------- MODULE MCPackages -----------------------------
(***************************************************************************)
(* Sources of one small world: as it was installed, with columns added,    *)
(* with a clashing relation, with actors, as a program without a package,  *)
(* and with the faults that loading looks for; and what a host allows.     *)
(***************************************************************************)
EXTENDS Packages

V(v) == <<"value", v>>
E(name) == <<"entity", name>>
Range2(name, counter, first, last) ==
  [kind |-> "allocate", name |-> name, counter |-> counter, first |-> first, last |-> last]
Stream == [kind |-> "random", name |-> "rolls", state |-> "rng", owner |-> "WORLD", algorithm |-> "xorshift64star_v1"]
Clock == [kind |-> "schedule", name |-> "clock", clock |-> "ticks", timers |-> "timers", sequences |-> "seqs"]

World ==
  [package |-> <<[id |-> Text(1), version |-> 1]>>,
   entities |-> <<<<"WORLD", 1>>>>,
   rels |-> <<<<"named", <<"Ent", "Text">>>>, <<"next", <<"Int">>>>, <<"notes", <<"Ent">>>>>>,
   views |-> << >>, handlers |-> << >>, authorities |-> << >>, actors |-> << >>,
   requires |-> <<Range2("ids", "next", 2, 3)>>,
   bootstrap |-> <<<<<<"named", <<E("WORLD"), V(Text(1))>>>>, <<"next", <<V(Num(2))>>>>>>>>,
   writes |-> {<<"notes", <<Ent(4)>>>>}]

(* A column more where nothing was seeded, so that the marker is the same; *)
(* and a new version of the package, with a column more.                   *)
Noted ==
  [World EXCEPT !.rels[3] = <<"notes", <<"Ent", "Text">>>>, !.writes = {<<"notes", <<Ent(4), Text(2)>>>>}]
Second == [Noted EXCEPT !.package[1].version = 2]

(* Another package, that has a relation of the same name. *)
Clash ==
  [World EXCEPT !.package[1].id = Text(2), !.rels = <<<<"notes", <<"Text">>>>, <<"next", <<"Int">>>>>>,
                !.bootstrap = <<<<<<"next", <<V(Num(2))>>>>>>>>, !.writes = {<<"notes", <<Text(3)>>>>}]

(* A program with a stored view, and no package. *)
Plain ==
  [World EXCEPT !.package = << >>, !.bootstrap = << >>, !.requires = << >>,
     !.views = <<[name |-> "all", copy |-> "view:all", columns |-> <<"Ent">>, vars |-> {"x"}, bound |-> TRUE,
                  typed |-> TRUE, materialized |-> TRUE,
                  atoms |-> {[rel |-> "notes", arity |-> 1, inherit |-> FALSE]}]>>]

(* An actor with one message waiting. *)
Peopled ==
  [World EXCEPT
     !.entities = <<<<"WORLD", 1>>, <<"CAT", 5>>>>,
     !.rels = <<<<"ticks", <<"Int", "Int", "Int">>>>, <<"timers", <<"Int", "Int", "Ent", "Text">>>>,
                <<"seqs", PositionColumns>>, <<"inbox", InboxColumns>>, <<"cursor", PositionColumns>>,
                <<"next", <<"Int">>>>, <<"rng", PositionColumns>>>>,
     !.views = Plain.views, !.views[1].atoms = {[rel |-> "seqs", arity |-> 2, inherit |-> FALSE]},
     !.requires = <<Range2("ids", "next", 2, 3), Stream, Clock>>,
     !.authorities = <<<<"cat", <<"cursor", "timers">>>>>>,
     !.actors = <<[entity |-> "CAT", inbox |-> "inbox", cursor |-> "cursor", authority |-> "cat"]>>,
     !.handlers = <<[inbox |-> "inbox", vars |-> {"w"}, balanced |-> TRUE, sound |-> TRUE,
                     writes |-> {"cursor", "timers"}, sends |-> {"CAT"}]>>,
     !.bootstrap = <<<<<<"next", <<V(Num(2))>>>>, <<"rng", <<E("WORLD"), V(Num(7))>>>>,
                       <<"seqs", <<E("CAT"), V(Num(1))>>>>, <<"inbox", <<E("CAT"), V(Num(0)), V(Text(1))>>>>>>>>,
     !.writes = {}]

(* Faults. *)
Overlapping ==
  [World EXCEPT !.rels = Append(@, <<"next2", <<"Int">>>>), !.requires = Append(@, Range2("more", "next2", 2, 4)),
                !.bootstrap[1] = Append(@, <<"next2", <<V(Num(2))>>>>)]
Gapped == [Peopled EXCEPT !.bootstrap[1][4] = <<"inbox", <<E("CAT"), V(Num(1)), V(Text(1))>>>>]
Twice == [World EXCEPT !.rels = Append(@, <<"named", <<"Ent">>>>)]

MCSources == <<World, Noted, Second, Clash, Plain, Peopled, Overlapping, Gapped, Twice>>

Grants ==
  {[kind |-> "allocate", name |-> "ids", counter |-> "next", first |-> 1, last |-> 4],
   [kind |-> "allocate", name |-> "more", counter |-> "next2", first |-> 1, last |-> 4],
   [Stream EXCEPT !.owner = "WORLD"],
   [kind |-> "schedule", name |-> "clock", clock |-> "ticks", timers |-> "timers", sequences |-> "seqs", targets |-> {"CAT"}]}
Everything == {"ticks", "timers", "seqs", "inbox", "cursor"}
Authority(owns) == [domain |-> 0, owns |-> owns]
MCHosts == <<[grants |-> Grants, driver |-> Authority(Everything), actors |-> <<<<"CAT", Authority({"cursor", "timers"})>>>>]>>
=============================================================================
