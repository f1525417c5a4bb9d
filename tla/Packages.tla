------------------------------ MODULE Packages ------------------------------
(***************************************************************************)
(* World packages (crates/grmpl-lang/src/package.rs) and the runtime that  *)
(* opens them on a store (crates/grmpl-session/src/runtime.rs): the checks *)
(* of a package's declarations, the durable names of its relations, the    *)
(* registry of schemas, the bootstrap and its marker, and the runtimes     *)
(* that commit between one load and the next.  Each name and each schema   *)
(* is durable on its own, so that a load may be refused, or its process    *)
(* die, after any of them.  Loading is done by one process at a time and   *)
(* beside no other work, as the code asks of its host.                     *)
(*                                                                         *)
(* A source is a record of its declarations, in source order but for the   *)
(* views, which are in the order of their names; a schema is the sequence  *)
(* of its columns' types, and the body of a message a text.                *)
(***************************************************************************)
EXTENDS Values, SequencesExt

CONSTANTS
  Sources,    (* the package sources, numbered                            *)
  Hosts,      (* what a host allows: grants and authorities, by name      *)
  Bases,      (* the first ids hosts give relations                       *)
  Marker, Cursor,   (* the reserved names of the marker and the cursors   *)
  MaxLoads, MaxCrashes, MaxPlays

(* What the parser has seen to: declarations come in a list, columns have  *)
(* types, an id and a version are a text and an integer, and a declared    *)
(* name is no reserved one (it holds no colon).                            *)
ColumnTypes == {"Any", "Ent", "Int", "Text", "Bool", "Code"}
Listed(s) == Len(s) \in Nat /\ s = [i \in 1 .. Len(s) |-> s[i]]
Parsed(p) ==
  /\ Listed(p.rels)
  /\ \A i \in DOMAIN p.rels : p.rels[i][1] \notin {Marker, Cursor} /\ p.rels[i][2] \in Seq(ColumnTypes)
  /\ Listed(p.views) /\ \A i \in DOMAIN p.views : p.views[i].columns \in Seq(ColumnTypes)
  /\ Listed(p.package)
  /\ \A i \in DOMAIN p.package :
       AdmitsValue("Text", p.package[i].id) /\ AdmitsValue("Int", Num(p.package[i].version))

ASSUME PackagesAssumption ==
  /\ DOMAIN Sources \subseteq Nat /\ Bases \subseteq Nat /\ Marker # Cursor
  /\ \A s \in DOMAIN Sources : Parsed(Sources[s])

VARIABLES
  catalog,   (* the id of each name that has one                          *)
  schemas,   (* the versions of each relation's schema, oldest first      *)
  facts,     (* the rows of the world, each with the edition it came at   *)
  edition,   (* the current edition                                       *)
  load,      (* the load under way, none or one                           *)
  open,      (* the runtimes that are open                                *)
  budget,    (* how many loads, crashes and plays are left                *)
  made       (* the ids handed out, in order                              *)

store == <<catalog, schemas, facts, edition>>
vars == <<catalog, schemas, facts, edition, load, open, budget, made>>

Name(d) == d[1]
Names(s) == [i \in DOMAIN s |-> Name(s[i])]
Distinct(s) == \A i, j \in DOMAIN s : s[i] = s[j] => i = j
Found(s, name) == \E i \in DOMAIN s : Name(s[i]) = name
ValueAt(s, name) == s[CHOOSE i \in DOMAIN s : Name(s[i]) = name][2]

-----------------------------------------------------------------------------
(* The declarations that are checked before anything is written.           *)

Required(p, kind) == {i \in DOMAIN p.requires : p.requires[i].kind = kind}
Apart(a, b) == a.last < b.first \/ b.last < a.first

HeaderOk(p) == Len(p.package) = 1

EntitiesOk(p) ==
  /\ \A i \in DOMAIN p.entities : p.entities[i][2] \in Nat
  /\ Distinct(Names(p.entities))
  /\ Distinct([i \in DOMAIN p.entities |-> p.entities[i][2]])

(* The successor of a range's last id is an integer still. *)
RangeOk(p, r) ==
  /\ 0 <= r.first /\ r.first <= r.last /\ r.last # IntMax
  /\ \A i \in DOMAIN p.entities : p.entities[i][2] \notin r.first .. r.last

RequirementsOk(p) ==
  /\ \A i \in Required(p, "allocate") : RangeOk(p, p.requires[i])
  /\ \A i, j \in Required(p, "allocate") : i # j => Apart(p.requires[i], p.requires[j])
  /\ \A i \in Required(p, "random") : Found(p.entities, p.requires[i].owner)
  /\ Distinct([i \in DOMAIN p.requires |-> p.requires[i].name])

AuthoritiesOk(p) ==
  Distinct(Names(p.authorities)) /\ \A i \in DOMAIN p.authorities : Distinct(p.authorities[i][2])

-----------------------------------------------------------------------------
(* The program: its relations, its views and what its capabilities name.   *)

Declares(p, rel) == Found(p.rels, rel)
HasColumns(p, rel, columns) == Declares(p, rel) /\ ValueAt(p.rels, rel) = columns

StateRelation(r) == CASE r.kind = "allocate" -> r.counter [] r.kind = "random" -> r.state [] OTHER -> r.timers

(* Where an atom inherits, its arity is checked only when it is evaluated. *)
ViewsOk(p) ==
  \A i \in DOMAIN p.views : LET v == p.views[i] IN
    /\ \A a \in v.atoms : Declares(p, a.rel) /\ (a.inherit \/ a.arity = Len(ValueAt(p.rels, a.rel)))
    /\ v.materialized => v.bound

Materialized(p) ==
  LET among[n \in 0 .. Len(p.views)] ==
        IF n = 0 THEN << >>
        ELSE among[n - 1] \o (IF p.views[n].materialized THEN <<p.views[n]>> ELSE << >>)
  IN among[Len(p.views)]

(* A stored view's relation, and the one of all their cursors. *)
CopyNames(p) ==
  LET views == Materialized(p) IN
  IF views = << >> THEN << >> ELSE <<Cursor>> \o [i \in DOMAIN views |-> views[i].copy]

ProgramOk(p) ==
  /\ \A i \in DOMAIN p.requires : Declares(p, StateRelation(p.requires[i]))
  /\ Distinct([i \in DOMAIN p.requires |-> p.requires[i].name])
  /\ \A i \in DOMAIN p.handlers : p.handlers[i].balanced

(* A view's and a handler's variables are no entity constants, nor is self.*)
NamespaceOk(p) ==
  \A i \in DOMAIN p.entities :
    /\ Name(p.entities[i]) # "self"
    /\ \A k \in DOMAIN p.views : Name(p.entities[i]) \notin p.views[k].vars
    /\ \A k \in DOMAIN p.handlers : Name(p.entities[i]) \notin p.handlers[k].vars

-----------------------------------------------------------------------------
(* The declarations that are checked when the names are bound already.     *)

InboxColumns == <<"Ent", "Int", "Text">>
PositionColumns == <<"Ent", "Int">>

ShapeOk(p, r) ==
  CASE r.kind = "allocate" -> HasColumns(p, r.counter, <<"Int">>)
    [] r.kind = "random" -> r.algorithm = "xorshift64star_v1" /\ HasColumns(p, r.state, PositionColumns)
    [] OTHER -> /\ HasColumns(p, r.clock, <<"Int", "Int", "Int">>)
                /\ HasColumns(p, r.timers, <<"Int", "Int", "Ent", "Text">>)
                /\ HasColumns(p, r.sequences, PositionColumns)

ShapesOk(p) ==
  /\ \A i \in DOMAIN p.requires : ShapeOk(p, p.requires[i])
  /\ \A i, j \in Required(p, "allocate") : p.requires[i].counter = p.requires[j].counter => i = j

(* A value of the bootstrap is an entity's name or a value as it is. *)
Lowered(p, v) == IF v[1] = "entity" THEN Ent(ValueAt(p.entities, v[2])) ELSE v[2]
Row(p, f) == [i \in DOMAIN f[2] |-> Lowered(p, f[2][i])]
Seeds(p) == {<<f[1], Row(p, f)>> : f \in Range(p.bootstrap[1])}
SeedsOf(p, rel) == {f[2] : f \in {s \in Seeds(p) : s[1] = rel}}
SeedsFor(p, rel, e) == {t \in SeedsOf(p, rel) : t[1] = Ent(e)}

BootstrapOk(p) ==
  /\ Len(p.bootstrap) = 1
  /\ \A f \in Range(p.bootstrap[1]) :
       /\ Declares(p, f[1])
       /\ \A i \in DOMAIN f[2] : f[2][i][1] = "entity" => Found(p.entities, f[2][i][2])
       /\ Conforms(ValueAt(p.rels, f[1]), Row(p, f))
  /\ Cardinality(Seeds(p)) = Len(p.bootstrap[1])

(* Each counter starts at its range's first id, each stream at a nonzero   *)
(* state.                                                                  *)
SeedOk(p, r) ==
  CASE r.kind = "allocate" -> SeedsOf(p, r.counter) = {<<Num(r.first)>>}
    [] r.kind = "random" ->
         \E t \in SeedsOf(p, r.state) :
           SeedsFor(p, r.state, ValueAt(p.entities, r.owner)) = {t} /\ t[2] # Num(0)
    [] OTHER -> TRUE

SequenceRelations(p) == {p.requires[i].sequences : i \in Required(p, "schedule")}

(* Defect: the messages seeded may leave numbers out. *)
BugSeededInbox(rows, next) == \A t \in rows : IntOf(t[2]) \in 0 .. next

(* An actor's seeded messages are numbered from 0 up to its counter. *)
SeededInbox(rows, next) == Cardinality(rows) = next /\ {IntOf(t[2]) : t \in rows} = 0 .. next - 1

ActorOk(p, a) ==
  LET e == ValueAt(p.entities, a.entity) IN
  /\ Found(p.entities, a.entity) /\ Found(p.authorities, a.authority)
  /\ HasColumns(p, a.inbox, InboxColumns) /\ HasColumns(p, a.cursor, PositionColumns)
  /\ \E i \in DOMAIN p.handlers : p.handlers[i].inbox = a.inbox
  /\ \E sequences \in SequenceRelations(p) : \E t \in SeedsFor(p, sequences, e) :
       LET cursors == SeedsFor(p, a.cursor, e)
           next == IntOf(t[2])
       IN /\ SeedsFor(p, sequences, e) = {t} /\ next >= 0
          /\ SeededInbox(SeedsFor(p, a.inbox, e), next)
          /\ Cardinality(cursors) <= 1 /\ \A c \in cursors : IntOf(c[2]) \in 0 .. next

ActorsOk(p) ==
  /\ \A i \in DOMAIN p.authorities : \A rel \in Range(p.authorities[i][2]) : Declares(p, rel)
  /\ p.actors # << >> => Cardinality(SequenceRelations(p)) = 1
  /\ Distinct([i \in DOMAIN p.actors |-> p.actors[i].entity])
  /\ \A i \in DOMAIN p.actors : ActorOk(p, p.actors[i])

(* The host's grant contains what is required, and a schedule's allowlist  *)
(* every actor some handler sends to.                                      *)
Granted(p, r, g) ==
  /\ g.kind = r.kind /\ g.name = r.name
  /\ CASE r.kind = "allocate" -> g.counter = r.counter /\ g.first <= r.first /\ r.last <= g.last
       [] r.kind = "random" -> g.state = r.state /\ g.owner = r.owner /\ g.algorithm = r.algorithm
       [] OTHER -> /\ g.clock = r.clock /\ g.timers = r.timers /\ g.sequences = r.sequences
                   /\ \A i \in DOMAIN p.handlers :
                        p.handlers[i].sends \subseteq g.targets \cap {p.actors[k].entity : k \in DOMAIN p.actors}

GrantsOk(p, host) == \A i \in DOMAIN p.requires : \E g \in host.grants : Granted(p, p.requires[i], g)

BehavioursOk(p) == \A i \in DOMAIN p.handlers : p.handlers[i].sound

PackageOk(p, host) ==
  ShapesOk(p) /\ BehavioursOk(p) /\ BootstrapOk(p) /\ (\A i \in DOMAIN p.requires : SeedOk(p, p.requires[i]))
    /\ ActorsOk(p) /\ GrantsOk(p, host)

(* The types of the views. *)
TypesOk(p) == \A i \in DOMAIN p.views : p.views[i].typed

(* The authorities of a driven package, resolved and compared with what    *)
(* its actors ask for and its handlers write.                              *)
DrivenOk(p, host) ==
  LET schedules == {p.requires[i] : i \in Required(p, "schedule")}
      resolves(a) == \A rel \in a.owns : Declares(p, rel)
  IN /\ Cardinality(schedules) = 1 /\ resolves(host.driver)
     /\ \A s \in schedules : {s.clock, s.timers, s.sequences} \subseteq host.driver.owns
     /\ \A i \in DOMAIN p.actors : LET a == p.actors[i] IN
          /\ a.inbox \in host.driver.owns
          /\ Found(host.actors, a.entity)
          /\ LET authority == ValueAt(host.actors, a.entity)
                 requested == Range(ValueAt(p.authorities, a.authority))
             IN /\ resolves(authority) /\ authority.domain = host.driver.domain
                /\ requested \subseteq authority.owns /\ a.cursor \in requested
                /\ \A k \in DOMAIN p.handlers :
                     p.handlers[k].inbox = a.inbox => p.handlers[k].writes \subseteq requested

-----------------------------------------------------------------------------
(* The store: names, schemas, rows.                                        *)

Put(f, key, value) == [k \in DOMAIN f \cup {key} |-> IF k = key THEN value ELSE f[k]]

(* A fresh id is above every id in the catalog. *)
FreshId(base) == Max({base} \cup {catalog[n] + 1 : n \in DOMAIN catalog})
IdOf(name, base) == IF name \in DOMAIN catalog THEN catalog[name] ELSE FreshId(base)

Versions(id) == IF id \in DOMAIN schemas THEN schemas[id] ELSE << >>

(* Defect: a schema may be replaced by any other. *)
BugEvolves(id, columns, at) == Last(Versions(id)).at < at

(* A new version only appends columns, and takes effect after the last.    *)
Evolves(id, columns, at) == IsPrefix(Last(Versions(id)).columns, columns) /\ Last(Versions(id)).at < at

Puttable(id, columns, at) == Versions(id) # << >> => Last(Versions(id)).columns = columns \/ Evolves(id, columns, at)

WithSchema(id, columns, at) ==
  IF Versions(id) # << >> /\ Last(Versions(id)).columns = columns THEN schemas
  ELSE Put(schemas, id, Append(Versions(id), [at |-> at, columns |-> columns]))

Fact(id, row) == [rel |-> id, row |-> row, at |-> edition + 1]
Live(name) == {f \in facts : name \in DOMAIN catalog /\ f.rel = catalog[name]}

(* A commit takes rows away and brings rows, in the next edition.          *)
Commit(gone, rows) == facts' = (facts \ gone) \cup rows /\ edition' = edition + 1

(* What a runtime commits conforms to the latest schemas. *)
Conforming(fs) == \A f \in fs : Versions(f.rel) # << >> => Conforms(Last(Versions(f.rel)).columns, f.row)

-----------------------------------------------------------------------------
(* A load.                                                                 *)

Source(l) == Sources[l.source]
IsPackage(l) == l.how \in {"package", "driven"}

(* A view's copy takes the place of the cursors if it has their name.      *)
MarkerColumns == <<"Text", "Int", "Any">>
CopiesNamed(p, name) == {v \in Range(Materialized(p)) : v.copy = name}
Columns(p, name) ==
  CASE name = Marker -> MarkerColumns
    [] name # Marker /\ Declares(p, name) -> ValueAt(p.rels, name)
    [] name # Marker /\ ~ Declares(p, name) /\ CopiesNamed(p, name) # {} ->
         (CHOOSE v \in CopiesNamed(p, name) : TRUE).columns
    [] OTHER -> PositionColumns

AllNames(l) ==
  Names(Source(l).rels) \o CopyNames(Source(l)) \o (IF IsPackage(l) THEN <<Marker>> ELSE << >>)

(* The digest stands for the entities, the bootstrap and the requirements. *)
Digested(p) == <<Range(p.entities), Seeds(p), Range(p.requires)>>
Digest(p) == Code(Min({s \in DOMAIN Sources : BootstrapOk(Sources[s]) /\ Digested(Sources[s]) = Digested(p)}))
MarkerRow(p) == <<p.package[1].id, Num(p.package[1].version), Digest(p)>>

Init ==
  /\ catalog = << >> /\ schemas = << >> /\ facts = {} /\ edition = 0
  /\ load = << >> /\ open = {} /\ made = << >>
  /\ budget = [loads |-> MaxLoads, crashes |-> MaxCrashes, plays |-> MaxPlays]

Spend(what) == budget[what] > 0 /\ budget' = [budget EXCEPT ![what] = @ - 1]

Start ==
  /\ load = << >> /\ Spend("loads")
  /\ \E s \in DOMAIN Sources, how \in {"plain", "package", "driven"}, h \in DOMAIN Hosts, base \in Bases :
       load' = <<[source |-> s, how |-> how, host |-> Hosts[h], base |-> base, stage |-> "parsed",
                  rest |-> << >>, due |-> {}, at |-> 0]>>
  /\ UNCHANGED <<store, open, made>>

(* The checks at the end of each stage, and the names or relations that    *)
(* the next stage goes through.                                            *)
Passes(l) ==
  LET p == Source(l) IN
  CASE l.stage = "parsed" ->
         IsPackage(l) => HeaderOk(p) /\ EntitiesOk(p) /\ RequirementsOk(p) /\ AuthoritiesOk(p)
    [] l.stage = "relations" -> ViewsOk(p)
    [] l.stage = "copies" -> ProgramOk(p) /\ (IsPackage(l) => NamespaceOk(p))
    [] l.stage = "marker" -> TypesOk(p) /\ (IsPackage(l) => PackageOk(p, l.host))
    [] l.stage = "installed" -> l.how = "driven" => DrivenOk(p, l.host)
    [] OTHER -> TRUE

Next1(l) ==
  CASE l.stage = "parsed" -> [l EXCEPT !.stage = "relations", !.rest = Names(Source(l).rels)]
    [] l.stage = "relations" -> [l EXCEPT !.stage = "copies", !.rest = CopyNames(Source(l))]
    [] l.stage = "copies" -> [l EXCEPT !.stage = "marker", !.rest = IF IsPackage(l) THEN <<Marker>> ELSE << >>]
    [] l.stage = "marker" -> [l EXCEPT !.stage = "schemas", !.due = Range(AllNames(l)), !.at = edition + 1]
    [] l.stage = "schemas" ->
         IF IsPackage(l) THEN [l EXCEPT !.stage = "install"]
         ELSE [l EXCEPT !.stage = "views", !.rest = [i \in DOMAIN Materialized(Source(l)) |-> Materialized(Source(l))[i].copy]]
    [] OTHER -> [l EXCEPT !.stage = "installed"]

Through(l) == l.rest = << >> /\ l.due = {}

Advance ==
  /\ load # << >> /\ Through(load[1]) /\ load[1].stage \notin {"install", "installed"} /\ Passes(load[1])
  /\ load' = <<Next1(load[1])>>
  /\ UNCHANGED <<store, open, budget, made>>

Refuse == load' = << >> /\ UNCHANGED <<store, open, budget, made>>

CheckFails == load # << >> /\ Through(load[1]) /\ ~ Passes(load[1]) /\ Refuse

(* A relation declared before is refused where it comes again. *)
Again(l) ==
  LET names == Names(Source(l).rels) IN
  l.stage = "relations" /\ Head(l.rest) \in {names[i] : i \in 1 .. Len(names) - Len(l.rest)}

Binding == load # << >> /\ load[1].stage \in {"relations", "copies", "marker"} /\ load[1].rest # << >>

(* A name is bound, durably, when it comes up.  EntMax stands for the      *)
(* greatest id.                                                            *)
Bind ==
  /\ Binding /\ ~ Again(load[1])
  /\ LET name == Head(load[1].rest)
         id == IdOf(name, load[1].base)
     IN id <= EntMax /\ catalog' = Put(catalog, name, id)
  /\ load' = <<[load[1] EXCEPT !.rest = Tail(@)]>>
  /\ UNCHANGED <<schemas, facts, edition, open, budget, made>>

DeclaredTwice == Binding /\ Again(load[1]) /\ Refuse

(* The schemas are put in the order of the relations' ids.                 *)
Registering == load # << >> /\ load[1].stage = "schemas"
NextNames == {n \in load[1].due : \A m \in load[1].due : catalog[n] <= catalog[m]}
Takes(name) == Puttable(catalog[name], Columns(Source(load[1]), name), load[1].at)

(* A schema is put, durably, when its relation comes up. *)
PutSchema ==
  /\ Registering
  /\ \E name \in NextNames :
       /\ Takes(name)
       /\ schemas' = WithSchema(catalog[name], Columns(Source(load[1]), name), load[1].at)
       /\ load' = <<[load[1] EXCEPT !.due = @ \ {name}]>>
  /\ UNCHANGED <<catalog, facts, edition, open, budget, made>>

SchemaRefused == Registering /\ (\E name \in NextNames : ~ Takes(name)) /\ Refuse

(* The cursors of the stored views come with the bootstrap, at zero.       *)
CursorRow(v) == Fact(catalog[Cursor], <<Ent(catalog[v.copy]), Num(0)>>)

Installation(p) ==
  {Fact(catalog[s[1]], s[2]) : s \in Seeds(p)} \cup {Fact(catalog[Marker], MarkerRow(p))}
    \cup {CursorRow(v) : v \in Range(Materialized(p))}

Installing == load # << >> /\ load[1].stage = "install"
MarkerRows == {f.row : f \in Live(Marker)}

(* A store is fresh that has no marker and no edition. *)
Fresh == MarkerRows = {} /\ edition = 0

(* The bootstrap and the marker are one commit, in a fresh store. *)
Install ==
  /\ Installing /\ Fresh
  /\ Commit({}, Installation(Source(load[1])))
  /\ load' = <<Next1(load[1])>>
  /\ UNCHANGED <<catalog, schemas, open, budget, made>>

(* The marker is this very package's. *)
Reopen ==
  /\ Installing /\ MarkerRows = {MarkerRow(Source(load[1]))}
  /\ load' = <<Next1(load[1])>>
  /\ UNCHANGED <<store, open, budget, made>>

InstallRefused == Installing /\ ~ Fresh /\ MarkerRows # {MarkerRow(Source(load[1]))} /\ Refuse

(* Without a package each stored view's cursor is a commit of its own.     *)
HasCursor(v) == \E f \in Live(Cursor) : f.row[1] = Ent(catalog[v.copy])
InstallView ==
  /\ load # << >> /\ load[1].stage = "views" /\ load[1].rest # << >>
  /\ LET v == CHOOSE w \in Range(Source(load[1]).views) : w.copy = Head(load[1].rest) IN
       IF HasCursor(v) THEN UNCHANGED <<facts, edition>> ELSE Commit({}, {CursorRow(v)})
  /\ load' = <<[load[1] EXCEPT !.rest = Tail(@)]>>
  /\ UNCHANGED <<catalog, schemas, open, budget, made>>

(* The runtime is open: the program keeps the ids it was compiled with.    *)
Opened ==
  /\ load # << >> /\ load[1].stage = "installed" /\ Passes(load[1])
  /\ open' = open \cup {[source |-> load[1].source, how |-> load[1].how,
                         ids |-> [n \in Range(AllNames(load[1])) |-> catalog[n]]]}
  /\ load' = << >>
  /\ UNCHANGED <<store, budget, made>>

(* The process dies; what is in the store is durable.                      *)
Crash ==
  /\ load # << >> \/ open # {}
  /\ Spend("crashes") /\ load' = << >> /\ open' = {}
  /\ UNCHANGED <<store, made>>

-----------------------------------------------------------------------------
(* What open runtimes commit between loads.                                *)

Program(r) == Sources[r.source]
RowsAt(id) == {f \in facts : f.rel = id}
RowsFor(id, e) == {f \in RowsAt(id) : f.row[1] = Ent(e)}
NumberAt(f) == IntOf(f.row[2])

Plays(gone, rows) ==
  /\ load = << >> /\ Conforming(gone \cup rows) /\ Spend("plays")
  /\ Commit(gone, rows)
  /\ UNCHANGED <<catalog, schemas, load, open>>

(* A capability hands out the next id of its range. *)
Allocate(r) ==
  /\ IsPackage(r)
  /\ \E i \in Required(Program(r), "allocate") :
       LET q == Program(r).requires[i]
           id == r.ids[q.counter]
       IN \E c \in RowsAt(id) : LET n == IntOf(c.row[1]) IN
            /\ RowsAt(id) = {c} /\ n \in q.first .. q.last
            /\ Plays({c}, {Fact(id, <<Num(n + 1)>>)})
            /\ made' = Append(made, n)

Position(r, a, e) == Max({0} \cup {NumberAt(f) : f \in RowsFor(r.ids[a.cursor], e)})
Inbox(r, a, e) == {NumberAt(f) : f \in RowsFor(r.ids[a.inbox], e)}
EntityOf(r, a) == ValueAt(Program(r).entities, a.entity)

(* A message comes in under the next number of its actor's counter.        *)
Deliver(r) ==
  /\ r.how = "driven" /\ UNCHANGED made
  /\ \E a \in Range(Program(r).actors), sequences \in SequenceRelations(Program(r)) :
       LET e == EntityOf(r, a) IN
       \E c \in RowsFor(r.ids[sequences], e) :
         /\ RowsFor(r.ids[sequences], e) = {c}
         /\ Plays({c}, {Fact(c.rel, <<Ent(e), Num(NumberAt(c) + 1)>>),
                        Fact(r.ids[a.inbox], <<Ent(e), Num(NumberAt(c)), Text(1)>>)})

(* The first actor that has a message waiting, by inbox and entity, takes  *)
(* it: its cursor moves.                                                   *)
Attend(r) ==
  LET waiting == {a \in Range(Program(r).actors) : Position(r, a, EntityOf(r, a)) \in Inbox(r, a, EntityOf(r, a))}
      before(a, b) == \/ r.ids[a.inbox] < r.ids[b.inbox]
                      \/ r.ids[a.inbox] = r.ids[b.inbox] /\ EntityOf(r, a) <= EntityOf(r, b)
  IN /\ r.how = "driven" /\ UNCHANGED made
     /\ \E a \in waiting :
          LET e == EntityOf(r, a)
              id == r.ids[a.cursor]
          IN /\ \A b \in waiting : before(a, b)
             /\ Plays(RowsFor(id, e), {Fact(id, <<Ent(e), Num(Position(r, a, e) + 1)>>)})

(* Any other row is written as the program's own schemas have it.          *)
Write(r) ==
  /\ UNCHANGED made
  /\ \E w \in Program(r).writes :
       /\ w[1] \in DOMAIN r.ids /\ \A f \in RowsAt(r.ids[w[1]]) : f.row # w[2]
       /\ Plays({}, {Fact(r.ids[w[1]], w[2])})

Next ==
  \/ Start \/ Advance \/ CheckFails \/ Bind \/ DeclaredTwice \/ PutSchema \/ SchemaRefused
  \/ Install \/ Reopen \/ InstallRefused \/ InstallView \/ Opened \/ Crash
  \/ \E r \in open : Allocate(r) \/ Deliver(r) \/ Attend(r) \/ Write(r)

Spec == Init /\ [][Next]_vars

-----------------------------------------------------------------------------
(* Properties. *)

InEffect(id, at) ==
  LET versions == {v \in Range(Versions(id)) : v.at <= at} IN
  {v \in versions : \A w \in versions : w.at <= v.at}

(* Names and schemas outlive refused loads, crashes and other packages: no *)
(* two relations share an id, an open runtime's ids are the catalog's, and *)
(* every row conforms to the schema in effect when it came, whose columns  *)
(* every later schema, and that of every open runtime's store, begins with *)
(* (docs of compile_with_catalog and of SchemaCatalog).                    *)
NamesAndSchemasStand ==
  /\ \A m, n \in DOMAIN catalog : catalog[m] = catalog[n] => m = n
  /\ \A r \in open : \A n \in DOMAIN r.ids :
       /\ n \in DOMAIN catalog /\ catalog[n] = r.ids[n] /\ Versions(r.ids[n]) # << >>
       /\ IsPrefix(Columns(Program(r), n), Last(Versions(r.ids[n])).columns)
  /\ \A f \in facts : \E then \in InEffect(f.rel, f.at) :
       /\ Conforms(then.columns, f.row)
       /\ IsPrefix(then.columns, Last(Versions(f.rel)).columns)

(* What a package was checked for when it was first opened stands however  *)
(* often it is opened again, by whatever loads and crashes between: its    *)
(* bootstrap is done once; its capabilities never hand out an id twice,    *)
(* nor a declared entity's; and each actor's messages are numbered from 0  *)
(* without a gap up to its counter, its cursor among them (load_package;   *)
(* compile_requirements, validate_resource_seeds, compile_actors).         *)
ResourcesStand ==
  /\ Distinct(made)
  /\ \A r \in open : IsPackage(r) => LET p == Program(r) IN
       /\ MarkerRows = {MarkerRow(p)}
       /\ \A i \in DOMAIN p.entities : p.entities[i][2] \notin Range(made)
       /\ \A a \in Range(p.actors) : \A sequences \in SequenceRelations(p) :
            LET e == EntityOf(r, a) IN
            \E c \in RowsFor(r.ids[sequences], e) :
              /\ RowsFor(r.ids[sequences], e) = {c}
              /\ Inbox(r, a, e) = 0 .. NumberAt(c) - 1
              /\ Cardinality(RowsFor(r.ids[a.inbox], e)) = NumberAt(c)
              /\ Position(r, a, e) <= NumberAt(c)
============================================================================
