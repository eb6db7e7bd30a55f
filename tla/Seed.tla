-------------------------------- MODULE Seed --------------------------------
(* The first start: every isolate that finds a marker missing writes the      *)
(* section behind it, item by item, each under an id of its own and then on   *)
(* the list of its kind, and the marker last.  They start at once, and        *)
(* may go half-way and start again.                                           *)
EXTENDS Cells, FiniteSets

CONSTANTS Starters,      \* the isolates
          Starts         \* bound: how often each isolate starts

VARIABLES mark,        \* the _init keys that are set
          stored,      \* the records written: what they are and who wrote them
          list,        \* per kind, the cell of its ids
          started,     \* per isolate: how often it started
          p            \* per isolate: where it is, with its locals

seedVars == <<mark, stored, list, started, p>>

----------------------------------------------------------------------------
(* What is seeded: kind, name, and the record of the same start it refers to. *)

Item(kind, name, refers) == [kind |-> kind, name |-> name, refers |-> refers]

\* Two of the four groups of each kind stand for all: one with capabilities.
PolicyLibrary == <<Item("sysgroup", "sysadmin", {}),
                   Item("usergroup", "wheel", {}), Item("usergroup", "users", {}),
                   Item("caps", "wheel", {<<"usergroup", "wheel">>}),
                   Item("permgroup", "sysadmin", {<<"sysgroup", "sysadmin">>, <<"usergroup", "wheel">>}),
                   Item("routeacl", "wheel", {<<"usergroup", "wheel">>})>>
MacRules == <<>>                  \* the rules are the value of the marker itself
DefaultInstance == <<Item("instance", "default-podman", {})>>
Volumes == <<Item("volume", "seed", {<<"instance", "default-podman">>})>>
LogPolicy == <<>>

\* createApp awaits the first two before it serves, seedIfNeeded the others.
Sections == <<"mac-policy", "policy-lib", "default-instance", "volumes", "log-policy">>
Items(s) == CASE s = "policy-lib" -> PolicyLibrary [] s = "mac-policy" -> MacRules
              [] s = "default-instance" -> DefaultInstance [] s = "volumes" -> Volumes
              [] s = "log-policy" -> LogPolicy
Kinds == {"sysgroup", "usergroup", "permgroup", "routeacl", "instance", "volume"}
Down == [at |-> "down", section |-> 0, item |-> 0, seen |-> Empty]

SeedInit == /\ mark = {} /\ stored = {}
            /\ list = [k \in Kinds |-> Empty]
            /\ started = [i \in Starters |-> 0]
            /\ p = [i \in Starters |-> Down]

Self(i) == <<i, started[i]>>
Section(i) == Sections[p[i].section]
Current(i) == Items(Section(i))[p[i].item]
Id(i) == [what |-> <<Current(i).kind, Current(i).name>>, by |-> Self(i),
          refers |-> Current(i).refers]
Busy(i, at) == p[i].at = at

Start(i) == /\ started[i] < Starts[i]
            /\ started' = [started EXCEPT ![i] = @ + 1]
            /\ p' = [p EXCEPT ![i] = [Down EXCEPT !.at = "check", !.section = 1]]
            /\ UNCHANGED <<mark, stored, list>>

\* Where an isolate goes after an item, after a section.
AfterItem(q) ==
    IF q.item < Len(Items(Sections[q.section]))
    THEN [q EXCEPT !.at = "store", !.item = @ + 1]
    ELSE [q EXCEPT !.at = "mark"]
AfterSection(q) ==
    IF q.section = Len(Sections) THEN [Down EXCEPT !.at = "done"]
    ELSE [Down EXCEPT !.at = "check", !.section = q.section + 1]

CheckMark(i) ==
    /\ Busy(i, "check")
    /\ p' = [p EXCEPT ![i] = IF Section(i) \in mark THEN AfterSection(@)
                             ELSE AfterItem([@ EXCEPT !.item = 0])]
    /\ UNCHANGED <<mark, stored, list, started>>

\* The capabilities of a group are no record on a list.  The instance is made
\* by InstanceService and may fail: its volumes are then left out as well.
Store(i) ==
    /\ Busy(i, "store")
    /\ stored' = stored \cup {Id(i)}
    /\ p' = [p EXCEPT ![i] = IF Current(i).kind = "caps" THEN AfterItem(@)
                             ELSE [@ EXCEPT !.at = "read"]]
    /\ UNCHANGED <<mark, list, started>>

NoInstance(i) ==
    /\ Busy(i, "store") /\ Current(i).kind = "instance"
    /\ p' = [p EXCEPT ![i] = AfterSection([p[i] EXCEPT !.section = @ + 1])]
    /\ UNCHANGED <<mark, stored, list, started>>

\* volume:ids is written create-only, as if nothing had been read.
ReadList(i) ==
    /\ Busy(i, "read")
    /\ p' = [p EXCEPT ![i].at = "write",
                      ![i].seen = IF Current(i).kind = "volume" THEN Empty ELSE list[Current(i).kind]]
    /\ UNCHANGED <<mark, stored, list, started>>

IdsIn(cell) == IF Present(cell) THEN Value(cell) ELSE {}

\* The answer of the compare-and-set is not looked at.
WriteList(i) ==
    /\ Busy(i, "write")
    /\ list' = [list EXCEPT ![Current(i).kind] =
           Put(@, Version(p[i].seen), IdsIn(p[i].seen) \cup {Id(i)})]
    /\ p' = [p EXCEPT ![i] = AfterItem(@)]
    /\ UNCHANGED <<mark, stored, started>>

\* Mutant: the marker of the groups is written before them.
MarkEarly(i) == Busy(i, "mark") \/ (Busy(i, "read") /\ Current(i).kind = "sysgroup")

MarkNow(i) == Busy(i, "mark")

Mark(i) ==
    /\ MarkNow(i)
    /\ mark' = mark \cup {Section(i)}
    /\ p' = [p EXCEPT ![i] = IF Busy(i, "mark") THEN AfterSection(@) ELSE @]
    /\ UNCHANGED <<stored, list, started>>

SeedNext == \E i \in Starters :
    Start(i) \/ CheckMark(i) \/ Store(i) \/ NoInstance(i) \/ ReadList(i) \/ WriteList(i) \/ Mark(i)

SeedSpec == SeedInit /\ [][SeedNext]_seedVars

----------------------------------------------------------------------------
\* A marker says that one start wrote its whole section, and what it wrote
\* refers only to records that are there, whichever starts were cut off.
Wrote(S, s, m, by) == \A n \in 1 .. m :
    \E r \in S : r.by = by /\ r.what = <<Items(s)[n].kind, Items(s)[n].name>>
Has(s, by) == Wrote(stored, s, Len(Items(s)), by)
SeedComplete ==
    /\ \A s \in mark : \E i \in Starters : \E n \in 1 .. started[i] : Has(s, <<i, n>>)
    /\ \A r \in stored : r.what[1] \in {"caps", "permgroup", "routeacl"} =>
          \A x \in r.refers : \E y \in stored : y.what = x /\ y.by = r.by

=============================================================================
