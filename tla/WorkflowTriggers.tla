-------------------------- MODULE WorkflowTriggers --------------------------
(* The workflow routes of the actions feature: definitions and their index,   *)
(* shared links, and the six ways a definition becomes a run (by hand, over   *)
(* HTTP, scheduled, by webhook, by cron, by a shared link).  Each stores the  *)
(* DAG of the definition it read and then the run.  Requests interleave at    *)
(* every store call.                                                          *)
EXTENDS Cells, FiniteSets, SequencesExt

CONSTANTS Clients, Workflows,
          Calls,       \* bound: requests per client
          Runs,        \* bound: the runs there can be
          MaxUses,     \* of the shared link; 0 is unlimited
          Attempts     \* tries of a read-modify-write loop: 3 in the code

VARIABLES wf,      \* action-workflow:<id>: cells of the revision of a definition
          dag,     \* dag:def:<id>: cells of the revision the DAG was built from
          ids,     \* the three indices: cells of a set
          link,    \* the shared link: a cell of [enabled, useCount]
          run,     \* the runs stored, and what asked for each (`counted' is history)
          left, p  \* requests left, and the one under way, per client

vars == <<wf, dag, ids, link, run, left, p>>

Idle == [todo |-> <<>>, by |-> "none", w |-> "none", seen |-> Empty, def |-> 0,
         kind |-> "wf", add |-> "none", tries |-> 0, counted |-> FALSE, visit |-> <<>>]

\* buildDagFromWorkflow(), saveDagDef(), createDagRunFromTrigger(), saveNewDagRun().
Submit == <<"readDag", "saveDag", "saveRun">>
Script == [
    create   |-> <<"insertWf", "readIds", "enlistWf">>,
    patch    |-> <<"readWf", "saveWf">>,
    delete   |-> <<"readWf", "eraseWf", "readIds", "unlistWf">>,
    trigger  |-> <<"readWf">> \o Submit,     \* /trigger, /http and /schedule
    webhook  |-> <<"readIds", "visit">>,
    cron     |-> <<"readIds", "visit">>,
    launch   |-> <<"validate", "readWf", "readLink", "saveUse">> \o Submit,
    disable  |-> <<"readLink", "saveDisabled">>,
    dropDag  |-> <<"readDag", "eraseDag">>]

Init == /\ wf = [w \in Workflows |-> Empty]
        /\ dag = [w \in Workflows |-> Empty]
        /\ ids = [k \in {"wf", "dag", "run"} |-> Empty]
        /\ link = Holding([enabled |-> TRUE, useCount |-> 0])
        /\ run = [r \in {} |-> "none"]
        /\ left = Calls
        /\ p = [c \in Clients |-> Idle]

At(c, step) == p[c].todo # <<>> /\ Head(p[c].todo) = step
Set(c, q) == p' = [p EXCEPT ![c] = q]
Rest(q) == [q EXCEPT !.todo = Tail(@)]
Go(c) == Set(c, Rest(p[c]))
\* What a visit cannot start it leaves out; any other request ends with an error.
Skipped(q) == IF q.by \in {"webhook", "cron"} THEN [q EXCEPT !.todo = <<"visit">>] ELSE Idle
Elements(k) == IF Present(ids[k]) THEN Value(ids[k]) ELSE {}
SetOf(cell) == IF Present(cell) THEN Value(cell) ELSE {}

Begin(c) ==
    /\ p[c].todo = <<>> /\ left[c] > 0
    /\ left' = [left EXCEPT ![c] = @ - 1]
    /\ \E by \in DOMAIN Script, w \in Workflows :
         /\ by = "create" => ~Present(wf[w]) /\ wf[w].n = 0
                               /\ \A d \in Clients : p[d].w = w => p[d].by # "create"
         /\ Set(c, [Idle EXCEPT !.todo = Script[by], !.by = by, !.w = w, !.add = w])
    /\ UNCHANGED <<wf, dag, ids, link, run>>

----------------------------------------------------------------------------
(* Definitions and their index, which is written once and never retried.      *)

InsertWf(c) == /\ At(c, "insertWf") /\ Go(c)
               /\ wf' = [wf EXCEPT ![p[c].w] = Put(@, Null, 1)]
               /\ UNCHANGED <<dag, ids, link, run, left>>

ReadWf(c) ==
    LET cell == wf[p[c].w] IN
    /\ At(c, "readWf")
    /\ \/ /\ Present(cell)
          /\ Set(c, [Rest(p[c]) EXCEPT !.seen = cell, !.def = Value(cell)])
       \/ \* Missing, or without that trigger, that branch, that minute.
          /\ ~Present(cell) \/ p[c].by \in {"trigger", "webhook", "cron"}
          /\ Set(c, Skipped(p[c]))
    /\ UNCHANGED <<wf, dag, ids, link, run, left>>

SaveWf(c) == /\ At(c, "saveWf") /\ Go(c)
             /\ wf' = [wf EXCEPT ![p[c].w] = Put(@, Version(p[c].seen), p[c].def + 1)]
             /\ UNCHANGED <<dag, ids, link, run, left>>

EraseWf(c) == /\ At(c, "eraseWf") /\ Go(c)
              /\ wf' = [wf EXCEPT ![p[c].w] = Erase(@, Version(p[c].seen))]
              /\ UNCHANGED <<dag, ids, link, run, left>>

ReadIds(c) ==
    LET k == p[c].kind IN
    /\ At(c, "readIds")
    /\ Set(c, [Rest(p[c]) EXCEPT !.seen = ids[k], !.visit = IF k = "wf" THEN SetToSeq(Elements(k)) ELSE @])
    /\ UNCHANGED <<wf, dag, ids, link, run, left>>

EnlistWf(c) == /\ At(c, "enlistWf") /\ Go(c)
               /\ ids' = [ids EXCEPT !["wf"] = Put(@, Version(p[c].seen), SetOf(p[c].seen) \cup {p[c].w})]
               /\ UNCHANGED <<wf, dag, link, run, left>>

UnlistWf(c) == /\ At(c, "unlistWf") /\ Go(c)
               /\ ids' = IF Present(p[c].seen)
                         THEN [ids EXCEPT !["wf"] = Put(@, Version(p[c].seen), Value(p[c].seen) \ {p[c].w})]
                         ELSE ids
               /\ UNCHANGED <<wf, dag, link, run, left>>

\* The webhook and the cron tick look at every definition listed, in turn.
Visit(c) ==
    /\ At(c, "visit")
    /\ IF p[c].visit = <<>> THEN Set(c, Idle)
       ELSE Set(c, [p[c] EXCEPT !.w = Head(p[c].visit), !.visit = Tail(@),
                                !.todo = <<"readWf">> \o Submit \o <<"visit">>])
    /\ UNCHANGED <<wf, dag, ids, link, run, left>>

----------------------------------------------------------------------------
(* A definition becomes a run                                                 *)

ReadDag(c) == /\ At(c, "readDag")
              /\ Set(c, IF p[c].by = "dropDag" /\ ~Present(dag[p[c].w]) THEN Idle
                        ELSE [Rest(p[c]) EXCEPT !.seen = dag[p[c].w]])
              /\ UNCHANGED <<wf, dag, ids, link, run, left>>

\* The result of the write is not looked at; a definition new to the store is
\* added to the index of definitions.
SaveDag(c) ==
    LET q == p[c] new == Accepts(dag[q.w], Version(q.seen)) /\ ~Present(q.seen) IN
    /\ At(c, "saveDag")
    /\ dag' = [dag EXCEPT ![q.w] = Put(@, Version(q.seen), q.def)]
    /\ Set(c, IF new THEN [Rest(q) EXCEPT !.todo = <<"readIds", "append">> \o @, !.kind = "dag",
                                          !.add = q.w, !.tries = Attempts]
              ELSE Rest(q))
    /\ UNCHANGED <<wf, ids, link, run, left>>

EraseDag(c) ==
    LET q == p[c] hit == Accepts(dag[q.w], Version(q.seen)) IN
    /\ At(c, "eraseDag")
    /\ dag' = [dag EXCEPT ![q.w] = Erase(@, Version(q.seen))]
    /\ Set(c, IF hit THEN [q EXCEPT !.todo = <<"readIds", "remove">>, !.kind = "dag", !.tries = Attempts]
              ELSE Idle)
    /\ UNCHANGED <<wf, ids, link, run, left>>

SaveRun(c) ==
    LET q == p[c] IN
    /\ At(c, "saveRun")
    /\ \E r \in Runs \ DOMAIN run :
         /\ run' = [s \in DOMAIN run \cup {r} |-> IF s = r THEN [w |-> q.w, by |-> q.by, counted |-> q.counted]
                                                     ELSE run[s]]
         /\ Set(c, [Rest(q) EXCEPT !.todo = <<"readIds", "append">> \o @, !.kind = "run",
                                   !.add = r, !.tries = Attempts])
    /\ UNCHANGED <<wf, dag, ids, link, left>>

\* Refused, the list is read again, as long as there are attempts left.
Again(c, k, ok, first) ==
    Set(c, IF ids'[k] # ids[k] \/ ok \/ p[c].tries = 1 THEN Rest(p[c])
           ELSE [p[c] EXCEPT !.todo = <<first>> \o @, !.tries = @ - 1])
Append1(c) ==
    LET q == p[c] k == q.kind IN
    /\ At(c, "append")
    /\ ids' = [ids EXCEPT ![k] = Put(@, Version(q.seen), SetOf(q.seen) \cup {q.add})]
    /\ Again(c, k, FALSE, "readIds")
    /\ UNCHANGED <<wf, dag, link, run, left>>
Remove1(c) ==
    LET q == p[c] k == q.kind IN
    /\ At(c, "remove")
    /\ ids' = [ids EXCEPT ![k] = IF Present(q.seen) THEN Put(@, Version(q.seen), Value(q.seen) \ {q.w}) ELSE @]
    /\ Again(c, k, ~Present(q.seen), "readIds")
    /\ UNCHANGED <<wf, dag, link, run, left>>

----------------------------------------------------------------------------
(* Shared links                                                               *)

Validate(c) ==
    /\ At(c, "validate")
    /\ LET l == Value(link) IN
       Set(c, IF l.enabled /\ (MaxUses > 0 => l.useCount < MaxUses) THEN Rest(p[c]) ELSE Idle)
    /\ UNCHANGED <<wf, dag, ids, link, run, left>>

ReadLink(c) == /\ At(c, "readLink")
               /\ Set(c, [Rest(p[c]) EXCEPT !.seen = link, !.tries = IF @ = 0 THEN Attempts ELSE @])
               /\ UNCHANGED <<wf, dag, ids, link, run, left>>

\* Mutant: the link is saved under the version of the moment.
SavedBlind(q) == link.ver

\* The link is saved under the version it was read with, and after the last refusal
\* the launch goes on without its use.
Saved(q) == Version(q.seen)
SaveUse(c) ==
    LET q == p[c] IN
    /\ At(c, "saveUse")
    /\ link' = Put(link, Saved(q), [Value(q.seen) EXCEPT !.useCount = @ + 1])
    /\ Set(c, IF link' # link \/ q.tries = 1 THEN [Rest(q) EXCEPT !.tries = 0, !.counted = link' # link]
              ELSE [q EXCEPT !.todo = <<"readLink">> \o @, !.tries = @ - 1])
    /\ UNCHANGED <<wf, dag, ids, run, left>>

SaveDisabled(c) ==
    /\ At(c, "saveDisabled") /\ Set(c, Idle)
    /\ link' = Put(link, Version(p[c].seen), [Value(p[c].seen) EXCEPT !.enabled = FALSE])
    /\ UNCHANGED <<wf, dag, ids, run, left>>

Next == \E c \in Clients :
    \/ Begin(c) \/ InsertWf(c) \/ ReadWf(c) \/ SaveWf(c) \/ EraseWf(c) \/ ReadIds(c) \/ EnlistWf(c)
    \/ UnlistWf(c) \/ Visit(c) \/ ReadDag(c) \/ SaveDag(c) \/ EraseDag(c) \/ SaveRun(c) \/ Append1(c)
    \/ Remove1(c) \/ Validate(c) \/ ReadLink(c) \/ SaveUse(c) \/ SaveDisabled(c)
Spec == Init /\ [][Next]_vars

----------------------------------------------------------------------------
(* Properties                                                                 *)

\* A use of the shared link that was counted stays counted, whatever other uses or
\* the owner write, and is counted once: useCount is the number of launches whose
\* update was accepted.  A launch whose update was refused as often as it is tried
\* goes on uncounted.  And a link its owner has disabled is not enabled again by the
\* count of a use that was under way.
Launches == {r \in DOMAIN run : run[r].by = "launch" /\ run[r].counted}
Launching == {c \in Clients : p[c].counted /\ "saveRun" \in ToSet(p[c].todo)}
UsesCounted == Value(link).useCount = Cardinality(Launches) + Cardinality(Launching)

DisabledStays == ~Value(link).enabled => ~Value(link').enabled

\* A run can be found together with what it is to execute: once it is listed its
\* DAG has been stored, whichever of two first triggers lost the write, and only
\* a request to delete the DAG has taken it away.
RunsAreDefined == \A r \in Elements("run") : dag[run[r].w].n > 0
=============================================================================
