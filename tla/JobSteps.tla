------------------------------ MODULE JobSteps ------------------------------
(* features/actions: what a job of a workflow becomes.  A matrix strategy is  *)
(* expanded into variants whose placeholders are resolved (matrix.ts,         *)
(* runner.ts); a job that runs as a task of a DAG gets a pod and executes its *)
(* steps in order, each with a start and an end line in the step's log, which *)
(* is read, extended and written back (job-operator.ts, logs.ts).             *)
EXTENDS Naturals, Sequences, FiniteSets, SequencesExt

CONSTANTS Matrices,     \* matrix strategies: sequences of [key, values]
          Excludes,     \* their exclude lists: sets of partial bindings
          Texts,        \* texts: sequences of [lit, text] and [var, text]
          Kinds,        \* kinds of steps
          MaxSteps      \* bound: steps of a job

VARIABLES steps,    \* the steps of the job: [kind, goOn]
          at, n,    \* where execute() is, at which step
          ran,      \* per step, how often it was executed, and if it succeeded
          log,      \* per step, the lines of its segment
          note,     \* the line about to be written
          told      \* the TaskExecutionResult

vars == <<steps, at, n, ran, log, note, told>>

----------------------------------------------------------------------------
(* MatrixExpander.expand                                                      *)

NoVars == [k \in {} |-> "none"]
Bind(key, value, rest) == [k \in DOMAIN rest \cup {key} |-> IF k = key THEN value ELSE rest[k]]

cartesian(variables) ==
    LET from[i \in 1..Len(variables) + 1] ==
          IF i > Len(variables) THEN <<NoVars>>
          ELSE LET head == variables[i]
                   rest == from[i + 1]
               IN FlattenSeq([v \in DOMAIN head.values |->
                    [r \in DOMAIN rest |-> Bind(head.key, head.values[v], rest[r])]])
    IN from[1]

matchesExclude(combo, ex) == \A k \in DOMAIN ex : k \in DOMAIN combo /\ combo[k] = ex[k]

expand(variables, exclude) ==
    SelectSeq(cartesian(variables), LAMBDA combo : ~\E ex \in exclude : matchesExclude(combo, ex))

----------------------------------------------------------------------------
(* #resolveMatrixVars: one placeholder of the original text after the other,  *)
(* each replaced where it first occurs.                                       *)

Valued(name, binding) == [kind |-> "lit", text |-> IF name \in DOMAIN binding THEN binding[name] ELSE ""]

replaceFirst(text, part, by) ==
    LET where == {i \in DOMAIN text : text[i] = part}
    IN IF where = {} THEN text
       ELSE [text EXCEPT ![CHOOSE i \in where : \A j \in where : i <= j] = by]

resolveMatrixVars(text, binding) ==
    FoldLeft(LAMBDA resolved, match : replaceFirst(resolved, match, Valued(match.text, binding)),
             text, SelectSeq(text, LAMBDA part : part.kind = "var"))

----------------------------------------------------------------------------
(* JobOperator.execute                                                        *)

Step == [kind : Kinds, goOn : BOOLEAN]

Init == /\ steps \in UNION {[1..k -> Step] : k \in 0..MaxSteps}
        /\ at = "pod" /\ n = 1
        /\ ran = [i \in DOMAIN steps |-> <<>>]
        /\ log = [i \in DOMAIN steps |-> <<>>]
        /\ note = "none" /\ told = "none"

Fails == at' = "done" /\ told' = "failure"

ProvisionPod ==
    /\ at = "pod"
    /\ \/ at' = "next" /\ UNCHANGED told
       \/ Fails                          \* no container, no instance, refused
    /\ UNCHANGED <<steps, n, ran, log, note>>

NextStep ==
    /\ at = "next" /\ n <= Len(steps)
    /\ at' = "append" /\ note' = "started"
    /\ UNCHANGED <<steps, n, ran, log, told>>

Completed ==
    /\ at = "next" /\ n > Len(steps)
    /\ at' = "done" /\ told' = "success"
    /\ UNCHANGED <<steps, n, ran, log, note>>

\* What an error means where it is thrown: while a step is under way it fails
\* that step, whatever the step did; elsewhere it ends the job.
Throws == CASE note = "completed" -> at' = "append" /\ note' = "failed" /\ UNCHANGED told
            [] OTHER -> Fails /\ UNCHANGED note

\* Mutant: a failed step ends nothing.
GoesOnAlways(i) == TRUE

\* After the line of a failed step the job goes on only if the step allows it.
GoesOn(i) == steps[i].goOn

Written ==
    CASE note = "started" -> at' = "execute" /\ UNCHANGED <<n, told>>
      [] note = "completed" -> at' = "next" /\ n' = n + 1 /\ UNCHANGED told
      [] OTHER -> IF GoesOn(n) THEN at' = "next" /\ n' = n + 1 /\ UNCHANGED told
                  ELSE Fails /\ UNCHANGED n

\* appendStepLog: get, merge, put.  One execution of a task writes its segments,
\* so that the three are one action.
AppendStepLog ==
    /\ at = "append"
    /\ \/ /\ log' = [log EXCEPT ![n] = Append(@, note)]
          /\ Written
          /\ UNCHANGED note
       \/ Throws /\ UNCHANGED <<n, log>>
    /\ UNCHANGED <<steps, ran>>

\* A step of no known kind does nothing; a run step without exec neither.
Outcomes(kind) == IF kind = "other" THEN {TRUE} ELSE BOOLEAN

Execute ==
    /\ at = "execute"
    /\ \E ok \in Outcomes(steps[n].kind) :
         /\ ran' = [ran EXCEPT ![n] = Append(@, ok)]
         /\ note' = IF ok THEN "completed" ELSE "failed"
    /\ at' = "append"
    /\ UNCHANGED <<steps, n, log, told>>

Next == ProvisionPod \/ NextStep \/ Completed \/ AppendStepLog \/ Execute

Spec == Init /\ [][Next]_vars

----------------------------------------------------------------------------
\* A matrix gives one variant for each combination of values no exclusion
\* matches, each once; and no placeholder is left in what is resolved with it.
Combinations(variables) ==
    LET keys == {variables[i].key : i \in DOMAIN variables}
        all == UNION {Range(variables[i].values) : i \in DOMAIN variables}
    IN {f \in [keys -> all] : \A i \in DOMAIN variables : f[variables[i].key] \in Range(variables[i].values)}
VariantsSound == \A variables \in Matrices, exclude \in Excludes :
    LET variants == expand(variables, exclude)
    IN /\ Range(variants) = {f \in Combinations(variables) :
                              \A ex \in exclude : {<<k, ex[k]>> : k \in DOMAIN ex}
                                                    \ {<<k, f[k]>> : k \in DOMAIN f} # {}}
       /\ IsInjective(variants)
       /\ \A v \in DOMAIN variants, text \in Texts :
            LET done == resolveMatrixVars(text, variants[v])
            IN \A i \in DOMAIN done :
                 done[i] = IF text[i].kind = "lit" THEN text[i] ELSE Valued(text[i].text, variants[v])

\* A job is told successful only if every step it may not go on without was
\* executed once and succeeded; no step is executed twice, none after one that
\* ended the job, and every executed step has its start in the log.
StepsSound ==
    /\ told = "success" =>
         \A i \in DOMAIN steps : steps[i].goOn \/ (ran[i] = <<TRUE>> /\ log[i] = <<"started", "completed">>)
    /\ \A i \in DOMAIN steps :
         /\ Len(ran[i]) <= 1
         /\ ran[i] # <<>> => log[i] # <<>> /\ Head(log[i]) = "started"
         /\ ran[i] = <<FALSE>> /\ ~steps[i].goOn => \A j \in i + 1..Len(steps) : ran[j] = <<>>

JobsSound == VariantsSound /\ StepsSound
=============================================================================
