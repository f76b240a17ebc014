------------------------------ MODULE Selection ------------------------------
(***************************************************************************)
(* The selection of the Executor (flow-agent-core, runtime/executor:       *)
(* config.rs, selection.rs, probe.rs): `flow executor` commands that       *)
(* select a program or go back to the installed one, Runs that resolve the *)
(* selection, probe the program and start it for each Tool, and an         *)
(* administrator who replaces an installed program at any time.            *)
(*                                                                         *)
(* An image is a program's file; "ready" stands for a probe that names the *)
(* protocol, the platform and the mandatory feature and says it is ready,  *)
(* "own" for the name, version and backend of the Default Executor, "safe" *)
(* for the ownership and access that open_program asks of it and of the    *)
(* programs installed with it.  The configuration is the path it names, or *)
(* none.                                                                   *)
(***************************************************************************)
EXTENDS Naturals, Sequences, FiniteSets

CONSTANTS
  Images,      \* the images a path may hold, in the order they are installed
  Scenes,      \* what each process is asked to do, and what an earlier one selected
  Nobody, Limit, Dispatches, MaxLosses

VARIABLES
  installed,   \* the image at each path: how many were installed there
  config,      \* executor.json, as it is seen
  durable,     \* and as it is on disk
  stages,      \* staging files, and who made them
  lock,        \* .executor.lock
  proc, child, losses,
  admitted,    \* images that a probe accepted, with the path
  settled      \* the last change a command reported, FALSE when another began since

vars == <<installed, config, durable, stages, lock, proc, child, losses, admitted, settled>>

None == "none"
Default == "default"
Image(path, n) == Images[path][n]
Current(path) == installed[path]

NoChild == [state |-> "none", wrote |-> 0, read |-> 0, held |-> FALSE, overdue |-> FALSE, ok |-> FALSE]

\* A process that a command line asks for: an operation and, for a selection, a path.
Proc(task) == [op |-> task.op, path |-> task.path, at |-> "start", image |-> 0, source |-> "custom", left |-> Dispatches,
               stale |-> FALSE, launched |-> {}]

Init ==
  /\ \E scene \in Scenes :
       /\ proc = [p \in DOMAIN scene.tasks |-> Proc(scene.tasks[p])]
       /\ child = [p \in DOMAIN scene.tasks |-> NoChild]
       /\ config = scene.config /\ durable = scene.config
       /\ admitted = IF scene.config = None THEN {} ELSE {<<scene.config, 1>>}
  /\ installed = [path \in DOMAIN Images |-> 1]
  /\ stages = {} /\ lock = Nobody /\ losses = 0
  /\ settled = [value |-> None, holds |-> FALSE]

To(p, at) == proc' = [proc EXCEPT ![p].at = at]
Refuse(p) == proc' = [proc EXCEPT ![p].at = "refused"]
-----------------------------------------------------------------------------
\* configure_executor_path probes what it is given; resolve_executor_with_roots
\* reads the configuration first.
Select(p) ==
  /\ proc[p].at = "start"
  /\ CASE proc[p].op = "configure" -> proc' = [proc EXCEPT ![p].at = "open"]
       [] proc[p].op = "default" -> proc' = [proc EXCEPT ![p].at = "lock"]
       [] proc[p].op = "run" /\ config = None ->
            proc' = [proc EXCEPT ![p].at = "open", ![p].path = Default, ![p].source = "default"]
       [] proc[p].op = "run" /\ config # None -> proc' = [proc EXCEPT ![p].at = "read", ![p].path = config]
  /\ UNCHANGED <<installed, config, durable, stages, lock, child, losses, admitted, settled>>

\* The file that read opened must still have its one name, and be whole.
ReadSelection(p) ==
  /\ proc[p].at = "read"
  /\ IF proc[p].stale \/ proc[p].path = "torn" THEN Refuse(p) ELSE To(p, "open")
  /\ UNCHANGED <<installed, config, durable, stages, lock, child, losses, admitted, settled>>

\* open_validated_executable: the image is held open from here on.
open_validated_executable(p) ==
  /\ proc[p].at = "open"
  /\ \/ /\ Image(proc[p].path, Current(proc[p].path)).safe
        /\ proc' = [proc EXCEPT ![p].at = "target", ![p].image = Current(proc[p].path)]
     \/ ~Image(proc[p].path, Current(proc[p].path)).safe /\ Refuse(p)
  /\ UNCHANGED <<installed, config, durable, stages, lock, child, losses, admitted, settled>>

\* Mutant: the image that is there now is started.
launch_target_current(p) == TRUE

\* launch_target: the path still holds the image.
launch_target(p) == Current(proc[p].path) = proc[p].image

StartProbe(p) ==
  /\ proc[p].at = "target"
  /\ IF launch_target(p)
     THEN /\ To(p, "probe")
          /\ \E held \in BOOLEAN : child' = [child EXCEPT ![p] = [NoChild EXCEPT !.state = "running", !.held = held]]
     ELSE Refuse(p) /\ UNCHANGED child
  /\ UNCHANGED <<installed, config, durable, stages, lock, losses, admitted, settled>>

\* The probed program writes its answer, of Limit parts, or more, or less, and ends; or
\* it does not end.
ChildStep(p) ==
  /\ child[p].state = "running"
  /\ \/ child[p].wrote <= Limit /\ child' = [child EXCEPT ![p].wrote = @ + 1]
     \/ \E ok \in BOOLEAN : child' = [child EXCEPT ![p].state = "exited", ![p].ok = ok]
  /\ UNCHANGED <<installed, config, durable, stages, lock, proc, losses, admitted, settled>>

\* A descendant that left the group lets go of the output; the probe's time passes.
Outside(p) ==
  /\ proc[p].at \in {"probe", "drain"}
  /\ \/ child[p].held /\ child' = [child EXCEPT ![p].held = FALSE]
     \/ ~child[p].overdue /\ child' = [child EXCEPT ![p].overdue = TRUE]
  /\ UNCHANGED <<installed, config, durable, stages, lock, proc, losses, admitted, settled>>

\* drain_probe_output, read_bounded_available: what there is, up to the limit
drain_probe_output(p) ==
  /\ proc[p].at \in {"probe", "drain"} /\ child[p].read < child[p].wrote
  /\ child' = [child EXCEPT ![p].read = child[p].wrote]
  /\ UNCHANGED <<installed, config, durable, stages, lock, proc, losses, admitted, settled>>

\* Mutant: a probe whose time passed is left to itself.
terminate_child_left(p, why) ==
  child' = [child EXCEPT ![p].state = IF why = "overdue" THEN @ ELSE "reaped"]

\* terminate_child_or_fail_stop
terminate_child_or_fail_stop(p, why) == child' = [child EXCEPT ![p].state = "reaped"]

Observe(p) ==
  /\ proc[p].at = "probe"
  /\ \/ /\ child[p].state = "exited"
        /\ terminate_child_or_fail_stop(p, "exited") /\ To(p, "drain")
     \/ /\ child[p].state = "running" /\ child[p].overdue
        /\ terminate_child_or_fail_stop(p, "overdue") /\ Refuse(p)
  /\ UNCHANGED <<installed, config, durable, stages, lock, losses, admitted, settled>>

\* Mutant: the answer is taken when the program ended.
Eof_exited(p) == TRUE

\* The output ends when everything is read and nobody holds it.
Eof(p) == child[p].read = child[p].wrote /\ ~child[p].held

\* validate_probe
validate_probe(p) ==
  LET image == Image(proc[p].path, proc[p].image)
  IN  image.ready /\ (proc[p].source = "default" => image.own)

\* The rest of probe_executor.
Probed(p) ==
  /\ proc[p].at = "drain"
  /\ \/ /\ Eof(p)
        /\ IF child[p].ok /\ child[p].read = Limit /\ validate_probe(p)
           THEN /\ admitted' = admitted \cup {<<proc[p].path, proc[p].image>>}
                /\ To(p, IF proc[p].op = "configure" THEN "lock" ELSE "admitted")
           ELSE Refuse(p) /\ UNCHANGED admitted
     \/ /\ ~Eof(p) /\ child[p].overdue
        /\ Refuse(p) /\ UNCHANGED admitted
  /\ child' = [child EXCEPT ![p] = [NoChild EXCEPT !.state = child[p].state, !.wrote = child[p].wrote]]
  /\ UNCHANGED <<installed, config, durable, stages, lock, losses, settled>>
-----------------------------------------------------------------------------
\* acquire_config_lock, which is given up after a time
acquire_config_lock(p) ==
  /\ proc[p].at = "lock"
  /\ \/ lock = Nobody /\ lock' = p /\ To(p, "recover") /\ settled' = [settled EXCEPT !.holds = FALSE]
     \/ lock # Nobody /\ Refuse(p) /\ UNCHANGED <<lock, settled>>
  /\ UNCHANGED <<installed, config, durable, stages, child, losses, admitted>>

\* Mutant: nothing is swept.
Swept_none == stages

\* recover_abandoned_stages removes every staging file, and syncs when there was one.
Swept == {}

recover_abandoned_stages(p) ==
  /\ proc[p].at = "recover"
  /\ \/ /\ stages' = Swept
        /\ durable' = IF stages # {} THEN config ELSE durable
        /\ To(p, IF proc[p].op = "configure" THEN "stage" ELSE "remove")
        /\ UNCHANGED lock
     \/ stages # {} /\ Refuse(p) /\ lock' = Nobody /\ UNCHANGED <<stages, durable>>
  /\ UNCHANGED <<installed, config, child, losses, admitted, settled>>

\* Mutant: the staging file is not synced.
Stage_unsynced(p) == stages' = stages \cup {[by |-> p, synced |-> FALSE]}

\* replace_atomically: the staging file is written and synced
Stage(p) == stages' = stages \cup {[by |-> p, synced |-> TRUE]}

\* A stage that failed is removed, if it can be.
WriteStage(p) ==
  /\ proc[p].at = "stage"
  /\ \/ Stage(p) /\ To(p, "rename") /\ UNCHANGED lock
     \/ Refuse(p) /\ lock' = Nobody /\ stages' \in {stages, stages \cup {[by |-> p, synced |-> FALSE]}}
  /\ UNCHANGED <<installed, config, durable, child, losses, admitted, settled>>

\* p takes the file's name away: one that was opened to be read has none any more.
Unnamed(p) ==
  proc' = [q \in DOMAIN proc |->
             IF q = p THEN [proc[q] EXCEPT !.at = "sync"]
             ELSE [proc[q] EXCEPT !.stale = @ \/ proc[q].at = "read"]]

Rename(p) ==
  /\ proc[p].at = "rename"
  /\ config' = proc[p].path
  /\ stages' = {s \in stages : s.by # p}
  /\ durable' = IF [by |-> p, synced |-> FALSE] \in stages THEN "torn" ELSE durable
  /\ Unnamed(p)
  /\ UNCHANGED <<installed, lock, child, losses, admitted, settled>>

\* configure_default removes the override.
Remove(p) ==
  /\ proc[p].at = "remove"
  /\ \/ config = None /\ To(p, "unchanged") /\ lock' = Nobody /\ UNCHANGED config
     \/ config # None /\ config' = None /\ Unnamed(p) /\ UNCHANGED lock
  /\ UNCHANGED <<installed, durable, stages, child, losses, admitted, settled>>

\* Mutant: the change is reported before the directory is synced.
Sync_later(p) == durable

\* sync_anchored_directory
Sync(p) == IF durable = "torn" THEN durable ELSE config

Report(p) ==
  /\ proc[p].at = "sync"
  /\ lock' = Nobody
  /\ \/ /\ durable' = Sync(p) /\ To(p, "reported")
        /\ settled' = [value |-> IF proc[p].op = "configure" THEN proc[p].path ELSE None, holds |-> TRUE]
     \/ Refuse(p) /\ UNCHANGED <<durable, settled>>
  /\ UNCHANGED <<installed, config, stages, child, losses, admitted>>
-----------------------------------------------------------------------------
\* ExecutorSelection::executable for a Tool, and its start with the image held open
Dispatch(p) ==
  /\ proc[p].at = "admitted" /\ proc[p].left > 0
  /\ IF launch_target(p)
     THEN proc' = [proc EXCEPT ![p].left = @ - 1, ![p].launched = @ \cup {<<proc[p].image, Current(proc[p].path)>>}]
     ELSE Refuse(p)
  /\ UNCHANGED <<installed, config, durable, stages, lock, child, losses, admitted, settled>>

\* An administrator replaces a program, one that somebody selected, by the next image.
Upgrade ==
  /\ \E path \in {proc[p].path : p \in DOMAIN proc} \cap DOMAIN Images :
       /\ installed[path] < Len(Images[path])
       /\ installed' = [installed EXCEPT ![path] = @ + 1]
  /\ UNCHANGED <<config, durable, stages, lock, proc, child, losses, admitted, settled>>

\* A process ends; the probed program has its parent's death as its own.
Stop(p) ==
  /\ proc[p].at \notin {"start", "refused", "reported", "unchanged", "ended"}
  /\ losses < MaxLosses /\ losses' = losses + 1
  /\ To(p, "ended")
  /\ lock' = IF lock = p THEN Nobody ELSE lock
  /\ child' = [child EXCEPT ![p] = NoChild]
  /\ UNCHANGED <<installed, config, durable, stages, admitted, settled>>

\* The machine stops: what was not synced may be lost, and whoever had begun ends.
PowerLoss ==
  /\ losses < MaxLosses /\ losses' = losses + 1
  /\ \E kept \in {config, durable} : config' = kept /\ durable' = kept
  /\ stages' \in SUBSET stages
  /\ lock' = Nobody
  /\ proc' = [p \in DOMAIN proc |-> IF proc[p].at = "start" THEN proc[p] ELSE [proc[p] EXCEPT !.at = "ended"]]
  /\ child' = [p \in DOMAIN proc |-> NoChild]
  /\ UNCHANGED <<installed, admitted, settled>>

Next ==
  \/ \E p \in DOMAIN proc :
       \/ Select(p) \/ ReadSelection(p) \/ open_validated_executable(p) \/ StartProbe(p) \/ ChildStep(p) \/ Outside(p)
       \/ drain_probe_output(p) \/ Observe(p) \/ Probed(p) \/ acquire_config_lock(p)
       \/ recover_abandoned_stages(p) \/ WriteStage(p) \/ Rename(p) \/ Remove(p) \/ Report(p)
       \/ Dispatch(p) \/ Stop(p)
  \/ Upgrade \/ PowerLoss

Spec == Init /\ [][Next]_vars
-----------------------------------------------------------------------------
\* The configuration is always whole and names a program that was probed and found
\* ready; and a change that was reported holds, on disk too, until the next begins.
SelectionSettled ==
  /\ config \in {None} \cup {a[1] : a \in admitted}
  /\ settled.holds => config = settled.value /\ durable = settled.value

\* A Tool is only given to the image that this Run probed, while it is the one that is
\* installed: a program replaced after its admission stops the Run instead.
RunsAdmitted ==
  \A p \in DOMAIN proc : \A l \in proc[p].launched :
    l[1] = l[2] /\ <<proc[p].path, l[1]>> \in admitted /\ Image(proc[p].path, l[1]).ready

\* A probe that was decided leaves no process of its group behind, and was decided on
\* the whole answer.
ProbesEnd ==
  \A p \in DOMAIN proc :
    /\ proc[p].at \notin {"probe"} => child[p].state \in {"none", "reaped"}
    /\ proc[p].at \in {"lock", "admitted"} /\ proc[p].op # "default" => child[p].wrote = Limit

\* A command that reported a change left no staging file of anybody's.
StagesSwept == settled.holds => stages = {}
=============================================================================
