------------------------------- MODULE Authoring -------------------------------
(***************************************************************************)
(* flow init and flow create (flow-agent-core, runtime/authoring,          *)
(* config_io.rs and the anchored files of fs_guards): the transaction that *)
(* makes the global configuration and its registry, the publication of a   *)
(* new file (a temporary file, a hard link, the removal of the temporary   *)
(* name, a sync of the directory) and the creation of a definition under   *)
(* the lock on the configuration file.                                     *)
(*                                                                         *)
(* A directory is the set of its entries; an entry that was made or        *)
(* removed since its directory was last synced may or may not be there     *)
(* after a power loss.  A file's contents are synced before its name is    *)
(* published.  A temporary file is named after the process, so another     *)
(* process never meets it.  Of a definition only its id and name are kept, *)
(* and of the validation of an addition that ids and names do not repeat   *)
(* (Registry has the rest).                                                *)
(***************************************************************************)
EXTENDS Naturals, FiniteSets

CONSTANTS Scenes,    \* what the processes are asked for
          Nobody, MaxLosses

VARIABLES
  entries,   \* what the directories hold
  unsynced,  \* the entries made or removed since their directory was synced
  lease,     \* who holds .flow-init.lock
  lock,      \* who holds the lock on the configuration file
  proc,      \* the processes
  losses

vars == <<entries, unsynced, lease, lock, proc, losses>>

Procs == DOMAIN proc

\* An entry of the home directory, of the registry root, or of its directories by
\* kind.  A file's name is that of the process that wrote it.
Entry(dir, root, leaf, name) == [dir |-> dir, root |-> root, leaf |-> leaf, name |-> name]

Named(leaf) == {e \in entries : e.dir = "home" /\ e.leaf = leaf}
Marker == Named("marker")
Config == Named("config")
Temp(e) == [e EXCEPT !.leaf = IF e.leaf = "marker" THEN "marker.tmp"
                              ELSE IF e.leaf = "config" THEN "config.tmp" ELSE "definition.tmp"]
Definitions(root) == {e \in entries : e.dir = "kinds" /\ e.root = root /\ e.leaf \notin {"definition.tmp"}}
IsDir(dir, root) == \E e \in entries : e.leaf = dir /\ e.root = root

Make(e) == entries' = entries \cup {e} /\ unsynced' = unsynced \cup {e}
Unmake(e) == entries' = entries \ {e} /\ unsynced' = unsynced \cup {e}

\* sync_anchored_directory
Sync(dirs) == unsynced' = {e \in unsynced : <<e.dir, e.root>> \notin dirs /\ <<e.dir, "any">> \notin dirs}

\* read_anchored_to_string_with_limit refuses a file with two names.
OneName(e) == Temp(e) \notin entries

Go(p, at) == proc' = [proc EXCEPT ![p].at = at]
End(p, at) ==
  /\ proc' = [proc EXCEPT ![p].at = at]
  /\ lease' = IF lease = p THEN Nobody ELSE lease
  /\ lock' = IF lock = p THEN Nobody ELSE lock

Locks == <<lease, lock>>
-----------------------------------------------------------------------------
\* write_new_file: the temporary file, written and synced.
WriteTemp(p, e, next) ==
  /\ Make(Temp(e)) /\ Go(p, next)
  /\ UNCHANGED <<lease, lock, losses>>

\* ... its link under the new name, which must not be taken; a failure before
\* the publication removes the temporary file, if that does not fail too
Link(p, e, taken, next) ==
  /\ IF taken THEN (Unmake(Temp(e)) \/ UNCHANGED <<entries, unsynced>>) /\ End(p, "failed")
     ELSE Make(e) /\ Go(p, next) /\ UNCHANGED Locks
  /\ UNCHANGED losses

\* ... the removal of the temporary name; when that fails both names stay
RemoveTemp(p, e, next) ==
  /\ \/ Unmake(Temp(e)) /\ Go(p, next) /\ UNCHANGED Locks
     \/ UNCHANGED <<entries, unsynced>> /\ End(p, "unfinished")
  /\ UNCHANGED losses

\* Mutant: the published name is not synced.
SyncTarget_left(p, dirs, next) == Go(p, next) /\ UNCHANGED <<entries, unsynced, lease, lock, losses>>

\* ... and the sync of the directory (the file is then read back).  A failure
\* here leaves the file published and says so.
SyncTarget(p, dirs, next) ==
  /\ \/ Sync(dirs) /\ Go(p, next) /\ UNCHANGED Locks
     \/ UNCHANGED unsynced /\ End(p, "unfinished")
  /\ UNCHANGED <<entries, losses>>
-----------------------------------------------------------------------------
\* flow init: InitLease::acquire
Acquire(p) ==
  /\ proc[p].at = "start" /\ proc[p].op = "init"
  /\ IF lease = Nobody THEN lease' = p /\ Go(p, "preflight") /\ UNCHANGED lock
     ELSE End(p, "failed")
  /\ UNCHANGED <<entries, unsynced, losses>>

\* A new transaction needs the configuration and the registry root to be absent;
\* a transaction that is there is resumed only when it is this one.
Preflight(p) ==
  /\ proc[p].at = "preflight"
  /\ LET begin == Marker = {} /\ Config = {} /\ ~IsDir("root", proc[p].root)
         resume == \E m \in Marker : OneName(m) /\ m.root = proc[p].root
     IN  IF begin \/ resume THEN Go(p, IF begin THEN "marker" ELSE "registry") /\ UNCHANGED Locks
         ELSE End(p, "failed")
  /\ UNCHANGED <<entries, unsynced, losses>>

MarkerOf(p) == Entry("home", proc[p].root, "marker", p)
ConfigOf(p) == Entry("home", proc[p].root, "config", p)

WriteMarker(p) ==
  \/ proc[p].at = "marker" /\ WriteTemp(p, MarkerOf(p), "marker.link")
  \/ proc[p].at = "marker.link" /\ Link(p, MarkerOf(p), Marker # {}, "marker.remove")
  \/ proc[p].at = "marker.remove" /\ RemoveTemp(p, MarkerOf(p), "marker.sync")
  \/ proc[p].at = "marker.sync" /\ SyncTarget(p, {<<"home", "any">>}, "registry")

\* create_relative_directory, then the directories by kind
MakeRoot(p) ==
  /\ proc[p].at = "registry"
  /\ entries' = entries \cup {Entry("home", proc[p].root, "root", "")}
  /\ unsynced' = {e \in unsynced : e.dir # "home"}
  /\ Go(p, "kinds") /\ UNCHANGED <<lease, lock, losses>>

MakeKinds(p) ==
  /\ proc[p].at = "kinds"
  /\ LET kinds == Entry("root", proc[p].root, "kinds", "") IN
       IF kinds \in entries THEN UNCHANGED <<entries, unsynced>> ELSE Make(kinds)
  /\ Go(p, "config") /\ UNCHANGED <<lease, lock, losses>>

\* The configuration: written, or found as this transaction writes it.
CheckConfig(p) ==
  /\ proc[p].at = "config"
  /\ IF Config = {} THEN Go(p, "config.write") /\ UNCHANGED Locks
     ELSE IF \A c \in Config : OneName(c) /\ c.root = proc[p].root
          THEN Go(p, "finish") /\ UNCHANGED Locks
          ELSE End(p, "failed")
  /\ UNCHANGED <<entries, unsynced, losses>>

WriteConfig(p) ==
  \/ proc[p].at = "config.write" /\ WriteTemp(p, ConfigOf(p), "config.link")
  \/ proc[p].at = "config.link" /\ Link(p, ConfigOf(p), Config # {}, "config.remove")
  \/ proc[p].at = "config.remove" /\ RemoveTemp(p, ConfigOf(p), "config.sync")
  \/ proc[p].at = "config.sync" /\ SyncTarget(p, {<<"home", "any">>}, "finish")

\* Mutant: the registry is not synced before the transaction is removed.
Finish_home(p) ==
  \/ proc[p].at = "finish" /\ SyncTarget(p, {<<"home", "any">>}, "remove")
  \/ /\ proc[p].at = "remove"
     /\ entries' = entries \ Marker /\ unsynced' = unsynced \cup Marker
     /\ Go(p, "last") /\ UNCHANGED <<lease, lock, losses>>
  \/ /\ proc[p].at = "last"
     /\ Sync({<<"home", "any">>}) /\ End(p, "done")
     /\ UNCHANGED <<entries, losses>>

\* Everything is synced, from the kinds up to the home, before the transaction
\* is removed; then the home again.
Finish(p) ==
  \/ /\ proc[p].at = "finish"
     /\ SyncTarget(p, {<<"kinds", proc[p].root>>, <<"root", proc[p].root>>, <<"home", "any">>}, "remove")
  \/ /\ proc[p].at = "remove"
     /\ entries' = entries \ Marker /\ unsynced' = unsynced \cup Marker
     /\ Go(p, "last") /\ UNCHANGED <<lease, lock, losses>>
  \/ /\ proc[p].at = "last"
     /\ \/ Sync({<<"home", "any">>}) /\ End(p, "done")
        \/ UNCHANGED unsynced /\ End(p, "unfinished")
     /\ UNCHANGED <<entries, losses>>
-----------------------------------------------------------------------------
\* flow create: ensure_global_config_settled
ensure_global_config_settled(p) ==
  /\ proc[p].at = "start" /\ proc[p].op = "create"
  /\ IF Marker = {} THEN Go(p, "open") /\ UNCHANGED Locks ELSE End(p, "failed")
  /\ UNCHANGED <<entries, unsynced, losses>>

\* The configuration must be there, under one name, for its lock.  An
\* initialisation may have begun since the check (beside).
OpenConfig(p) ==
  /\ proc[p].at = "open"
  /\ IF Config # {} /\ \A c \in Config : OneName(c)
     THEN proc' = [proc EXCEPT ![p].at = "lock", ![p].beside = Marker # {}] /\ UNCHANGED Locks
     ELSE End(p, "failed")
  /\ UNCHANGED <<entries, unsynced, losses>>

\* Mutant: the lock is not waited for, nor taken.
RegistryMutationLock_none(p) ==
  /\ proc[p].at = "lock"
  /\ \E c \in Config : proc' = [proc EXCEPT ![p].at = "check", ![p].root = c.root]
  /\ UNCHANGED <<entries, unsynced, losses, lease, lock>>

\* RegistryMutationLock::acquire: retried until its deadline; then the
\* configuration is read, and the registry it names opened.
RegistryMutationLock(p) ==
  /\ proc[p].at = "lock"
  /\ \/ lock = Nobody /\ lock' = p /\ UNCHANGED lease
        /\ \E c \in Config : proc' = [proc EXCEPT ![p].at = "check", ![p].root = c.root]
     \/ lock # Nobody /\ End(p, "failed")
  /\ UNCHANGED <<entries, unsynced, losses>>

DefinitionOf(p) == [Entry("kinds", proc[p].root, proc[p].id, p) EXCEPT !.name = proc[p].name]

\* A definition that is there is synced and reported; an addition is validated
\* against every definition that is.
Check(p) ==
  /\ proc[p].at = "check"
  /\ LET root == proc[p].root
         exists == \E d \in Definitions(root) : d.leaf = proc[p].id
         valid == \A d \in Definitions(root) : d.name # proc[p].name
     IN  IF exists
         THEN \/ Sync({<<"kinds", root>>}) /\ End(p, "exists")
              \/ UNCHANGED unsynced /\ End(p, "unfinished")
         ELSE /\ IF IsDir("kinds", root) /\ valid THEN Go(p, "write") /\ UNCHANGED Locks
                 ELSE End(p, "failed")
              /\ UNCHANGED unsynced
  /\ UNCHANGED <<entries, losses>>

Create(p) ==
  \/ proc[p].at = "write" /\ WriteTemp(p, DefinitionOf(p), "link")
  \/ /\ proc[p].at = "link"
     /\ Link(p, DefinitionOf(p), \E d \in Definitions(proc[p].root) : d.leaf = proc[p].id, "unlink")
  \/ proc[p].at = "unlink" /\ RemoveTemp(p, DefinitionOf(p), "sync")
  \/ proc[p].at = "sync" /\ SyncTarget(p, {<<"kinds", proc[p].root>>}, "created")
  \/ /\ proc[p].at = "created" /\ End(p, "done")
     /\ UNCHANGED <<entries, unsynced, losses>>
-----------------------------------------------------------------------------
Ended == {"done", "exists", "failed", "unfinished", "stopped"}

\* The process ends where it is.
Stop(p) ==
  /\ proc[p].at \notin Ended \cup {"start"}
  /\ End(p, "stopped")
  /\ UNCHANGED <<entries, unsynced, losses>>

\* The machine loses power: what was not synced may be either way, and what was
\* in a directory that is gone is gone too.
PowerLoss ==
  /\ losses < MaxLosses /\ losses' = losses + 1
  /\ \E kept \in SUBSET unsynced :
       LET left == (entries \ unsynced) \cup kept
           roots == {e.root : e \in {f \in left : f.leaf = "root"}}
           kinds == {e.root : e \in {f \in left : f.leaf = "kinds"}} \cap roots
       IN  entries' = {e \in left : /\ e.dir = "root" => e.root \in roots
                                    /\ e.dir = "kinds" => e.root \in kinds}
  /\ unsynced' = {} /\ lease' = Nobody /\ lock' = Nobody
  /\ proc' = [p \in Procs |-> IF proc[p].at \in Ended \cup {"start"} THEN proc[p]
                              ELSE [proc[p] EXCEPT !.at = "stopped"]]

Init ==
  /\ entries = {} /\ unsynced = {} /\ lease = Nobody /\ lock = Nobody /\ losses = 0
  /\ \E scene \in Scenes : proc = [p \in DOMAIN scene |-> scene[p]]

Next ==
  \/ PowerLoss
  \/ \E p \in Procs :
       \/ Acquire(p) \/ Preflight(p) \/ WriteMarker(p) \/ MakeRoot(p) \/ MakeKinds(p)
       \/ CheckConfig(p) \/ WriteConfig(p) \/ Finish(p)
       \/ ensure_global_config_settled(p) \/ OpenConfig(p) \/ RegistryMutationLock(p)
       \/ Check(p) \/ Create(p) \/ Stop(p)

Spec == Init /\ [][Next]_vars
-----------------------------------------------------------------------------
\* A configuration that commands will use, with no transaction beside it, is
\* whole: there is one, and the registry it names is there with its directories,
\* also after a power loss at any moment.
SettledIsWhole ==
  Marker = {} =>
    /\ Cardinality(Config) <= 1
    /\ \A c \in Config : IsDir("root", c.root) /\ IsDir("kinds", c.root)

\* Two initialisations never both succeed with different roots, nor does one end
\* well and another one's registry get used; what a command reported as made
\* survives any power loss.  (A create whose settled check came before an
\* initialisation that wrote the configuration it then opened is left out: the
\* directory it writes in is not durable yet.)
ReportsHold ==
  \A p \in Procs : proc[p].at = "done" /\ ~proc[p].beside =>
    IF proc[p].op = "init" THEN \E c \in Config : c.root = proc[p].root
    ELSE DefinitionOf(p) \in entries

\* Ids and names of the registry never repeat, whichever commands ran at once or
\* stopped in the middle.
NamesUnique ==
  \A d, e \in {f \in entries : f.dir = "kinds" /\ f.leaf # "definition.tmp"} :
    d.root = e.root /\ (d.leaf = e.leaf \/ d.name = e.name) => d = e

\* flow init in an empty Flow home, and another one for when the first was killed.
InitTwice ==
  {[p \in {"p", "q"} |-> [op |-> "init", root |-> "a", at |-> "start", id |-> "", name |-> "", beside |-> FALSE]]}

\* An initialisation that was interrupted can be taken up again: with nobody at
\* work, what the retry reads of the transaction is readable.
RetryCompletes ==
  (\A p \in Procs : proc[p].at \in Ended \cup {"start"}) =>
    \A m \in Marker : OneName(m) /\ \A c \in Config : OneName(c)
=============================================================================
