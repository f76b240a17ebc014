------------------------------- MODULE Replica -------------------------------
(***************************************************************************)
(* How a session opens the replica of a Workspace in a folder, or makes    *)
(* it: its lock, the key in the keychain, the encrypted database and the   *)
(* Workspace in it (liquid-bridge, api/workspace.rs and keys.rs;           *)
(* liquid-storage; liquid-core, workspace.rs).                             *)
(***************************************************************************)
EXTENDS Naturals, FiniteSets

CONSTANTS
  Sessions,  \* processes that may open the folder
  Nobody,
  Crashes    \* how many sessions end in the middle

VARIABLES
  lock,      \* replica.lock
  key,       \* the keychain's key: the session that made it, in its turn
  database,  \* the file: the key it is encrypted with, its schema and the Workspace's owner
  session,   \* session -> where it is, and the key and owner it holds
  crashes,
  lost       \* whether the keychain lost or changed the key by itself

vars == <<lock, key, database, session, crashes, lost>>

NoKey == <<Nobody, 0>>
NoFile == [exists |-> FALSE, key |-> NoKey, schema |-> FALSE, owner |-> NoKey]
Closed == [at |-> "closed", key |-> NoKey, owner |-> NoKey]

Go(s, at) == session' = [session EXCEPT ![s].at = at]
Leave(s) == session' = [session EXCEPT ![s] = Closed]

\* A random value no other session draws.
Fresh(s) == <<s, crashes, lost>>

\* Mutant: the folder's lock is taken once the database is open.
TakeLock_late(s) == session[s].at = "closed" /\ Go(s, "key") /\ UNCHANGED <<lock, key, database, crashes, lost>>

\* open_lock and take_lock: held by another session for as long as that one has the Workspace.
TakeLock(s) ==
  /\ session[s].at = "closed" /\ lock = Nobody
  /\ lock' = s
  /\ Go(s, "key")
  /\ UNCHANGED <<key, database, crashes, lost>>

\* Keychain::read, and a new key only for a folder without a database.  The keychain may fail, and
\* a database whose key it does not have is not opened.
ReadKey(s) ==
  /\ session[s].at = "key"
  /\ \/ /\ key # NoKey
        /\ session' = [session EXCEPT ![s].at = "database", ![s].key = key]
        /\ UNCHANGED lock
     \/ /\ key = NoKey /\ ~database.exists
        /\ session' = [session EXCEPT ![s].at = "store_key", ![s].key = Fresh(s)]
        /\ UNCHANGED lock
     \/ Leave(s) /\ lock' = Nobody
  /\ UNCHANGED <<key, database, crashes, lost>>

\* Keychain::write.
StoreKey(s) ==
  /\ session[s].at = "store_key"
  /\ \/ key' = session[s].key /\ Go(s, "database") /\ UNCHANGED lock
     \/ Leave(s) /\ lock' = Nobody /\ UNCHANGED key
  /\ UNCHANGED <<database, crashes, lost>>

\* Sqlite::open: makes the file, which is the key's from its first write, and its schema.
OpenDatabase(s) ==
  /\ session[s].at = "database"
  /\ \/ /\ database.schema /\ database.key # session[s].key
        /\ Leave(s) /\ lock' = Nobody /\ UNCHANGED database
     \/ /\ ~database.exists
        /\ database' = [database EXCEPT !.exists = TRUE]
        /\ UNCHANGED <<lock, session>>
     \/ /\ database.exists /\ (database.schema => database.key = session[s].key)
        /\ database' = [database EXCEPT !.key = session[s].key, !.schema = TRUE]
        /\ Go(s, "workspace") /\ UNCHANGED lock
  /\ UNCHANGED <<key, crashes, lost>>

\* Workspace::open, or Workspace::create in a store that holds none, as its first Action.
OpenWorkspace(s) ==
  /\ session[s].at = "workspace"
  /\ \/ /\ database.owner # NoKey
        /\ session' = [session EXCEPT ![s].at = "open", ![s].owner = database.owner]
        /\ UNCHANGED database
     \/ /\ database.owner = NoKey
        /\ session' = [session EXCEPT ![s].at = "open", ![s].owner = Fresh(s)]
        /\ database' = [database EXCEPT !.owner = Fresh(s)]
  /\ UNCHANGED <<lock, key, crashes, lost>>

\* The Workspace is dropped.
Drop(s) ==
  /\ session[s].at = "open"
  /\ Leave(s) /\ lock' = Nobody
  /\ UNCHANGED <<key, database, crashes, lost>>

\* The process ends anywhere, and with it its lock.
Crash(s) ==
  /\ crashes < Crashes /\ session[s].at # "closed"
  /\ crashes' = crashes + 1
  /\ Leave(s)
  /\ lock' = IF lock = s THEN Nobody ELSE lock
  /\ UNCHANGED <<key, database, lost>>

Init ==
  /\ lock = Nobody /\ key = NoKey /\ database = NoFile
  /\ session = [s \in Sessions |-> Closed]
  /\ crashes = 0 /\ lost = FALSE

\* The person removes the keychain's entry, or the folder is one copied from elsewhere.
LoseKey ==
  /\ ~lost /\ lost' = TRUE
  /\ key' \in {NoKey, <<Nobody, 1>>}
  /\ UNCHANGED <<lock, database, session, crashes>>

Next ==
  \/ LoseKey
  \/ \E s \in Sessions : \/ TakeLock(s) \/ ReadKey(s) \/ StoreKey(s) \/ OpenDatabase(s) \/ OpenWorkspace(s)
                      \/ Drop(s) \/ Crash(s)

Spec == Init /\ [][Next]_vars

\* No session is ever locked out of the replica: unless the keychain lost it, the key of a
\* database that is there is in the keychain, wherever an earlier session ended; and no two
\* sessions have the Workspace at once, nor does it change hands.
NeverLockedOut ==
  /\ database.exists /\ ~lost => key # NoKey
  /\ database.schema /\ ~lost => key = database.key
  /\ \A s \in Sessions : session[s].at = "open" => session[s].owner = database.owner
  /\ \A s, t \in Sessions : session[s].at = "open" /\ session[t].at = "open" => s = t

==============================================================================
