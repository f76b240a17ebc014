------------------------------ MODULE Following ------------------------------
(***************************************************************************)
(* How the app's readers follow a Workspace's resources over the bridge    *)
(* (liquid-bridge, api/workspace.rs; app, workspace/follow.dart).          *)
(*                                                                         *)
(* Every call runs under the Workspace's lock, one at a time, on whichever *)
(* thread takes it: calls made one after the other may run in either       *)
(* order.  A resource is a Page's Views or one of its Blocks, or the Areas *)
(* (page 0).                                                               *)
(***************************************************************************)
EXTENDS Naturals, Sequences, FiniteSets

CONSTANTS
  Readers,    \* each with its subscription's identity
  Follows,    \* the resource a reader follows: its page and which of its resources
  Malformed,  \* readers whose resource names no identity
  Scenes      \* which readers there are, and how many writes

VARIABLES
  state,          \* resource -> how often it really changed
  subscriptions, closed, ended, seqs,  \* Inner
  loaded,         \* the Pages whose documents are in memory
  posted,         \* calls made and not yet run
  stream,         \* reader -> changes on their way to it
  answers,        \* answers on their way to readers
  reader,         \* reader -> what it does, how often it read, and what it shows
  gone,           \* readers whose Dart stream is gone
  writes          \* writes to come

vars == <<state, subscriptions, closed, ended, seqs, loaded, posted, stream, answers, reader, gone, writes>>

Resources == {Follows[r] : r \in Readers}
Pages == {r[1] : r \in Resources} \ {0}
NotShown == 1000

\* BridgeResource::page, of the resources that subscriptions follow.
Followed(subs) == {Follows[s][1] : s \in subs}

\* Mutant: a Page stays once a call loaded it.
Released_kept(pages, page, subs) == pages

\* Inner::release_page.
Released(pages, page, subs) == IF page \in Followed(subs) THEN pages ELSE pages \ {page}

------------------------------------------------------------------------------
(* A reader. *)

\* follow: onListen.
Listen(r) ==
  /\ reader[r].doing = "new"
  /\ reader' = [reader EXCEPT ![r].doing = "follows"]
  /\ posted' = posted \cup {<<"subscribe", r, 0>>}
  /\ UNCHANGED <<state, subscriptions, closed, ended, seqs, loaded, stream, answers, gone, writes>>

\* A change arrived: the reader reads again.
Changed(r) ==
  /\ reader[r].doing = "follows" /\ stream[r] # <<>>
  /\ stream' = [stream EXCEPT ![r] = Tail(@)]
  /\ reader' = [reader EXCEPT ![r].reads = @ + 1]
  /\ posted' = posted \cup {<<"query", r, reader[r].reads + 1>>}
  /\ UNCHANGED <<state, subscriptions, closed, ended, seqs, loaded, answers, gone, writes>>

\* Mutant: whichever answer comes is shown.
Shows_any(r, read) == TRUE

\* Only the latest read shows.
Shows(r, read) == read = reader[r].reads

Answered(r) ==
  /\ \E a \in answers :
       /\ a[1] = r
       /\ answers' = answers \ {a}
       /\ reader' = IF reader[r].doing = "follows" /\ Shows(r, a[2]) THEN [reader EXCEPT ![r].shown = a[3]]
                    ELSE reader
  /\ UNCHANGED <<state, subscriptions, closed, ended, seqs, loaded, posted, stream, gone, writes>>

\* follow: onCancel.
Cancel(r) ==
  /\ reader[r].doing = "follows"
  /\ reader' = [reader EXCEPT ![r].doing = "cancelled"]
  /\ posted' = posted \cup {<<"close", r, 0>>}
  /\ UNCHANGED <<state, subscriptions, closed, ended, seqs, loaded, stream, answers, gone, writes>>

\* Dart's end of the stream goes without a cancel, as when its isolate restarts.
Gone(r) ==
  /\ reader[r].doing = "follows" /\ r \notin gone
  /\ gone' = gone \cup {r}
  /\ UNCHANGED <<state, subscriptions, closed, ended, seqs, loaded, posted, stream, answers, reader, writes>>

------------------------------------------------------------------------------
(* Calls, under the lock. *)

Taken(call) == call \in posted /\ posted' = posted \ {call}

\* watch: refused, cancelled before it arrived, or registered with the current count.
Watch(r) ==
  /\ Taken(<<"subscribe", r, 0>>)
  /\ \/ /\ r \in closed
        /\ closed' = closed \ {r}
        /\ UNCHANGED <<subscriptions, ended, stream>>
     \/ /\ r \notin closed /\ r \in Malformed \cup gone
        /\ ended' = ended \cup {r}
        /\ UNCHANGED <<subscriptions, closed, stream>>
     \/ /\ r \notin closed /\ r \notin Malformed \cup gone
        /\ subscriptions' = subscriptions \cup {r}
        /\ stream' = [stream EXCEPT ![r] = Append(@, seqs[Follows[r]])]
        /\ UNCHANGED <<closed, ended>>
  /\ UNCHANGED <<state, seqs, loaded, answers, reader, gone, writes>>

\* Mutant: a subscription that ended by itself leaves its mark when it is closed.
Close_marked(r) ==
  /\ Taken(<<"close", r, 0>>)
  /\ \/ /\ r \in subscriptions
        /\ subscriptions' = subscriptions \ {r}
        /\ loaded' = Released(loaded, Follows[r][1], subscriptions')
        /\ UNCHANGED <<closed, ended>>
     \/ /\ r \notin subscriptions
        /\ closed' = closed \cup {r}
        /\ UNCHANGED <<subscriptions, ended, loaded>>
  /\ UNCHANGED <<state, seqs, stream, answers, reader, gone, writes>>

\* LiquidWorkspace::close.
Close(r) ==
  /\ Taken(<<"close", r, 0>>)
  /\ \/ /\ r \in subscriptions
        /\ subscriptions' = subscriptions \ {r}
        /\ loaded' = Released(loaded, Follows[r][1], subscriptions')
        /\ UNCHANGED <<closed, ended>>
     \/ /\ r \notin subscriptions /\ r \in ended
        /\ ended' = ended \ {r}
        /\ UNCHANGED <<subscriptions, closed, loaded>>
     \/ /\ r \notin subscriptions /\ r \notin ended
        /\ closed' = closed \cup {r}
        /\ UNCHANGED <<subscriptions, ended, loaded>>
  /\ UNCHANGED <<state, seqs, stream, answers, reader, gone, writes>>

\* query: the Page it read is released again unless it is followed.
Query(r) ==
  /\ \E n \in 1..reader[r].reads :
       /\ Taken(<<"query", r, n>>)
       /\ answers' = answers \cup {<<r, n, state[Follows[r]]>>}
  /\ loaded' = Released(loaded \cup ({Follows[r][1]} \ {0}), Follows[r][1], subscriptions)
  /\ UNCHANGED <<state, subscriptions, closed, ended, seqs, stream, reader, gone, writes>>

\* Inner::notify, of every resource changed: subscribers whose stream is gone end.
Notify(changed) ==
  LET told == {s \in subscriptions : Follows[s] \in changed} IN
  /\ seqs' = [x \in Resources |-> IF x \in changed THEN seqs[x] + 1 ELSE seqs[x]]
  /\ stream' = [s \in Readers |-> IF s \in told \ gone THEN Append(stream[s], seqs'[Follows[s]]) ELSE stream[s]]
  /\ subscriptions' = subscriptions \ (told \cap gone)
  /\ ended' = ended \cup (told \cap gone)

\* apply: the resources of one Page change, or the Areas; or the write is refused.
Apply ==
  /\ writes > 0 /\ writes' = writes - 1
  /\ \E page \in Pages \cup {0} :
       \/ \E changed \in SUBSET {x \in Resources : x[1] = page} \ {{}} :
            /\ state' = [x \in Resources |-> IF x \in changed THEN state[x] + 1 ELSE state[x]]
            /\ Notify(changed)
            /\ loaded' = Released(loaded \cup ({page} \ {0}), page, subscriptions')
       \/ /\ page # 0
          /\ loaded' = Released(loaded \cup {page}, page, subscriptions)
          /\ UNCHANGED <<state, seqs, stream, subscriptions, ended>>
  /\ UNCHANGED <<closed, posted, answers, reader, gone>>

------------------------------------------------------------------------------
Init ==
  /\ state = [x \in Resources |-> 0] /\ seqs = [x \in Resources |-> 0]
  /\ subscriptions = {} /\ closed = {} /\ ended = {} /\ loaded = {}
  /\ posted = {} /\ answers = {}
  /\ stream = [r \in Readers |-> <<>>]
  /\ gone = {}
  /\ \E scene \in Scenes :
       /\ writes = scene.writes
       /\ reader = [r \in Readers |-> [doing |-> IF r \in scene.readers THEN "new" ELSE "absent",
                                      reads |-> 0, shown |-> NotShown]]

Next ==
  \/ \E r \in Readers : \/ Listen(r) \/ Changed(r) \/ Answered(r) \/ Cancel(r) \/ Gone(r)
                        \/ Watch(r) \/ Close(r) \/ Query(r)
  \/ Apply

Spec == Init /\ [][Next]_vars

------------------------------------------------------------------------------
\* A reader that is registered, has taken every change on its way and has no read out shows its
\* resource as it is, however its calls and answers overtook each other: it queries only after
\* the first change marks the registration, so it misses none.
FollowersCurrent ==
  \A r \in subscriptions \ gone :
    /\ stream[r] # <<>> => stream[r][Len(stream[r])] = seqs[Follows[r]]
    /\ /\ reader[r].doing = "follows" /\ stream[r] = <<>>
       /\ \A n \in 1..reader[r].reads : <<"query", r, n>> \notin posted
       /\ \A a \in answers : a[1] # r
       => reader[r].shown = state[Follows[r]]

\* Nothing of a subscription stays once it was registered and closed, in either order and however
\* it ended, and a Page that no subscription follows is not in memory after any call.
NothingKept ==
  /\ \A r \in Readers :
       reader[r].doing = "cancelled" /\ <<"subscribe", r, 0>> \notin posted /\ <<"close", r, 0>> \notin posted =>
         r \notin subscriptions \cup closed \cup ended
  /\ loaded \subseteq Followed(subscriptions)

==============================================================================
