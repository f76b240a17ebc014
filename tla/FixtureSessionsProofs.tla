----------------------- MODULE FixtureSessionsProofs -----------------------
(***************************************************************************)
(* Each session name belongs to one Run, activated sessions are whole, and *)
(* each session has one writer, for any number of processes, candidates    *)
(* and events.                                                             *)
(***************************************************************************)
EXTENDS FixtureSessions, TLAPS

Steps == Holding \cup {"list", "seek", "lease", "find", "own", "failed", "ended", "dead"}

TypeOK ==
  /\ lease \in [Names -> Procs \cup {Nobody}]
  /\ file \in [Names -> [Leaves -> Procs \cup {Nobody}]]
  /\ active \in [Names -> Procs \cup {Nobody}]
  /\ events \in [Names -> Nat]
  /\ pc \in [Procs -> Steps]
  /\ name \in [Procs -> Names]
  /\ hint \in [Procs -> [Names -> Hints]]
  /\ state \in [Procs -> {"empty", "active"}]

\* The holder of a lease is the process whose steps need it.
Leased == \A p \in Procs : pc[p] \in Holding => lease[name[p]] = p

\* An activated session: its Run's reservation is active and stays at its name.
Activated ==
  /\ \A n \in Names : active[n] # Nobody => name[active[n]] = n /\ state[active[n]] = "active"
  /\ \A p \in Procs : state[p] = "active" =>
       active[name[p]] = p /\ pc[p] \in {"write", "cleanup", "ended", "dead"}
  /\ \A p \in Procs : pc[p] = "write" => state[p] = "active"
  /\ \A p \in Procs : pc[p] = "resumed" => events[name[p]] > 0

\* The steps of a search, before anything is created.
Searching == {"list", "seek", "lease", "recheck", "plan"}

\* The steps of a creation, from the first file to the activation.
Creating == {"check2", "log", "context", "metadata", "marker", "validate"}

\* Where the files of a process can be: under one name, none of them while it still
\* searches.  The events file is created first and roots the bundle: a creation
\* that goes on made it itself, and every other file has the same creator.
Accounted ==
  /\ \A p \in Procs : \A n \in Names : \A l \in Bundle :
       file[n][l] = p => n = name[p] /\ pc[p] \notin Searching
  /\ \A p \in Procs : pc[p] \in Creating => file[name[p]]["session"] = p
  /\ \A n \in Names : \A l \in Bundle : file[n][l] \in {Nobody, file[n]["session"]}

\* The part of SessionsKept that is inductive with the rest.
Whole == \A n \in Names : active[n] # Nobody => \A l \in Bundle : file[n][l] = active[n]

IInv == TypeOK /\ Leased /\ Activated /\ Accounted /\ Whole
        /\ \A n \in Names : events[n] > 0 => active[n] # Nobody

-----------------------------------------------------------------------------
(* The inductive invariant.                                                *)

\* The initial states satisfy the invariant.
LEMMA Initially == Init => IInv
<1> SUFFICES ASSUME Init PROVE IInv
  BY Zenon
<1>1. TypeOK
  BY BoundsAssumption, Zenon DEF Init, TypeOK, Steps, Holding, Hints, Leaves, Bundle
<1>2. Leased /\ Activated /\ Whole
  BY NobodyAssumption, Zenon DEF Init, Leased, Activated, Whole, Holding, Leaves, Bundle
<1>3. Accounted
  <2>1. \A n \in Names : \A l \in Bundle : file[n][l] = Nobody
    BY Zenon DEF Init, Leaves
  <2>2. \A p \in Procs : pc[p] \notin Creating
    BY Zenon DEF Init, Creating
  <2> QED
    BY <2>1, <2>2, NobodyAssumption, Zenon DEF Accounted
<1> QED
  BY <1>1, <1>2, <1>3 DEF Init, IInv

\* A step of p that changes no file: p goes on to step s at name n, and may take
\* the lease of its name when it is free or give up the lease it holds.
Move(p, s, n) ==
  /\ pc' = [pc EXCEPT ![p] = s] /\ name' = [name EXCEPT ![p] = n]
  /\ hint' \in [Procs -> [Names -> Hints]]
  /\ UNCHANGED <<file, active, events, state>>
  /\ \/ lease' = lease
     \/ lease[name[p]] = Nobody /\ lease' = [lease EXCEPT ![name[p]] = p]
     \/ lease[name[p]] = p /\ lease' = [lease EXCEPT ![name[p]] = Nobody]
  /\ s \in Holding => lease'[n] = p
  /\ n # name[p] => pc[p] \in Searching
  /\ s \in Searching => pc[p] \in Searching
  /\ s \in Creating => pc[p] \in Creating
  /\ state[p] = "active" => s \in {"cleanup", "ended", "dead"}
  /\ s # "write"
  /\ s = "resumed" => events[n] > 0

\* Such a step preserves the invariant.
LEMMA MovePreserves ==
  ASSUME IInv, NEW p \in Procs, NEW s \in Steps, NEW n \in Names, Move(p, s, n)
  PROVE  IInv'
<1> USE NobodyAssumption
<1>1. TypeOK'
  <2>1. lease' \in [Names -> Procs \cup {Nobody}]
    BY Zenon DEF IInv, TypeOK, Move
  <2>2. pc' \in [Procs -> Steps] /\ name' \in [Procs -> Names]
    BY Zenon DEF IInv, TypeOK, Move
  <2> QED
    BY <2>1, <2>2, Zenon DEF IInv, TypeOK, Move
<1>2. /\ \A q \in Procs : pc'[q] = IF q = p THEN s ELSE pc[q]
      /\ \A q \in Procs : name'[q] = IF q = p THEN n ELSE name[q]
      /\ file' = file /\ active' = active /\ events' = events
      /\ state' = state
  BY Zenon DEF IInv, TypeOK, Move
<1>3. Leased'
  <2> SUFFICES ASSUME NEW q \in Procs, pc'[q] \in Holding PROVE lease'[name'[q]] = q
    BY Zenon DEF Leased
  <2>1. CASE q = p
    BY <2>1, <1>2 DEF Move
  <2>2. CASE q # p
    <3>1. lease[name[q]] = q /\ name'[q] = name[q]
      BY <2>2, <1>2, Zenon DEF IInv, Leased
    <3> QED
      BY <3>1, <2>2, Zenon DEF Move, IInv, TypeOK
  <2> QED
    BY <2>1, <2>2, Zenon
<1>4. n # name[p] => /\ state[p] = "empty" /\ pc[p] \notin Creating
                     /\ \A m \in Names : \A l \in Bundle : file[m][l] # p
  <2> SUFFICES ASSUME n # name[p]
               PROVE  /\ state[p] = "empty" /\ pc[p] \notin Creating
                      /\ \A m \in Names : \A l \in Bundle : file[m][l] # p
    BY Zenon
  <2>1. pc[p] \in Searching
    BY Zenon DEF Move
  <2>2. \A m \in Names : \A l \in Bundle : file[m][l] # p
    BY <2>1, Zenon DEF IInv, Accounted
  <2>3. state[p] # "active" /\ pc[p] \notin Creating
    BY <2>1, Zenon DEF IInv, Activated, Searching, Creating
  <2> QED
    BY <2>2, <2>3, Zenon DEF IInv, TypeOK
<1>5. Activated'
  BY <1>2, <1>4 DEF Move, IInv, TypeOK, Activated
<1>6. Accounted'
  <2>1. ASSUME NEW q \in Procs, NEW m \in Names, NEW l \in Bundle, file[m][l] = q
        PROVE  m = name'[q] /\ pc'[q] \notin Searching
    <3>1. m = name[q] /\ pc[q] \notin Searching
      BY <2>1, Zenon DEF IInv, Accounted
    <3> QED
      BY <3>1, <2>1, <1>2, <1>4, Zenon DEF Move
  <2>2. ASSUME NEW q \in Procs, pc'[q] \in Creating PROVE file[name'[q]]["session"] = q
    <3>1. pc[q] \in Creating
      BY <2>2, <1>2, Zenon DEF Move
    <3>2. name'[q] = name[q]
      BY <3>1, <1>2, <1>4, Zenon
    <3> QED
      BY <3>1, <3>2, Zenon DEF IInv, Accounted
  <2> QED
    BY <2>1, <2>2, <1>2, Zenon DEF IInv, Accounted
<1>7. Whole'
  BY <1>2, Zenon DEF IInv, Whole
<1> QED
  BY <1>1, <1>2, <1>3, <1>5, <1>6, <1>7, Zenon DEF IInv

\* A step of p that creates the leaf l of its bundle, or opens or creates a marker.
Touch(p, s, l, x) ==
  /\ pc' = [pc EXCEPT ![p] = s]
  /\ file' = [file EXCEPT ![name[p]][l] = x]
  /\ UNCHANGED <<lease, active, events, name, hint, state>>
  /\ l \in Bundle => x = p /\ file[name[p]][l] = Nobody
  /\ l \in Bundle => l = "session" \/ pc[p] \in Creating
  /\ s \in Creating => pc[p] \in Creating \/ l = "session"
  /\ s \in Holding => pc[p] \in Holding
  /\ pc[p] \notin Searching /\ s \notin Searching
  /\ state[p] = "active" => s \in {"cleanup", "ended", "dead"}
  /\ s # "write" /\ s # "resumed"

\* Such a step preserves the invariant.
LEMMA TouchPreserves ==
  ASSUME IInv, NEW p \in Procs, NEW s \in Steps, NEW l \in Leaves,
         NEW x \in Procs \cup {Nobody}, Touch(p, s, l, x)
  PROVE  IInv'
<1> USE NobodyAssumption
<1>1. TypeOK'
  <2>1. file' \in [Names -> [Leaves -> Procs \cup {Nobody}]]
    BY Zenon DEF IInv, TypeOK, Touch
  <2>2. pc' \in [Procs -> Steps]
    BY Zenon DEF IInv, TypeOK, Touch
  <2> QED
    BY <2>1, <2>2, Zenon DEF IInv, TypeOK, Touch
<1>2. /\ \A q \in Procs : pc'[q] = IF q = p THEN s ELSE pc[q]
      /\ \A n \in Names : \A k \in Leaves :
           file'[n][k] = IF n = name[p] /\ k = l THEN x ELSE file[n][k]
      /\ lease' = lease /\ active' = active /\ events' = events
      /\ name' = name /\ state' = state
  BY Zenon DEF IInv, TypeOK, Touch
<1>3. Leased'
  BY <1>2 DEF IInv, Leased, Touch
<1>4. Activated'
  BY <1>2 DEF IInv, Activated, Touch
<1>5. Accounted'
  <2>0. "session" \in Leaves /\ "session" \in Bundle /\ Bundle \subseteq Leaves /\ name[p] \in Names
    BY Zenon DEF Leaves, Bundle, IInv, TypeOK
  <2>1. ASSUME NEW q \in Procs, NEW n \in Names, NEW k \in Bundle, file'[n][k] = q
        PROVE  n = name'[q] /\ pc'[q] \notin Searching
    <3>1. CASE n = name[p] /\ k = l
      <4>1. q = p
        BY <2>0, <3>1, <2>1, <1>2, Zenon DEF Touch
      <4> QED
        BY <4>1, <3>1, <1>2, Zenon DEF Touch
    <3>2. CASE ~(n = name[p] /\ k = l)
      <4>0. file[n][k] = q
        BY <2>0, <3>2, <2>1, <1>2
      <4>1. n = name[q] /\ pc[q] \notin Searching
        BY <4>0, Zenon DEF IInv, Accounted
      <4> QED
        BY <4>1, <1>2, Zenon DEF Touch
    <3> QED
      BY <3>1, <3>2, Zenon
  <2>2. ASSUME NEW q \in Procs, pc'[q] \in Creating PROVE file'[name'[q]]["session"] = q
    <3>0. name[q] \in Names
      BY Zenon DEF IInv, TypeOK
    <3>1. CASE pc[q] \in Creating
      <4>1. file[name[q]]["session"] = q
        BY <3>1, Zenon DEF IInv, Accounted
      <4>2. file'[name[q]]["session"] =
              IF name[q] = name[p] /\ "session" = l THEN x ELSE file[name[q]]["session"]
        BY <3>0, <2>0, <1>2, Zenon
      <4>3. ~(name[q] = name[p] /\ "session" = l)
        BY <4>1, <2>0, NobodyAssumption, Zenon DEF Touch
      <4> QED
        BY <4>1, <4>2, <4>3, <1>2, Zenon
    <3>2. CASE pc[q] \notin Creating
      <4>1. q = p /\ l = "session"
        BY <3>2, <2>2, <1>2, Zenon DEF Touch
      <4> QED
        BY <4>1, <2>0, <1>2, Zenon DEF Touch
    <3> QED
      BY <3>1, <3>2, Zenon
  <2>3. ASSUME NEW n \in Names, NEW k \in Bundle PROVE file'[n][k] \in {Nobody, file'[n]["session"]}
    <3>1. file[n][k] \in {Nobody, file[n]["session"]}
      BY Zenon DEF IInv, Accounted
    <3>2. CASE n # name[p] \/ l \notin Bundle
      BY <3>1, <3>2, <2>0, <1>2, Zenon
    <3>0. file'[n][k] = IF n = name[p] /\ k = l THEN x ELSE file[n][k]
      BY <2>0, <1>2, Zenon
    <3>9. file'[n]["session"] = IF n = name[p] /\ "session" = l THEN x ELSE file[n]["session"]
      BY <2>0, <1>2, Zenon
    <3>3. CASE n = name[p] /\ l = "session"
      <4>1. file[n]["session"] = Nobody
        BY <3>3, <2>0, Zenon DEF Touch
      <4> QED
        BY <4>1, <3>0, <3>9, <3>1, <3>3
    <3>4. CASE n = name[p] /\ l \in Bundle /\ l # "session"
      <4>1. file[n]["session"] = p
        BY <3>4, Zenon DEF Touch, IInv, Accounted
      <4> QED
        BY <4>1, <3>0, <3>9, <3>1, <3>4 DEF Touch
    <3> QED
      BY <3>2, <3>3, <3>4, Zenon
  <2> QED
    BY <2>1, <2>2, <2>3, <1>2, Zenon DEF Accounted
<1>6. Whole'
  <2> SUFFICES ASSUME NEW n \in Names, active[n] # Nobody, NEW k \in Bundle
               PROVE  file'[n][k] = active[n]
    BY <1>2, Zenon DEF Whole
  <2>1. active[n] \in Procs /\ k \in Leaves /\ file[n][k] = active[n]
    BY DEF IInv, TypeOK, Whole, Leaves
  <2>2. CASE n = name[p] /\ k = l
    BY <2>1, <2>2, Zenon DEF Touch
  <2>3. CASE ~(n = name[p] /\ k = l)
    BY <2>1, <2>3, <1>2, Zenon
  <2> QED
    BY <2>2, <2>3, Zenon
<1> QED
  BY <1>1, <1>2, <1>3, <1>4, <1>5, <1>6, Zenon DEF IInv

\* What the invariant says of one process.
Here(p) ==
  /\ name[p] \in Names /\ hint \in [Procs -> [Names -> Hints]]
  /\ name = [name EXCEPT ![p] = name[p]]
  /\ pc[p] \in Holding => lease[name[p]] = p
  /\ state[p] \in {"empty", "active"}
  /\ state[p] = "active" => pc[p] \in {"write", "cleanup", "ended", "dead"}
  /\ Bundle \subseteq Leaves
  /\ file \in [Names -> [Leaves -> Procs \cup {Nobody}]]
  /\ lease \in [Names -> Procs \cup {Nobody}]
  /\ 1..Candidates = Names /\ Candidates \in Nat

\* It follows from the invariant.
LEMMA HereHolds == ASSUME IInv, NEW p \in Procs PROVE Here(p)
<1>1. name = [name EXCEPT ![p] = name[p]] /\ name[p] \in Names
  BY Zenon DEF IInv, TypeOK
<1> QED
  BY <1>1, BoundsAssumption, ZenonT(60) DEF Here, IInv, TypeOK, Leased, Activated, Names, Leaves

\* Every step preserves the invariant.
LEMMA Preserved == IInv /\ [Next]_vars => IInv'
<1> SUFFICES ASSUME IInv, [Next]_vars PROVE IInv'
  BY Zenon
<1>1. ASSUME NEW p \in Procs, List(p) PROVE IInv'
  <2> USE <1>1
  <2>f. Here(p)
    BY HereHolds, Zenon
  <2>1. Move(p, "seek", name[p])
    BY <2>f, Zenon DEF List, Here, Move, Goto, Hints, Holding, Searching, Creating
  <2> QED
    BY <2>1, <2>f, MovePreserves, Zenon DEF Here, Steps, Holding
<1>2. ASSUME NEW p \in Procs, Seek(p) PROVE IInv'
  <2> USE <1>2
  <2>f. Here(p)
    BY HereHolds, Zenon
  <2>1. CASE name[p] = Candidates /\ Goto(p, "failed") /\ name' = name
    <3>1. Move(p, "failed", name[p])
      BY <2>f, <2>1, Zenon DEF Seek, Here, Move, Goto, NextCandidate, Hints, Holding, Searching, Creating
    <3> QED
      BY <3>1, <2>f, <2>1, MovePreserves, Zenon DEF Here, Steps, Holding
  <2>2. CASE name[p] # Candidates /\ Goto(p, "seek") /\ name' = [name EXCEPT ![p] = name[p] + 1]
    <3>1. Move(p, "seek", name[p] + 1)
      BY <2>f, <2>2, Zenon DEF Seek, Here, Move, Goto, NextCandidate, Hints, Holding, Searching, Creating
    <3> QED
      BY <3>1, <2>f, <2>2, MovePreserves DEF Here, Steps, Holding
  <2>3. CASE Goto(p, "lease") /\ name' = name
    <3>1. Move(p, "lease", name[p])
      BY <2>f, <2>3, Zenon DEF Seek, Here, Move, Goto, NextCandidate, Hints, Holding, Searching, Creating
    <3> QED
      BY <3>1, <2>f, <2>3, MovePreserves, Zenon DEF Here, Steps, Holding
  <2> QED
    BY <2>1, <2>2, <2>3, Zenon DEF Seek, Goto, NextCandidate, Hints, Holding, Searching, Creating
<1>3. ASSUME NEW p \in Procs, Acquire(p) PROVE IInv'
  <2> USE <1>3
  <2>f. Here(p)
    BY HereHolds, Zenon
  <2>1. CASE lease' = lease /\ name[p] = Candidates /\ Goto(p, "failed") /\ name' = name
    <3>1. Move(p, "failed", name[p])
      BY <2>f, <2>1, Zenon DEF Acquire, Here, Move, Goto, NextCandidate, Acquired, Holding, Searching, Creating
    <3> QED
      BY <3>1, <2>f, <2>1, MovePreserves, Zenon DEF Here, Steps, Holding
  <2>2. CASE lease' = lease /\ name[p] # Candidates /\ Goto(p, "seek") /\ name' = [name EXCEPT ![p] = name[p] + 1]
    <3>1. Move(p, "seek", name[p] + 1)
      BY <2>f, <2>2, Zenon DEF Acquire, Here, Move, Goto, NextCandidate, Acquired, Holding, Searching, Creating
    <3> QED
      BY <3>1, <2>f, <2>2, MovePreserves DEF Here, Steps, Holding
  <2>3. CASE Acquired(p) /\ Goto(p, "recheck") /\ name' = name
    <3>1. Move(p, "recheck", name[p])
      BY <2>f, <2>3, Zenon DEF Acquire, Here, Move, Goto, NextCandidate, Acquired, Holding, Searching, Creating
    <3> QED
      BY <3>1, <2>f, <2>3, MovePreserves, Zenon DEF Here, Steps, Holding
  <2> QED
    BY <2>1, <2>2, <2>3, Zenon DEF Acquire, Goto, NextCandidate, Acquired, Holding, Searching, Creating
<1>4. ASSUME NEW p \in Procs, Recheck(p) PROVE IInv'
  <2> USE <1>4
  <2>f. Here(p)
    BY HereHolds, Zenon
  <2>1. CASE Release(p) /\ name[p] = Candidates /\ Goto(p, "failed") /\ name' = name
    <3>1. Move(p, "failed", name[p])
      BY <2>f, <2>1, Zenon DEF Recheck, Here, Move, Goto, NextCandidate, Release, Holding, Searching, Creating
    <3> QED
      BY <3>1, <2>f, <2>1, MovePreserves, Zenon DEF Here, Steps, Holding
  <2>2. CASE Release(p) /\ name[p] # Candidates /\ Goto(p, "seek") /\ name' = [name EXCEPT ![p] = name[p] + 1]
    <3>1. Move(p, "seek", name[p] + 1)
      BY <2>f, <2>2, Zenon DEF Recheck, Here, Move, Goto, NextCandidate, Release, Holding, Searching, Creating
    <3> QED
      BY <3>1, <2>f, <2>2, MovePreserves DEF Here, Steps, Holding
  <2>3. CASE Goto(p, "plan") /\ lease' = lease /\ name' = name
    <3>1. Move(p, "plan", name[p])
      BY <2>f, <2>3, Zenon DEF Recheck, Here, Move, Goto, NextCandidate, Release, Holding, Searching, Creating
    <3> QED
      BY <3>1, <2>f, <2>3, MovePreserves, Zenon DEF Here, Steps, Holding
  <2> QED
    BY <2>1, <2>2, <2>3, Zenon DEF Recheck, Goto, NextCandidate, Release, Holding, Searching, Creating
<1>5. ASSUME NEW p \in Procs, Plan(p) PROVE IInv'
  <2> USE <1>5
  <2>f. Here(p)
    BY HereHolds, Zenon
  <2>1. CASE Goto(p, "check") /\ lease' = lease
    <3>1. Move(p, "check", name[p])
      BY <2>f, <2>1, Zenon DEF Plan, Here, Move, Goto, Release, Holding, Searching, Creating
    <3> QED
      BY <3>1, <2>f, <2>1, MovePreserves, Zenon DEF Here, Steps, Holding
  <2>2. CASE Goto(p, "failed") /\ Release(p)
    <3>1. Move(p, "failed", name[p])
      BY <2>f, <2>2, Zenon DEF Plan, Here, Move, Goto, Release, Holding, Searching, Creating
    <3> QED
      BY <3>1, <2>f, <2>2, MovePreserves, Zenon DEF Here, Steps, Holding
  <2> QED
    BY <2>1, <2>2, Zenon DEF Plan, Goto, Release, Holding, Searching, Creating
<1>6. ASSUME NEW p \in Procs, Check(p) PROVE IInv'
  <2> USE <1>6
  <2>f. Here(p)
    BY HereHolds, Zenon
  <2>1. CASE pc[p] = "check" /\ Goto(p, "session")
    <3>1. Move(p, "session", name[p])
      BY <2>f, <2>1, Zenon DEF Check, Here, Move, Goto, Fails, Holding, Searching, Creating
    <3> QED
      BY <3>1, <2>f, <2>1, MovePreserves, Zenon DEF Here, Steps, Holding
  <2>2. CASE pc[p] = "check2" /\ Goto(p, "log")
    <3>1. Move(p, "log", name[p])
      BY <2>f, <2>2, Zenon DEF Check, Here, Move, Goto, Fails, Holding, Searching, Creating
    <3> QED
      BY <3>1, <2>f, <2>2, MovePreserves, Zenon DEF Here, Steps, Holding
  <2>3. CASE Goto(p, "cleanup")
    <3>1. Move(p, "cleanup", name[p])
      BY <2>f, <2>3, Zenon DEF Check, Here, Move, Goto, Fails, Holding, Searching, Creating
    <3> QED
      BY <3>1, <2>f, <2>3, MovePreserves, Zenon DEF Here, Steps, Holding
  <2> QED
    BY <2>1, <2>2, <2>3, Zenon DEF Check, Goto, Fails, Holding, Searching, Creating
<1>7. ASSUME NEW p \in Procs, Materialize(p) PROVE IInv'
  <2> USE <1>7
  <2>f. Here(p)
    BY HereHolds, Zenon
  <2>1. CASE pc[p] = "session" /\ Create(p, "session") /\ Goto(p, "check2")
    <3>1. Touch(p, "check2", "session", p)
      BY <2>f, <2>1, Zenon DEF Materialize, Here, Touch, Create, Absent, Goto, Fails, Bundle, Holding, Searching, Creating
    <3> QED
      BY <3>1, <2>f, <2>1, TouchPreserves, Zenon DEF Here, Steps, Holding, Leaves, Bundle
  <2>2. CASE pc[p] = "log" /\ Create(p, "log") /\ Goto(p, "context")
    <3>1. Touch(p, "context", "log", p)
      BY <2>f, <2>2, Zenon DEF Materialize, Here, Touch, Create, Absent, Goto, Fails, Bundle, Holding, Searching, Creating
    <3> QED
      BY <3>1, <2>f, <2>2, TouchPreserves, Zenon DEF Here, Steps, Holding, Leaves, Bundle
  <2>3. CASE pc[p] = "context" /\ Create(p, "context") /\ Goto(p, "metadata")
    <3>1. Touch(p, "metadata", "context", p)
      BY <2>f, <2>3, Zenon DEF Materialize, Here, Touch, Create, Absent, Goto, Fails, Bundle, Holding, Searching, Creating
    <3> QED
      BY <3>1, <2>f, <2>3, TouchPreserves, Zenon DEF Here, Steps, Holding, Leaves, Bundle
  <2>4. CASE pc[p] \in {"session", "log", "context"} /\ Fails(p)
    <3>1. Move(p, "cleanup", name[p])
      BY <2>f, <2>4, Zenon DEF Materialize, Here, Move, Goto, Fails, Bundle, Holding, Searching, Creating
    <3> QED
      BY <3>1, <2>f, <2>4, MovePreserves, Zenon DEF Here, Steps, Holding
  <2> QED
    BY <2>1, <2>2, <2>3, <2>4, Zenon DEF Materialize, Goto, Fails, Bundle, Holding, Searching, Creating
<1>8. ASSUME NEW p \in Procs, Metadata(p) PROVE IInv'
  <2> USE <1>8
  <2>f. Here(p)
    BY HereHolds, Zenon
  <2>1. CASE Goto(p, "marker")
    <3>1. Move(p, "marker", name[p])
      BY <2>f, <2>1, Zenon DEF Metadata, Here, Move, Goto, Fails, Holding, Searching, Creating
    <3> QED
      BY <3>1, <2>f, <2>1, MovePreserves, Zenon DEF Here, Steps, Holding
  <2>2. CASE Goto(p, "cleanup")
    <3>1. Move(p, "cleanup", name[p])
      BY <2>f, <2>2, Zenon DEF Metadata, Here, Move, Goto, Fails, Holding, Searching, Creating
    <3> QED
      BY <3>1, <2>f, <2>2, MovePreserves, Zenon DEF Here, Steps, Holding
  <2> QED
    BY <2>1, <2>2, Zenon DEF Metadata, Goto, Fails, Holding, Searching, Creating
<1>9. ASSUME NEW p \in Procs, Activate(p) PROVE IInv'
  <2> USE <1>9
  <2>f. Here(p)
    BY HereHolds, Zenon
  <2>1. CASE pc[p] = "marker" /\ Create(p, "marker") /\ Goto(p, "validate") /\ UNCHANGED <<active, state>>
    <3>1. Touch(p, "validate", "marker", p)
      BY <2>f, <2>1, Zenon DEF Activate, Create, Goto, Absent, Touch, Here, Bundle, Searching, Creating, Holding
    <3> QED
      BY <3>1, <2>f, TouchPreserves, Zenon DEF Here, Steps, Holding, Leaves
  <2>2. CASE pc[p] \in {"marker", "validate"} /\ Fails(p) /\ UNCHANGED <<active, state>>
    <3>1. Move(p, "cleanup", name[p])
      BY <2>f, <2>2, Zenon DEF Activate, Fails, Goto, Move, Here, Searching, Creating, Holding
    <3> QED
      BY <3>1, <2>f, MovePreserves, Zenon DEF Here, Steps, Holding
  <2>3. CASE /\ pc[p] = "validate" /\ \A l \in Bundle : file[name[p]][l] = p
             /\ Goto(p, "write") /\ UNCHANGED file
             /\ state' = [state EXCEPT ![p] = "active"]
             /\ active' = [active EXCEPT ![name[p]] = p]
    <3>1. /\ \A q \in Procs : pc'[q] = IF q = p THEN "write" ELSE pc[q]
          /\ \A q \in Procs : state'[q] = IF q = p THEN "active" ELSE state[q]
          /\ \A n \in Names : active'[n] = IF n = name[p] THEN p ELSE active[n]
          /\ lease' = lease /\ file' = file /\ events' = events /\ name' = name
      BY <2>3, <2>f, Zenon DEF Activate, Goto, IInv, TypeOK
    <3>2. TypeOK'
      <4>1. pc' \in [Procs -> Steps] /\ state' \in [Procs -> {"empty", "active"}]
        BY <2>3, Zenon DEF Goto, IInv, TypeOK, Steps, Holding
      <4>2. active' \in [Names -> Procs \cup {Nobody}]
        BY <2>3, <2>f, Zenon DEF IInv, TypeOK, Here
      <4> QED
        BY <4>1, <4>2, <2>3, Zenon DEF Activate, IInv, TypeOK
    <3>3. Leased'
      BY <3>1, <2>3, Zenon DEF IInv, Leased, Holding
    <3>4. active[name[p]] # Nobody => active[name[p]] = p
      BY <2>3, <2>f, Zenon DEF IInv, Whole, Here, Bundle
    <3>5. state[p] = "empty"
      BY <2>3, <2>f, Zenon DEF Here
    <3>6. active[name[p]] = Nobody
      BY <3>4, <3>5, <2>f, NobodyAssumption, Zenon DEF IInv, Activated, Here
    <3>7. Activated'
      <4>1. ASSUME NEW n \in Names, active'[n] # Nobody
            PROVE  name'[active'[n]] = n /\ state'[active'[n]] = "active"
        <5>1. CASE n = name[p]
          BY <5>1, <3>1, Zenon
        <5>2. CASE n # name[p]
          <6>1. active'[n] = active[n] /\ active[n] \in Procs
            BY <5>2, <4>1, <3>1 DEF IInv, TypeOK
          <6>2. name[active[n]] = n /\ state[active[n]] = "active"
            BY <6>1, <4>1, Zenon DEF IInv, Activated
          <6> QED
            BY <6>1, <6>2, <3>1, Zenon
        <5> QED
          BY <5>1, <5>2, Zenon
      <4>2. ASSUME NEW q \in Procs, state'[q] = "active"
            PROVE  active'[name'[q]] = q /\ pc'[q] \in {"write", "cleanup", "ended", "dead"}
        <5>1. CASE q = p
          BY <5>1, <3>1, <2>f, Zenon DEF Here
        <5>2. CASE q # p
          <6>1. active[name[q]] = q /\ pc'[q] \in {"write", "cleanup", "ended", "dead"}
            BY <5>2, <4>2, <3>1, Zenon DEF IInv, Activated
          <6>2. name[q] # name[p]
            BY <6>1, <3>6, NobodyAssumption, Zenon
          <6> QED
            BY <6>1, <6>2, <3>1, Zenon DEF IInv, TypeOK
        <5> QED
          BY <5>1, <5>2, Zenon
      <4>3. \A q \in Procs : pc'[q] = "write" => state'[q] = "active"
        BY <3>1 DEF IInv, Activated
      <4>4. \A q \in Procs : pc'[q] = "resumed" => events'[name'[q]] > 0
        BY <3>1, Zenon DEF IInv, Activated
      <4> QED
        BY <4>1, <4>2, <4>3, <4>4, Zenon DEF Activated
    <3>8. Accounted'
      <4>1. \A q \in Procs : /\ pc[q] \notin Searching => pc'[q] \notin Searching
                             /\ pc'[q] \in Creating => pc[q] \in Creating
        BY <3>1 DEF Searching, Creating
      <4>2. file' = file /\ name' = name
        BY <3>1, Zenon
      <4> QED
        BY <4>1, <4>2, Zenon DEF IInv, Accounted
    <3>9. Whole'
      BY <3>1, <2>3, <2>f DEF IInv, Whole, Here
    <3> QED
      BY <3>1, <3>2, <3>3, <3>7, <3>8, <3>9, NobodyAssumption, Zenon DEF IInv
  <2> QED
    BY <2>1, <2>2, <2>3, Zenon DEF Activate
<1>10. ASSUME NEW p \in Procs, Write(p) PROVE IInv'
  <2> USE <1>10
  <2>f. Here(p)
    BY HereHolds, Zenon
  <2>1. active[name[p]] # Nobody
    BY <2>f, NobodyAssumption DEF Write, IInv, Activated, Here
  <2>2. events' \in [Names -> Nat]
    BY <2>f DEF Write, IInv, TypeOK, Here
  <2>3. \A n \in Names : n # name[p] => events'[n] = events[n]
    BY <2>f, Zenon DEF Write, IInv, TypeOK, Here
  <2>4. TypeOK' /\ Leased' /\ Accounted' /\ Whole'
    BY <2>2 DEF Write, IInv, TypeOK, Leased, Accounted, Whole
  <2>5. \A n \in Names : events[n] > 0 => events'[n] > 0
    BY <2>f DEF Write, IInv, TypeOK, Here
  <2>6. Activated'
    BY <2>5 DEF Write, IInv, Activated, TypeOK
  <2> QED
    BY <2>1, <2>3, <2>4, <2>6, Zenon DEF Write, IInv
<1>11. ASSUME NEW p \in Procs, Done(p) PROVE IInv'
  <2> USE <1>11
  <2>f. Here(p)
    BY HereHolds, Zenon
  <2>1. Move(p, "cleanup", name[p])
    BY <2>f, Zenon DEF Done, Here, Move, Goto, Holding, Searching, Creating
  <2> QED
    BY <2>1, <2>f, MovePreserves, Zenon DEF Here, Steps, Holding
<1>12. ASSUME NEW p \in Procs, Cleanup(p) PROVE IInv'
  <2> USE <1>12
  <2>f. Here(p)
    BY HereHolds, Zenon
  <2>1. CASE Goto(p, "failed") /\ state[p] = "empty"
    <3>1. Move(p, "failed", name[p])
      BY <2>f, <2>1, Zenon DEF Cleanup, Here, Move, Goto, Release, Holding, Searching, Creating
    <3> QED
      BY <3>1, <2>f, <2>1, MovePreserves, Zenon DEF Here, Steps, Holding
  <2>2. CASE Goto(p, "ended")
    <3>1. Move(p, "ended", name[p])
      BY <2>f, <2>2, Zenon DEF Cleanup, Here, Move, Goto, Release, Holding, Searching, Creating
    <3> QED
      BY <3>1, <2>f, <2>2, MovePreserves, Zenon DEF Here, Steps, Holding
  <2> QED
    BY <2>1, <2>2, Zenon DEF Cleanup, Goto
<1>13. ASSUME NEW p \in Procs, Find(p) PROVE IInv'
  <2> USE <1>13
  <2>f. Here(p)
    BY HereHolds, Zenon
  <2>1. CASE pc[p] = "find" /\ lease' = lease /\ file' = file /\ Goto(p, "failed")
    <3>1. Move(p, "failed", name[p])
      BY <2>f, <2>1, Zenon DEF Find, Here, Move, Goto, Release, Acquired, Holding, Searching, Creating, Bundle, Leaves
    <3> QED
      BY <3>1, <2>f, <2>1, MovePreserves, Zenon DEF Here, Steps, Holding
  <2>2. CASE pc[p] = "find" /\ lease' = lease /\ file' = file /\ Goto(p, "own")
    <3>1. Move(p, "own", name[p])
      BY <2>f, <2>2, Zenon DEF Find, Here, Move, Goto, Release, Acquired, Holding, Searching, Creating, Bundle, Leaves
    <3> QED
      BY <3>1, <2>f, <2>2, MovePreserves, Zenon DEF Here, Steps, Holding
  <2>3. CASE pc[p] = "own" /\ Acquired(p) /\ file' = file /\ Goto(p, "mark")
    <3>1. Move(p, "mark", name[p])
      BY <2>f, <2>3, Zenon DEF Find, Here, Move, Goto, Release, Acquired, Holding, Searching, Creating, Bundle, Leaves
    <3> QED
      BY <3>1, <2>f, <2>3, MovePreserves, Zenon DEF Here, Steps, Holding
  <2>4. CASE pc[p] = "own" /\ lease' = lease /\ file' = file /\ Goto(p, "failed")
    <3>1. Move(p, "failed", name[p])
      BY <2>f, <2>4, Zenon DEF Find, Here, Move, Goto, Release, Acquired, Holding, Searching, Creating, Bundle, Leaves
    <3> QED
      BY <3>1, <2>f, <2>4, MovePreserves, Zenon DEF Here, Steps, Holding
  <2>5. CASE pc[p] = "mark" /\ lease' = lease /\ Goto(p, "open") /\ file' = [file EXCEPT ![name[p]]["marker"] = IF file[name[p]]["marker"] = Nobody THEN p ELSE file[name[p]]["marker"]]
    <3>1. Touch(p, "open", "marker", (IF file[name[p]]["marker"] = Nobody THEN p ELSE file[name[p]]["marker"]))
      BY <2>f, <2>5, Zenon DEF Find, Here, Touch, Create, Absent, Goto, Release, Acquired, Holding, Searching, Creating, Bundle, Leaves
    <3> QED
      BY <3>1, <2>f, <2>5, TouchPreserves DEF Here, Steps, Holding, Leaves, Bundle
  <2>6. CASE pc[p] = "open" /\ lease' = lease /\ file' = file /\ Goto(p, "resumed") /\ events[name[p]] > 0
    <3>1. Move(p, "resumed", name[p])
      BY <2>f, <2>6, Zenon DEF Find, Here, Move, Goto, Release, Acquired, Holding, Searching, Creating, Bundle, Leaves
    <3> QED
      BY <3>1, <2>f, <2>6, MovePreserves, Zenon DEF Here, Steps, Holding
  <2>7. CASE pc[p] = "open" /\ Release(p) /\ file' = file /\ Goto(p, "failed")
    <3>1. Move(p, "failed", name[p])
      BY <2>f, <2>7, Zenon DEF Find, Here, Move, Goto, Release, Acquired, Holding, Searching, Creating, Bundle, Leaves
    <3> QED
      BY <3>1, <2>f, <2>7, MovePreserves, Zenon DEF Here, Steps, Holding
  <2>8. CASE pc[p] = "resumed" /\ Release(p) /\ file' = file /\ Goto(p, "ended")
    <3>1. Move(p, "ended", name[p])
      BY <2>f, <2>8, Zenon DEF Find, Here, Move, Goto, Release, Acquired, Holding, Searching, Creating, Bundle, Leaves
    <3> QED
      BY <3>1, <2>f, <2>8, MovePreserves, Zenon DEF Here, Steps, Holding
  <2> QED
    BY <2>1, <2>2, <2>3, <2>4, <2>5, <2>6, <2>7, <2>8, Zenon DEF Find, Goto, Release, Acquired, Holding, Searching, Creating, Bundle, Leaves
<1>14. ASSUME NEW p \in Procs, Crash(p) PROVE IInv'
  <2> USE <1>14
  <2>f. Here(p)
    BY HereHolds, Zenon
  <2>1. CASE lease' = lease
    <3>1. Move(p, "dead", name[p])
      BY <2>f, <2>1, Zenon DEF Crash, Here, Move, Goto, Release, Holding, Searching, Creating
    <3> QED
      BY <3>1, <2>f, <2>1, MovePreserves, Zenon DEF Here, Steps, Holding
  <2>2. CASE pc[p] \in Holding /\ Release(p)
    <3>1. Move(p, "dead", name[p])
      BY <2>f, <2>2, Zenon DEF Crash, Here, Move, Goto, Release, Holding, Searching, Creating
    <3> QED
      BY <3>1, <2>f, <2>2, MovePreserves, Zenon DEF Here, Steps, Holding
  <2> QED
    BY <2>1, <2>2, Zenon DEF Crash, Goto, Release, Holding, Searching, Creating
<1>15. CASE UNCHANGED vars
  BY <1>15 DEF vars, IInv, TypeOK, Leased, Activated, Accounted, Whole
<1> QED
  BY <1>1, <1>2, <1>3, <1>4, <1>5, <1>6, <1>7, <1>8, <1>9, <1>10, <1>11, <1>12, <1>13, <1>14,
     <1>15, Zenon DEF Next

-----------------------------------------------------------------------------
(* The theorems.                                                           *)

\* The invariant holds throughout, whatever the numbers of processes, candidate
\* names and events, and wherever processes fail or die.
THEOREM Invariance == Spec => []IInv
<1> QED
  BY Initially, Preserved, PTL DEF Spec

\* A session name belongs to the Run that first created a file under it, one Run
\* leaves files under one name only, and an activated session is its own Run's:
\* exclusive creation of the events file roots the bundle, and nothing is removed.
THEOREM Kept == Spec => []SessionsKept
<1>1. IInv => SessionsKept
  <2> SUFFICES ASSUME IInv PROVE SessionsKept
    BY Zenon
  <2>1. ASSUME NEW m \in Names, NEW n \in Names, NEW k \in Bundle, NEW l \in Bundle,
               file[m][k] # Nobody, file[n][l] # Nobody
        PROVE  m = n <=> file[m][k] = file[n][l]
    <3>1. file[m][k] = file[m]["session"] /\ file[n][l] = file[n]["session"]
      BY <2>1, Zenon DEF IInv, Accounted
    <3>2. file[m][k] \in Procs
      BY <2>1 DEF IInv, TypeOK, Leaves
    <3>3. ASSUME file[m][k] = file[n][l] PROVE m = n
      <4>1. m = name[file[m][k]] /\ n = name[file[n][l]]
        BY <3>2, <3>3 DEF IInv, Accounted
      <4> QED
        BY <4>1, <3>3, Zenon
    <3> QED
      BY <3>1, <3>3, Zenon
  <2>2. \A n \in Names : active[n] # Nobody => \A l \in Bundle : file[n][l] = active[n]
    BY Zenon DEF IInv, Whole
  <2> QED
    BY <2>1, <2>2 DEF SessionsKept
<1> QED
  BY <1>1, Invariance, PTL

\* No two processes write to one session, and only activated sessions are written
\* to: the ownership lease is exclusive and outlives every step that needs it.
THEOREM Exclusive == Spec => []OneWriter
<1>1. IInv => OneWriter
  <2> SUFFICES ASSUME IInv PROVE OneWriter
    BY Zenon
  <2>1. {"write", "resumed"} \subseteq Holding
    BY Zenon DEF Holding
  <2> QED
    BY <2>1, Zenon DEF IInv, Leased, OneWriter
<1> QED
  BY <1>1, Invariance, PTL

=============================================================================
