--------------------------- MODULE ExecutorProofs ----------------------------
(***************************************************************************)
(* What start_one_shot answers is what happened, for every time-out and    *)
(* every window.  An answer is the end of a chain: the client repeats what *)
(* it read, the companion wrote what its class was, the class was the      *)
(* reason that its arbitration chose, and the reason was true when it was  *)
(* chosen and stays true.  The invariant says this of each link.           *)
(***************************************************************************)
EXTENDS Executor, TLAPS

\* The client answers once, and has an answer of which nothing was dispatched only when it
\* has not written the start record.
Answering ==
  /\ client.result # "none" => client.pc = "done"
  /\ client.pc \in {"preflight", "waiting"} => ~client.started
  /\ client.result \in Unstarted => ~client.started

\* Each process exists only because of the one before it.
Launching ==
  /\ outer.pc \in {"setup", "loop", "record"} => client.started
  /\ inner.pc # "none" => client.started /\ outer.pc \in {"loop", "record", "exited"}
  /\ tool.pc # "none" => inner.pc \in {"run", "exited"}
  /\ tool.pc = "ended" => tool.exit \in Exits
  /\ inner.record => inner.pc = "exited" /\ tool.pc = "ended"

\* The inner supervisor's deadline is never before the companion's; the Tool is asked to end
\* only by that deadline or after the companion, for a reason of its own, closed the control
\* channel.
Timers ==
  /\ inner.pc # "none" => outer.left >= 0
  /\ inner.pc \in {"none", "boot"} => inner.left = Never /\ tool.asked = "none"
  /\ inner.left # Never => inner.left >= outer.left
  /\ tool.asked # "none" \/ inner.phase # "none" => ~inner.control \/ inner.left = 0
  /\ ~inner.control => outer.primary \notin {"none", "exit"}
  /\ outer.phase # "none" => outer.primary # "none"
  /\ outer.forced => outer.phase # "none"

\* What a reason of the companion to end the run says of the run.
Justified(reason) ==
  /\ reason = "exit" => inner.pc = "exited" /\ tool.asked = "none"
  /\ reason = "cancelled" => cancelled
  /\ reason = "timeout" => outer.left = 0
  /\ reason = "cap" => tool.flood

\* The companion has a reason only once it has launched the inner supervisor.
Reasoned ==
  /\ outer.flag => cancelled
  /\ Justified(outer.primary) /\ Justified(outer.class)
  /\ outer.pc \in {"preflight", "leaving", "await", "setup"} =>
       outer.primary = "none" /\ outer.class = "none"

\* What the companion's response, once it is written, says of the run.
Told(response) ==
  /\ response \in Responses => outer.pc = "exited" /\ outer.exit = "ok"
  /\ response = "Error" => inner.pc = "none"
  /\ response \in Exits \cup Triggers => inner.record
  /\ response \in Exits => tool.exit = response /\ tool.asked = "none"
  /\ response = "cancelled" => cancelled
  /\ response = "timeout" => outer.left = 0
  /\ response = "cap" => tool.flood

Reporting ==
  /\ Told(outer.out)
  /\ client.seen \in Responses => client.seen = outer.out
  /\ client.result \in Responses => client.result = outer.out

IInv == TypeOK /\ Answering /\ Launching /\ Timers /\ Reasoned /\ Reporting

-----------------------------------------------------------------------------
(* The updates of the four records: their types, and the fields the invariant reads. *)

ClientView(c, pc, started, seen, result) ==
  c.pc = pc /\ c.started = started /\ c.seen = seen /\ c.result = result
OuterView(o, pc, exit, out, left) == o.pc = pc /\ o.exit = exit /\ o.out = out /\ o.left = left
OuterReasons(o, flag, primary, class, phase, forced) ==
  o.flag = flag /\ o.primary = primary /\ o.class = class /\ o.phase = phase /\ o.forced = forced
InnerView(i, pc, control, record, left, phase) ==
  i.pc = pc /\ i.control = control /\ i.record = record /\ i.left = left /\ i.phase = phase
ToolView(t, pc, exit, asked, flood) ==
  t.pc = pc /\ t.exit = exit /\ t.asked = asked /\ t.flood = flood

SameReasons(p, o) == OuterReasons(p, o.flag, o.primary, o.class, o.phase, o.forced)

Windows == Never .. Timeout + Allowance

\* The client goes to another place.
LEMMA ClientMoves ==
  ASSUME NEW c \in Clients, NEW pc \in ClientPlaces
  PROVE  LET new == [c EXCEPT !.pc = pc]
         IN  /\ new \in Clients
             /\ ClientView(new, pc, c.started, c.seen, c.result)
BY Zenon DEF Clients, ClientView, Windows

\* The client answers.
LEMMA ClientAnswers ==
  ASSUME NEW c \in Clients, NEW result \in Results
  PROVE  LET new == [c EXCEPT !.pc = "done", !.result = result]
         IN  /\ new \in Clients
             /\ ClientView(new, "done", c.started, c.seen, result)
BY Zenon DEF Clients, ClientView, Windows, ClientPlaces

\* The client has the answer of the preflight.
LEMMA ClientWaits ==
  ASSUME NEW c \in Clients, NEW left \in Windows
  PROVE  LET new == [c EXCEPT !.pc = "waiting", !.left = left]
         IN  /\ new \in Clients
             /\ ClientView(new, "waiting", c.started, c.seen, c.result)
BY Zenon DEF Clients, ClientView, Windows, ClientPlaces

\* The client begins another pass.
LEMMA ClientSteps ==
  ASSUME NEW c \in Clients
  PROVE  LET new == [c EXCEPT !.step = "poll"]
         IN  /\ new \in Clients
             /\ ClientView(new, c.pc, c.started, c.seen, c.result)
BY Zenon DEF Clients, ClientView, Windows

\* The client begins to write the start record.
LEMMA ClientStarts ==
  ASSUME NEW c \in Clients, NEW left \in Windows
  PROVE  LET new == [c EXCEPT !.pc = "start", !.step = "poll", !.seen = "none", !.left = left]
         IN  /\ new \in Clients
             /\ ClientView(new, "start", c.started, "none", c.result)
BY Zenon DEF Clients, ClientView, Windows, ClientPlaces, Outputs

\* The client writes the request and reads the answer.
LEMMA ClientAsks ==
  ASSUME NEW c \in Clients, NEW request \in BOOLEAN, NEW seen \in Outputs, NEW eof \in BOOLEAN
  PROVE  LET new == [c EXCEPT !.step = "observe", !.request = request, !.seen = seen, !.eof = eof]
         IN  /\ new \in Clients
             /\ ClientView(new, c.pc, c.started, seen, c.result)
BY Zenon DEF Clients, ClientView, Windows

\* The client writes the start record and reads the response.
LEMMA ClientReads ==
  ASSUME NEW c \in Clients, NEW started \in BOOLEAN, NEW left \in Windows, NEW seen \in Outputs,
         NEW eof \in BOOLEAN
  PROVE  LET new == [c EXCEPT !.step = "observe", !.started = started, !.left = left, !.seen = seen,
                         !.eof = eof]
         IN  /\ new \in Clients
             /\ ClientView(new, c.pc, started, seen, c.result)
BY Zenon DEF Clients, ClientView, Windows

\* The client signals the companion, and goes on.
LEMMA ClientSignals ==
  ASSUME NEW c \in Clients, NEW signalled \in BOOLEAN, NEW cancel \in Never .. Cancelling,
         NEW lost \in BOOLEAN
  PROVE  LET new == [c EXCEPT !.step = "poll", !.signalled = signalled, !.cancel = cancel,
                         !.lost = lost]
         IN  /\ new \in Clients
             /\ ClientView(new, c.pc, c.started, c.seen, c.result)
BY Zenon DEF Clients, ClientView, Windows

\* Time passes for the client.
LEMMA ClientTime ==
  ASSUME NEW c \in Clients, NEW left \in Windows, NEW cancel \in Never .. Cancelling
  PROVE  LET new == [c EXCEPT !.left = left, !.cancel = cancel]
         IN  /\ new \in Clients
             /\ ClientView(new, c.pc, c.started, c.seen, c.result)
BY Zenon DEF Clients, ClientView, Windows

\* The companion exits.
LEMMA OuterExits ==
  ASSUME NEW o \in Outers, NEW exit \in Codes
  PROVE  LET new == [o EXCEPT !.pc = "exited", !.exit = exit]
         IN  /\ new \in Outers
             /\ OuterView(new, "exited", exit, o.out, o.left)
             /\ SameReasons(new, o)
<1>. DEFINE new == [o EXCEPT !.pc = "exited", !.exit = exit]
<1>1. new \in Outers
  BY Zenon DEF Outers, OuterPlaces
<1>2. OuterView(new, "exited", exit, o.out, o.left)
  BY Zenon DEF Outers, OuterView
<1>3. SameReasons(new, o)
  BY Zenon DEF Outers, OuterReasons, SameReasons
<1>. QED
  BY <1>1, <1>2, <1>3, Zenon

\* The companion goes to another place.
LEMMA OuterMoves ==
  ASSUME NEW o \in Outers, NEW pc \in OuterPlaces
  PROVE  LET new == [o EXCEPT !.pc = pc]
         IN  /\ new \in Outers
             /\ OuterView(new, pc, o.exit, o.out, o.left)
             /\ SameReasons(new, o)
BY Zenon DEF Outers, OuterView, OuterReasons, SameReasons

\* The companion is signalled.
LEMMA OuterFlagged ==
  ASSUME NEW o \in Outers
  PROVE  LET new == [o EXCEPT !.flag = TRUE]
         IN  /\ new \in Outers
             /\ OuterView(new, o.pc, o.exit, o.out, o.left)
             /\ OuterReasons(new, TRUE, o.primary, o.class, o.phase, o.forced)
BY Zenon DEF Outers, OuterView, OuterReasons

\* The companion answers the preflight.
LEMMA OuterAnswers ==
  ASSUME NEW o \in Outers, NEW pc \in OuterPlaces, NEW out \in Outputs
  PROVE  LET new == [o EXCEPT !.pc = pc, !.out = out]
         IN  /\ new \in Outers
             /\ OuterView(new, pc, o.exit, out, o.left)
             /\ SameReasons(new, o)
<1>. DEFINE new == [o EXCEPT !.pc = pc, !.out = out]
<1>1. new \in Outers
  BY Zenon DEF Outers
<1>2. OuterView(new, pc, o.exit, out, o.left)
  BY Zenon DEF Outers, OuterView
<1>3. SameReasons(new, o)
  BY Zenon DEF Outers, OuterReasons, SameReasons
<1>. QED
  BY <1>1, <1>2, <1>3, Zenon

\* The companion launches the inner supervisor.
LEMMA OuterLaunches ==
  ASSUME NEW o \in Outers, NEW left \in Never .. Timeout
  PROVE  LET new == [o EXCEPT !.pc = "loop", !.out = "none", !.left = left]
         IN  /\ new \in Outers
             /\ OuterView(new, "loop", o.exit, "none", left)
             /\ SameReasons(new, o)
BY Zenon DEF Outers, OuterView, OuterReasons, OuterPlaces, Outputs, SameReasons

\* The companion responds and exits.
LEMMA OuterResponds ==
  ASSUME NEW o \in Outers, NEW out \in Outputs
  PROVE  LET new == [o EXCEPT !.pc = "exited", !.exit = "ok", !.out = out]
         IN  /\ new \in Outers
             /\ OuterView(new, "exited", "ok", out, o.left)
             /\ SameReasons(new, o)
<1>. DEFINE new == [o EXCEPT !.pc = "exited", !.exit = "ok", !.out = out]
<1>1. new \in Outers
  BY Zenon DEF Outers, OuterPlaces, Codes
<1>2. OuterView(new, "exited", "ok", out, o.left)
  BY Zenon DEF Outers, OuterView
<1>3. SameReasons(new, o)
  BY Zenon DEF Outers, OuterReasons, SameReasons
<1>. QED
  BY <1>1, <1>2, <1>3, Zenon

\* The companion reads the output.
LEMMA OuterPolls ==
  ASSUME NEW o \in Outers, NEW primary \in Reasons, NEW drained \in BOOLEAN
  PROVE  LET new == [o EXCEPT !.step = "arbitrate", !.primary = primary, !.drained = drained]
         IN  /\ new \in Outers
             /\ OuterView(new, o.pc, o.exit, o.out, o.left)
             /\ OuterReasons(new, o.flag, primary, o.class, o.phase, o.forced)
<1>. DEFINE new == [o EXCEPT !.step = "arbitrate", !.primary = primary, !.drained = drained]
<1>1. new \in Outers
  BY Zenon DEF Outers
<1>2. OuterView(new, o.pc, o.exit, o.out, o.left)
  BY Zenon DEF Outers, OuterView
<1>3. OuterReasons(new, o.flag, primary, o.class, o.phase, o.forced)
  BY Zenon DEF Outers, OuterReasons, SameReasons
<1>. QED
  BY <1>1, <1>2, <1>3, Zenon

\* Time passes for the companion.
LEMMA OuterTime ==
  ASSUME NEW o \in Outers, NEW left \in Never .. Timeout, NEW cleanup \in Never .. Bound
  PROVE  LET new == [o EXCEPT !.left = left, !.cleanup = cleanup]
         IN  /\ new \in Outers
             /\ OuterView(new, o.pc, o.exit, o.out, left)
             /\ SameReasons(new, o)
BY Zenon DEF Outers, OuterView, OuterReasons, SameReasons

\* The inner supervisor is launched.
LEMMA InnerBegins ==
  ASSUME NEW i \in Inners
  PROVE  LET new == [i EXCEPT !.pc = "boot"]
         IN  /\ new \in Inners
             /\ InnerView(new, "boot", i.control, i.record, i.left, i.phase)
BY Zenon DEF Inners, InnerView, InnerPlaces

\* The inner supervisor starts the Tool.
LEMMA InnerRuns ==
  ASSUME NEW i \in Inners, NEW left \in Never .. Timeout
  PROVE  LET new == [i EXCEPT !.pc = "run", !.left = left]
         IN  /\ new \in Inners
             /\ InnerView(new, "run", i.control, i.record, left, i.phase)
BY Zenon DEF Inners, InnerView, InnerPlaces

\* The inner supervisor ends.
LEMMA InnerExits ==
  ASSUME NEW i \in Inners, NEW exit \in Codes
  PROVE  LET new == [i EXCEPT !.pc = "exited", !.exit = exit]
         IN  /\ new \in Inners
             /\ InnerView(new, "exited", i.control, i.record, i.left, i.phase)
BY Zenon DEF Inners, InnerView, InnerPlaces

\* The inner supervisor records the status of the Tool.
LEMMA InnerRecords ==
  ASSUME NEW i \in Inners
  PROVE  LET new == [i EXCEPT !.pc = "exited", !.exit = "ok", !.record = TRUE]
         IN  /\ new \in Inners
             /\ InnerView(new, "exited", i.control, TRUE, i.left, i.phase)
BY Zenon DEF Inners, InnerView, InnerPlaces, Codes

\* The companion closes the control channel, or not.
LEMMA InnerCloses ==
  ASSUME NEW i \in Inners, NEW control \in BOOLEAN
  PROVE  LET new == [i EXCEPT !.control = control]
         IN  /\ new \in Inners
             /\ InnerView(new, i.pc, control, i.record, i.left, i.phase)
BY Zenon DEF Inners, InnerView

\* The inner supervisor ends a pass of its loop.
LEMMA InnerPasses ==
  ASSUME NEW i \in Inners, NEW phase \in {"none", "grace", "forced", "failed"},
         NEW cleanup \in Never .. Bound, NEW pc \in InnerPlaces, NEW exit \in Codes
  PROVE  LET new == [i EXCEPT !.phase = phase, !.cleanup = cleanup, !.pc = pc, !.exit = exit]
         IN  /\ new \in Inners
             /\ InnerView(new, pc, i.control, i.record, i.left, phase)
BY Zenon DEF Inners, InnerView

\* Time passes for the inner supervisor.
LEMMA InnerTime ==
  ASSUME NEW i \in Inners, NEW left \in Never .. Timeout, NEW cleanup \in Never .. Bound
  PROVE  LET new == [i EXCEPT !.left = left, !.cleanup = cleanup]
         IN  /\ new \in Inners
             /\ InnerView(new, i.pc, i.control, i.record, left, i.phase)
BY Zenon DEF Inners, InnerView

\* The Tool is started.
LEMMA ToolStarts ==
  ASSUME NEW t \in Tools
  PROVE  LET new == [t EXCEPT !.pc = "running"]
         IN  /\ new \in Tools
             /\ ToolView(new, "running", t.exit, t.asked, t.flood)
BY Zenon DEF Tools, ToolView, Exits

\* The Tool is asked to end.
LEMMA ToolAsked ==
  ASSUME NEW t \in Tools, NEW asked \in {"none", "term", "kill"}
  PROVE  LET new == [t EXCEPT !.asked = asked]
         IN  /\ new \in Tools
             /\ ToolView(new, t.pc, t.exit, asked, t.flood)
BY Zenon DEF Tools, ToolView, Exits

\* The Tool is killed with its supervisor.
LEMMA ToolKilled ==
  ASSUME NEW t \in Tools
  PROVE  LET new == [t EXCEPT !.pc = "ended", !.exit = "signal"]
         IN  /\ new \in Tools
             /\ ToolView(new, "ended", "signal", t.asked, t.flood)
BY Zenon DEF Tools, ToolView, Exits

\* The Tool ends.
LEMMA ToolDone ==
  ASSUME NEW t \in Tools, NEW exit \in Exits, NEW held \in BOOLEAN
  PROVE  LET new == [t EXCEPT !.pc = "ended", !.exit = exit, !.held = held]
         IN  /\ new \in Tools
             /\ ToolView(new, "ended", exit, t.asked, t.flood)
BY Zenon DEF Tools, ToolView, Exits

\* The Tool writes more than its output may hold.
LEMMA ToolFlooding ==
  ASSUME NEW t \in Tools
  PROVE  LET new == [t EXCEPT !.flood = TRUE]
         IN  /\ new \in Tools
             /\ ToolView(new, t.pc, t.exit, t.asked, TRUE)
BY Zenon DEF Tools, ToolView, Exits

-----------------------------------------------------------------------------
(* The steps of the client. *)

\* The parts of the invariant that a step leaves to be shown when it changes neither the inner
\* supervisor nor the Tool.
LEMMA Unpacked ==
  ASSUME IInv
  PROVE  /\ client \in Clients /\ outer \in Outers /\ inner \in Inners /\ tool \in Tools
         /\ client.pc \in ClientPlaces /\ client.started \in BOOLEAN /\ client.seen \in Outputs
         /\ client.result \in Results /\ client.left \in Windows /\ client.step \in {"poll", "observe"}
         /\ client.cancel \in Never .. Cancelling /\ client.request \in BOOLEAN
         /\ client.signalled \in BOOLEAN /\ client.lost \in BOOLEAN /\ client.eof \in BOOLEAN
BY Zenon DEF IInv, TypeOK, Clients, Windows

\* The client's whole window, and a timer that is not set, are windows.
LEMMA WindowIsOne == Timeout + Allowance \in Windows /\ Never \in Windows
BY Durations DEF Windows, Never

\* An answer is the first one, says what the companion wrote, and ends the companion unless it
\* has exited.
LEMMA AnswerKeeps ==
  ASSUME IInv, NEW r \in Results, Answer(r),
         client.pc \in {"preflight", "waiting", "start"},
         r \in Unstarted => ~client.started,
         r \in Responses => r = outer.out /\ outer.exit # "none",
         UNCHANGED <<inner, tool, cancelled, fault>>,
         late' \subseteq {"client", "outer", "inner", "tool"}
  PROVE  IInv'
<1>1. /\ client' \in Clients /\ client'.pc = "done" /\ client'.started = client.started
      /\ client'.seen = client.seen /\ client'.result = r
  BY Unpacked, ClientAnswers, ZenonT(60) DEF Answer, ClientView
<1>2. CASE outer.exit = "none"
  <2>1. /\ outer' \in Outers /\ OuterView(outer', "exited", "killed", outer.out, outer.left)
        /\ SameReasons(outer', outer)
    BY <1>2, Unpacked, OuterExits, Zenon DEF Answer, Killed, Codes
  <2>2. /\ outer'.pc = "exited" /\ outer'.exit = "killed" /\ outer'.out = outer.out
        /\ outer'.left = outer.left /\ outer'.flag = outer.flag /\ outer'.primary = outer.primary
        /\ outer'.class = outer.class /\ outer'.phase = outer.phase /\ outer'.forced = outer.forced
    BY <2>1, Zenon DEF OuterView, SameReasons, OuterReasons
  <2>3. outer.out \notin Responses /\ client.seen \notin Responses
    BY <1>2, Zenon DEF IInv, Reporting, Told
  <2>4. TypeOK'
    BY <1>1, <2>1, Zenon DEF IInv, TypeOK
  <2>5. Answering'
    BY <1>1, Zenon DEF IInv, Answering
  <2>6. Launching' /\ Timers' /\ Reasoned'
    BY <1>1, <2>2 DEF IInv, Launching, Timers, Reasoned, Justified
  <2>7. Reporting'
    BY <1>1, <1>2, <2>2, <2>3, Zenon DEF IInv, Reporting, Told, Responses
  <2>. QED
    BY <2>4, <2>5, <2>6, <2>7, Zenon DEF IInv
<1>3. CASE outer.exit # "none"
  <2>1. outer' = outer
    BY <1>3, Zenon DEF Answer, Killed
  <2>2. TypeOK'
    BY <1>1, <2>1, Zenon DEF IInv, TypeOK
  <2>3. Answering'
    BY <1>1, Zenon DEF IInv, Answering
  <2>4. Launching' /\ Timers' /\ Reasoned'
    BY <1>1, <2>1 DEF IInv, Launching, Timers, Reasoned, Justified
  <2>5. Reporting'
    BY <1>1, <2>1, Zenon DEF IInv, Reporting, Told
  <2>. QED
    BY <2>2, <2>3, <2>4, <2>5, Zenon DEF IInv
<1>. QED
  BY <1>2, <1>3, Zenon

\* Any other step of the client leaves the other processes alone and keeps to what it read.
LEMMA ClientKeeps ==
  ASSUME IInv, client' \in Clients, UNCHANGED <<outer, inner, tool, cancelled>>,
         client'.result = client.result,
         client.result = "none" \/ client'.pc = client.pc,
         client.started => client'.started,
         client'.pc \in {"preflight", "waiting"} => ~client'.started,
         client.pc = "done" => client'.started = client.started,
         client'.seen \in Responses => client'.seen = outer.out,
         late' \subseteq {"client", "outer", "inner", "tool"},
         fault' \in {"none", "flow", "companion", "setup", "collector", "boot"}
  PROVE  IInv'
<1>1. TypeOK'
  BY Zenon DEF IInv, TypeOK
<1>2. Answering'
  BY Zenon DEF IInv, Answering, Unstarted
<1>3. Launching' /\ Timers' /\ Reasoned'
  BY DEF IInv, Launching, Timers, Reasoned, Justified
<1>4. Reporting'
  BY Zenon DEF IInv, Reporting, Told
<1>. QED
  BY <1>1, <1>2, <1>3, <1>4, Zenon DEF IInv

\* Before it has written the start record the client answers without one, or reads on.
LEMMA PollPreflightKeeps == ASSUME IInv, PollPreflight PROVE IInv'
<1>. USE Unpacked
<1>0. /\ client.pc = "preflight" /\ ~client.started /\ client.result = "none"
      /\ late' \subseteq {"client", "outer", "inner", "tool"}
      /\ fault' \in {"none", "flow", "companion", "setup", "collector", "boot"}
      /\ UNCHANGED <<inner, tool, cancelled, fault>>
  BY Zenon DEF PollPreflight, IInv, Answering, TypeOK
<1>1. CASE Answer("Invalid")
  BY <1>0, <1>1, AnswerKeeps, Zenon DEF Results, Responses, Unstarted, Exits, Triggers
<1>2. CASE Answer("Cancelled")
  BY <1>0, <1>2, AnswerKeeps, Zenon DEF Results, Responses, Unstarted, Exits, Triggers
<1>3. ASSUME NEW written \in BOOLEAN, UNCHANGED outer,
             client' = [client EXCEPT !.step = "observe", !.request = @ \/ written,
                                      !.seen = outer.out, !.eof = outer.pc = "exited"]
      PROVE  IInv'
  <2>1. /\ (client.request \/ written) \in BOOLEAN /\ (outer.pc = "exited") \in BOOLEAN
        /\ outer.out \in Outputs
    BY Zenon DEF Outers
  <2>2. /\ client' \in Clients /\ ClientView(client', client.pc, client.started, outer.out, client.result)
    BY <1>3, <2>1, ClientAsks, Zenon
  <2>. QED
    BY <1>0, <1>3, <2>2, ClientKeeps, Zenon DEF ClientView
<1>. QED
  BY <1>1, <1>2, <1>3, Zenon DEF PollPreflight

\* The answer of the preflight: the client waits for its caller, answers, or reads on.
LEMMA ObservePreflightKeeps == ASSUME IInv, ObservePreflight PROVE IInv'
<1>. USE Unpacked
<1>0. /\ client.pc = "preflight" /\ ~client.started /\ client.result = "none"
      /\ late' \subseteq {"client", "outer", "inner", "tool"}
      /\ fault' \in {"none", "flow", "companion", "setup", "collector", "boot"}
      /\ UNCHANGED <<inner, tool, cancelled, fault>>
  BY Zenon DEF ObservePreflight, Passed, IInv, Answering, TypeOK
<1>1. CASE Answer("Invalid")
  BY <1>0, <1>1, AnswerKeeps, Zenon DEF Results, Responses, Unstarted, Exits, Triggers
<1>2. CASE Answer("Rejected")
  BY <1>0, <1>2, AnswerKeeps, Zenon DEF Results, Responses, Unstarted, Exits, Triggers
<1>3. CASE client' = [client EXCEPT !.pc = "waiting", !.left = Never] /\ UNCHANGED outer
  <2>1. Never \in Windows
    BY Durations DEF Windows, Never
  <2>2. client' \in Clients /\ ClientView(client', "waiting", client.started, client.seen, client.result)
    BY <1>3, <2>1, ClientWaits, Zenon
  <2>3. client.seen \in Responses => client.seen = outer.out
    BY Zenon DEF IInv, Reporting
  <2>. QED
    BY <1>0, <1>3, <2>2, <2>3, ClientKeeps, Zenon DEF ClientView
<1>4. CASE client' = [client EXCEPT !.step = "poll"] /\ UNCHANGED outer
  <2>1. client' \in Clients /\ ClientView(client', client.pc, client.started, client.seen, client.result)
    BY <1>4, ClientSteps, Zenon
  <2>2. client.seen \in Responses => client.seen = outer.out
    BY Zenon DEF IInv, Reporting
  <2>. QED
    BY <1>0, <1>4, <2>1, <2>2, ClientKeeps, Zenon DEF ClientView
<1>. QED
  BY <1>1, <1>2, <1>3, <1>4, Zenon DEF ObservePreflight, Passed

\* The caller drops the waiting companion, or starts it unless the Run is cancelled.
LEMMA StartKeeps == ASSUME IInv, Drop \/ Start PROVE IInv'
<1>. USE Unpacked
<1>0. /\ client.pc = "waiting" /\ ~client.started /\ client.result = "none"
      /\ late' \subseteq {"client", "outer", "inner", "tool"}
      /\ fault' \in {"none", "flow", "companion", "setup", "collector", "boot"}
      /\ UNCHANGED <<inner, tool, cancelled, fault>>
  BY Zenon DEF Drop, Start, IInv, Answering, TypeOK
<1>1. CASE Answer("Dropped") \/ Answer("Cancelled")
  BY <1>0, <1>1, AnswerKeeps, Zenon DEF Results, Responses, Unstarted, Exits, Triggers
<1>2. CASE /\ client' = [client EXCEPT !.pc = "start", !.step = "poll", !.seen = "none",
                                       !.left = Timeout + Allowance]
           /\ UNCHANGED outer
  <2>1. Timeout + Allowance \in Windows
    BY WindowIsOne, Zenon
  <2>2. client' \in Clients /\ ClientView(client', "start", client.started, "none", client.result)
    BY <1>2, <2>1, ClientStarts, Zenon
  <2>3. "none" \notin Responses
    BY Zenon DEF Responses, Exits, Triggers
  <2>. QED
    BY <1>0, <1>2, <2>2, <2>3, ClientKeeps, Zenon DEF ClientView
<1>. QED
  BY <1>1, <1>2, Zenon DEF Drop, Start

\* The client writes the start record and reads what the companion has written.
LEMMA PollStartKeeps == ASSUME IInv, PollStart PROVE IInv'
<1>. USE Unpacked
<1>0. /\ client.pc = "start" /\ client.result = "none"
      /\ late' \subseteq {"client", "outer", "inner", "tool"}
      /\ fault' \in {"none", "flow", "companion", "setup", "collector", "boot"}
      /\ UNCHANGED <<inner, tool, cancelled, fault>>
  BY Zenon DEF PollStart, IInv, Answering, TypeOK
<1>1. CASE Answer("Invalid")
  BY <1>0, <1>1, AnswerKeeps, Zenon DEF Results, Responses, Unstarted, Exits, Triggers
<1>2. ASSUME NEW written \in BOOLEAN, UNCHANGED outer,
             client' = [client EXCEPT !.step = "observe", !.started = @ \/ written,
                          !.left = IF written /\ ~client.started THEN Timeout + Allowance ELSE @,
                          !.seen = outer.out, !.eof = outer.pc = "exited"]
      PROVE  IInv'
  <2>0. Timeout + Allowance \in Windows
    BY WindowIsOne, Zenon
  <2>1. /\ (client.started \/ written) \in BOOLEAN /\ (outer.pc = "exited") \in BOOLEAN
        /\ (IF written /\ ~client.started THEN Timeout + Allowance ELSE client.left) \in Windows
    BY <2>0, Zenon
  <2>1a. outer.out \in Outputs
    BY Zenon DEF Outers
  <2>2. /\ client' \in Clients
        /\ ClientView(client', client.pc, client.started \/ written, outer.out, client.result)
    BY <1>2, <2>1, <2>1a, ClientReads, ZenonT(60)
  <2>. QED
    BY <1>0, <1>2, <2>2, ClientKeeps, Zenon DEF ClientView
<1>. QED
  BY <1>1, <1>2, Zenon DEF PollStart

\* The client answers what it read when the companion has exited, and signals it when the Run is
\* cancelled: only then is the companion's flag set.
LEMMA ObserveStartKeeps == ASSUME IInv, ObserveStart PROVE IInv'
<1>. USE Unpacked
<1>0. /\ client.pc = "start" /\ client.result = "none"
      /\ late' \subseteq {"client", "outer", "inner", "tool"}
      /\ fault' \in {"none", "flow", "companion", "setup", "collector", "boot"}
      /\ UNCHANGED <<inner, tool, cancelled, fault>>
      /\ client.seen \in Responses => client.seen = outer.out
  BY Zenon DEF ObserveStart, Passed, IInv, Answering, TypeOK, Reporting
<1>1. CASE Answer("Invalid")
  BY <1>0, <1>1, AnswerKeeps, Zenon DEF Results, Responses, Unstarted, Exits, Triggers
<1>2. CASE Finished /\ client.seen \in Responses /\ Answer(client.seen)
  <2>1. client.seen \in Results /\ client.seen \notin Unstarted
    BY <1>2, Zenon DEF Results, Responses, Unstarted, Exits, Triggers
  <2>. QED
    BY <1>0, <1>2, <2>1, AnswerKeeps, Zenon DEF Finished
<1>3. CASE /\ client' = [client EXCEPT !.step = "poll", !.signalled = @ \/ Signals,
                           !.cancel = CancelTimer, !.lost = @ \/ (Signals /\ outer.pc # "loop")]
           /\ outer' = IF Signals THEN Signalled(outer) ELSE outer
  <2>1. /\ (client.signalled \/ Signals) \in BOOLEAN
        /\ (client.lost \/ (Signals /\ outer.pc # "loop")) \in BOOLEAN
    BY Zenon DEF Signals
  <2>2. CancelTimer \in Never .. Cancelling
    BY Durations DEF CancelTimer, Never
  <2>3. client' \in Clients /\ ClientView(client', client.pc, client.started, client.seen, client.result)
    BY <1>3, <2>1, <2>2, ClientSignals, Zenon
  <2>4. CASE Signals /\ outer.pc = "loop"
    <3>1. outer' \in Outers /\ OuterView(outer', outer.pc, outer.exit, outer.out, outer.left)
      BY <1>3, <2>4, OuterFlagged, Zenon DEF Signalled
    <3>2. OuterReasons(outer', TRUE, outer.primary, outer.class, outer.phase, outer.forced)
      BY <1>3, <2>4, OuterFlagged, Zenon DEF Signalled
    <3>3. cancelled
      BY <2>4, Zenon DEF Signals
    <3>4. TypeOK'
      BY <1>0, <2>3, <3>1, Zenon DEF IInv, TypeOK
    <3>5. Answering' /\ Launching'
      BY <1>0, <2>3, <3>1, Zenon DEF IInv, Answering, Launching, ClientView, OuterView
    <3>6. Timers' /\ Reasoned'
      BY <1>0, <2>3, <3>1, <3>2, <3>3 DEF IInv, Timers, Reasoned, Justified, OuterView, OuterReasons
    <3>7. Reporting'
      BY <1>0, <2>3, <3>1 DEF IInv, Reporting, Told, ClientView, OuterView
    <3>. QED
      BY <3>4, <3>5, <3>6, <3>7, Zenon DEF IInv
  <2>5. CASE ~(Signals /\ outer.pc = "loop")
    <3>1. outer' = outer
      BY <1>3, <2>5, Zenon DEF Signalled
    <3>. QED
      BY <1>0, <2>3, <3>1, ClientKeeps, Zenon DEF ClientView
  <2>. QED
    BY <2>4, <2>5, Zenon
<1>. QED
  BY <1>1, <1>2, <1>3, Zenon DEF ObserveStart, Passed

\* A cancellation makes more of the reasons true.
LEMMA CancelKeeps == ASSUME IInv, Cancel PROVE IInv'
<1>. USE DEF Cancel
<1>1. TypeOK'
  BY Zenon DEF IInv, TypeOK
<1>2. Answering' /\ Launching' /\ Timers'
  BY Zenon DEF IInv, Answering, Launching, Timers
<1>3. Reasoned' /\ Reporting'
  BY Zenon DEF IInv, Reasoned, Justified, Reporting, Told
<1>. QED
  BY <1>1, <1>2, <1>3, Zenon DEF IInv

\* Flow dies and answers nothing.
LEMMA FlowDiesKeeps == ASSUME IInv, FlowDies PROVE IInv'
<1>. USE Unpacked
<1>1. client' \in Clients /\ ClientView(client', "dead", client.started, client.seen, client.result)
  BY ClientMoves, Zenon DEF ClientPlaces, FlowDies
<1>2. /\ client.result = "none" /\ client.pc # "done"
      /\ client.seen \in Responses => client.seen = outer.out
      /\ late' \subseteq {"client", "outer", "inner", "tool"}
  BY Zenon DEF FlowDies, IInv, TypeOK, Answering, Reporting
<1>. QED
  BY <1>1, <1>2, ClientKeeps, Zenon DEF ClientView, FlowDies

-----------------------------------------------------------------------------
(* The steps of the companion. *)

\* The types of the companion's fields.
LEMMA UnpackedOuter ==
  ASSUME IInv
  PROVE  /\ outer \in Outers /\ outer.pc \in OuterPlaces /\ outer.flag \in BOOLEAN
         /\ outer.primary \in Reasons /\ outer.class \in Reasons /\ outer.phase \in CleanupPhases
         /\ outer.status \in Codes /\ outer.reaped \in BOOLEAN /\ outer.drained \in BOOLEAN
         /\ outer.forced \in BOOLEAN /\ outer.out \in Outputs /\ outer.exit \in Codes
         /\ outer.left \in Never .. Timeout /\ outer.cleanup \in Never .. Bound
BY Zenon DEF IInv, TypeOK, Outers

\* The companion goes to another place, answers the preflight, or exits without a response:
\* its reasons, the inner supervisor and the Tool stay.
LEMMA OuterKeeps ==
  ASSUME IInv, NEW pc, NEW exit, NEW out, outer' \in Outers,
         OuterView(outer', pc, exit, out, outer.left), SameReasons(outer', outer),
         UNCHANGED <<client, inner, tool, cancelled>>,
         late' \subseteq {"client", "outer", "inner", "tool"},
         pc \in {"setup", "loop", "record"} => client.started,
         inner.pc # "none" => pc \in {"loop", "record", "exited"},
         pc = "exited" \/ outer.pc \in {"preflight", "leaving", "await"},
         outer.pc # "exited" \/ outer.exit = "none", out \notin Responses,
         fault' \in {"none", "flow", "companion", "setup", "collector", "boot"}
  PROVE  IInv'
<1>1. /\ outer'.pc = pc /\ outer'.exit = exit /\ outer'.out = out /\ outer'.left = outer.left
      /\ outer'.flag = outer.flag /\ outer'.primary = outer.primary
      /\ outer'.class = outer.class /\ outer'.phase = outer.phase /\ outer'.forced = outer.forced
  BY Zenon DEF OuterView, SameReasons, OuterReasons
<1>2. outer.out \notin Responses
  BY Zenon DEF IInv, Reporting, Told
<1>3. TypeOK'
  BY Zenon DEF IInv, TypeOK
<1>4. Answering' /\ Launching'
  BY <1>1, Zenon DEF IInv, Answering, Launching
<1>5. Timers' /\ Reasoned'
  BY <1>1 DEF IInv, Timers, Reasoned, Justified
<1>6. Told(outer.out)'
  <2>1. out # "Error" /\ out \notin Exits \cup Triggers
    BY Zenon DEF Responses
  <2>2. out # "cancelled" /\ out # "timeout" /\ out # "cap"
    BY <2>1, Zenon DEF Triggers
  <2>. QED
    BY <1>1, <2>1, <2>2, Zenon DEF Told
<1>7. Reporting'
  BY <1>1, <1>2, <1>6, Zenon DEF IInv, Reporting
<1>. QED
  BY <1>3, <1>4, <1>5, <1>7, Zenon DEF IInv

\* Before the run the companion answers the preflight, leaves, or takes the start record.
LEMMA OuterPreflightKeeps == ASSUME IInv, OuterPreflight \/ OuterLeave \/ OuterStart PROVE IInv'
<1>. USE UnpackedOuter
<1>0. /\ outer.pc \in {"preflight", "leaving", "await"} /\ inner.pc = "none"
      /\ UNCHANGED <<client, inner, tool, cancelled>> /\ late' \subseteq {"client", "outer", "inner", "tool"}
      /\ fault' \in {"none", "flow", "companion", "setup", "collector", "boot"}
  BY Zenon DEF OuterPreflight, OuterLeave, OuterStart, Exited, IInv, TypeOK, Launching
<1>1. "none" \notin Responses /\ "ready" \notin Responses /\ "rejected" \notin Responses
  BY Zenon DEF Responses, Exits, Triggers
<1>2. outer.out \notin Responses
  BY <1>0, Zenon DEF IInv, Reporting, Told
<1>3. CASE outer' = [outer EXCEPT !.pc = "await", !.out = "ready"]
  <2>1. outer' \in Outers /\ OuterView(outer', "await", outer.exit, "ready", outer.left) /\ SameReasons(outer', outer)
    BY <1>3, OuterAnswers, Zenon DEF OuterPlaces, Outputs
  <2>. QED
    BY <1>0, <1>1, <2>1, OuterKeeps, Zenon
<1>4. CASE outer' = [outer EXCEPT !.pc = "leaving", !.out = "rejected"]
  <2>1. outer' \in Outers /\ OuterView(outer', "leaving", outer.exit, "rejected", outer.left) /\ SameReasons(outer', outer)
    BY <1>4, OuterAnswers, Zenon DEF OuterPlaces, Outputs
  <2>. QED
    BY <1>0, <1>1, <2>1, OuterKeeps, Zenon
<1>5. ASSUME NEW code \in {"ok", "failed"}, outer' = [outer EXCEPT !.pc = "exited", !.exit = code]
      PROVE  IInv'
  <2>0. code \in Codes
    BY Zenon DEF Codes
  <2>1. outer' \in Outers /\ OuterView(outer', "exited", code, outer.out, outer.left) /\ SameReasons(outer', outer)
    BY <1>5, <2>0, OuterExits, Zenon
  <2>. QED
    BY <1>0, <1>2, <2>1, OuterKeeps, Zenon
<1>6. CASE client.started /\ outer' = [outer EXCEPT !.pc = "setup"]
  <2>1. outer' \in Outers /\ OuterView(outer', "setup", outer.exit, outer.out, outer.left) /\ SameReasons(outer', outer)
    BY <1>6, OuterMoves, Zenon DEF OuterPlaces
  <2>. QED
    BY <1>0, <1>2, <1>6, <2>1, OuterKeeps, Zenon
<1>. QED
  BY <1>3, <1>4, <1>5, <1>6, Zenon DEF OuterPreflight, OuterLeave, OuterStart, Exited

\* A companion that dies has not responded.
LEMMA OuterDiesKeeps == ASSUME IInv, OuterDies PROVE IInv'
<1>. USE UnpackedOuter
<1>1. /\ outer.exit = "none" /\ UNCHANGED <<client, inner, tool, cancelled>>
      /\ late' \subseteq {"client", "outer", "inner", "tool"}
      /\ fault' \in {"none", "flow", "companion", "setup", "collector", "boot"}
  BY Zenon DEF OuterDies, IInv, TypeOK
<1>2. outer.out \notin Responses
  BY <1>1, Zenon DEF IInv, Reporting, Told
<1>3. outer' \in Outers /\ OuterView(outer', "exited", "killed", outer.out, outer.left) /\ SameReasons(outer', outer)
  BY <1>1, OuterExits, Zenon DEF Codes, Killed, OuterDies
<1>. QED
  BY <1>1, <1>2, <1>3, OuterKeeps, Zenon DEF OuterDies

\* The companion launches the inner supervisor, or says that it cannot.
LEMMA OuterSetupKeeps == ASSUME IInv, OuterSetup PROVE IInv'
<1>. USE UnpackedOuter
<1>0. /\ outer.pc = "setup" /\ client.started /\ inner.pc = "none" /\ tool.pc = "none"
      /\ outer.out \notin Responses /\ client.seen \notin Responses /\ client.result \notin Responses
      /\ UNCHANGED <<client, tool, cancelled>>
      /\ late' \subseteq {"client", "outer", "inner", "tool"}
      /\ fault' \in {"none", "flow", "companion", "setup", "collector", "boot"}
  BY Zenon DEF OuterSetup, IInv, TypeOK, Launching, Reporting, Told
<1>1. CASE /\ outer' = [outer EXCEPT !.pc = "loop", !.out = "none", !.left = Timeout]
           /\ inner' = [inner EXCEPT !.pc = "boot"]
  <2>1. Timeout \in Never .. Timeout /\ Timeout >= 0
    BY Durations DEF Never
  <2>2. outer' \in Outers /\ OuterView(outer', "loop", outer.exit, "none", Timeout) /\ SameReasons(outer', outer)
    BY <1>1, <2>1, OuterLaunches, Zenon
  <2>3. inner' \in Inners /\ InnerView(inner', "boot", inner.control, inner.record, inner.left, inner.phase)
    BY <1>1, Unpacked, InnerBegins, Zenon
  <2>4. TypeOK'
    BY <1>0, <2>2, <2>3, Zenon DEF IInv, TypeOK
  <2>5. Answering' /\ Launching'
    BY <1>0, <2>2, <2>3, Zenon DEF IInv, Answering, Launching, OuterView, InnerView
  <2>6. Timers'
    BY <1>0, <2>1, <2>2, <2>3, Zenon DEF IInv, Timers, OuterView, SameReasons, OuterReasons, InnerView
  <2>7. Reasoned'
    BY <1>0, <2>2, <2>3, Zenon DEF IInv, Reasoned, Justified, Timers, OuterView, SameReasons, OuterReasons, InnerView
  <2>8. Reporting'
    BY <1>0, <2>2, <2>3, Zenon DEF IInv, Reporting, Told, OuterView, Responses, Exits, Triggers
  <2>. QED
    BY <2>4, <2>5, <2>6, <2>7, <2>8, Zenon DEF IInv
<1>2. CASE /\ outer' = [outer EXCEPT !.pc = "exited", !.exit = "ok", !.out = "Error"]
           /\ UNCHANGED inner
  <2>1. outer' \in Outers /\ OuterView(outer', "exited", "ok", "Error", outer.left) /\ SameReasons(outer', outer)
    BY <1>2, OuterResponds, Zenon DEF Outputs, Responses
  <2>2. TypeOK'
    BY <1>0, <1>2, <2>1, Zenon DEF IInv, TypeOK
  <2>3. Answering' /\ Launching'
    BY <1>0, <1>2, <2>1, Zenon DEF IInv, Answering, Launching, OuterView
  <2>4. Timers' /\ Reasoned'
    BY <1>0, <1>2, <2>1, Zenon DEF IInv, Timers, Reasoned, Justified, OuterView, SameReasons, OuterReasons
  <2>5. Reporting'
    BY <1>0, <1>2, <2>1, Zenon DEF IInv, Reporting, Told, OuterView, Exits, Triggers
  <2>. QED
    BY <2>2, <2>3, <2>4, <2>5, Zenon DEF IInv
<1>. QED
  BY <1>1, <1>2, Zenon DEF OuterSetup

\* The companion reads the output: a reason it then has is that the output is over its cap, or
\* that the read failed.
LEMMA OuterPollKeeps == ASSUME IInv, OuterPoll PROVE IInv'
<1>. USE UnpackedOuter
<1>0. /\ outer.pc = "loop" /\ UNCHANGED <<client, inner, tool, cancelled, late>>
      /\ fault' \in {"none", "flow", "companion", "setup", "collector", "boot"}
  BY Zenon DEF OuterPoll, IInv, TypeOK
<1>1. PICK primary, drained :
        /\ outer' = [outer EXCEPT !.step = "arbitrate", !.primary = primary, !.drained = drained]
        /\ drained = (outer.drained \/ (inner.pc = "exited" /\ ~tool.held))
        /\ \/ primary = outer.primary \/ primary = "collector"
           \/ primary = "cap" /\ tool.flood /\ outer.primary = "none"
  BY Zenon DEF OuterPoll, select_primary
<1>2. primary \in Reasons /\ drained \in BOOLEAN
  BY <1>1, Zenon DEF Reasons, Triggers
<1>3. /\ outer' \in Outers /\ OuterView(outer', outer.pc, outer.exit, outer.out, outer.left)
      /\ OuterReasons(outer', outer.flag, primary, outer.class, outer.phase, outer.forced)
  BY <1>1, <1>2, OuterPolls, Zenon
<1>4. TypeOK'
  BY <1>0, <1>3, Zenon DEF IInv, TypeOK
<1>5. Answering' /\ Launching'
  BY <1>0, <1>3, Zenon DEF IInv, Answering, Launching, OuterView
<1>6. Timers'
  BY <1>0, <1>1, <1>3, Zenon DEF IInv, Timers, OuterView, OuterReasons
<1>7. Reasoned'
  BY <1>0, <1>1, <1>3, Zenon DEF IInv, Reasoned, Justified, OuterView, OuterReasons
<1>8. Reporting'
  BY <1>0, <1>3, Zenon DEF IInv, Reporting, Told, OuterView
<1>. QED
  BY <1>4, <1>5, <1>6, <1>7, <1>8, Zenon DEF IInv, OuterPoll

\* What CleanupController::advance returns.
LEMMA Advances ==
  ASSUME NEW phase \in CleanupPhases, NEW timer, NEW complete \in BOOLEAN, NEW drained \in BOOLEAN
  PROVE  /\ Advance(phase, timer, complete, drained) \in CleanupPhases
         /\ phase = "none" => Advance(phase, timer, complete, drained) = "none"
         /\ phase # "none" => Advance(phase, timer, complete, drained) # "none"
         /\ ~complete /\ phase \in {"none", "grace", "forced", "failed"} =>
              Advance(phase, timer, complete, drained) \in {"none", "grace", "forced", "failed"}
BY Zenon DEF Advance, CleanupPhases

\* The reason the companion's arbitration chooses is true: when it takes the exit for the
\* Tool's own, neither deadline has passed and the control channel is open, so nobody asked
\* the Tool to end.
LEMMA ArbitratedIsTrue ==
  ASSUME IInv, NEW exited \in BOOLEAN, exited <=> (inner.pc = "exited" \/ outer.forced)
  PROVE  /\ Arbitrated(exited) \in Reasons
         /\ outer.primary # "none" => Arbitrated(exited) = outer.primary
         /\ Arbitrated(exited) = "exit" => exited
         /\ Justified(Arbitrated(exited))
<1>. USE UnpackedOuter
<1>1. Arbitrated(exited) \in Reasons
  BY Zenon DEF Arbitrated, Reasons, Triggers
<1>2. outer.primary # "none" => Arbitrated(exited) = outer.primary
  BY Zenon DEF Arbitrated
<1>3. CASE outer.primary # "none"
  BY <1>1, <1>2, <1>3, Zenon DEF IInv, Reasoned, Justified
<1>4. CASE outer.primary = "none"
  <2>1. ~outer.forced /\ inner.control
    BY <1>4, Zenon DEF IInv, Timers
  <2>2. outer.flag => cancelled
    BY Zenon DEF IInv, Reasoned
  <2>3. inner.pc = "exited" /\ tool.asked # "none" => outer.left = 0
    <3>1. inner.left = 0 /\ inner.pc = "exited" => inner.left >= outer.left /\ outer.left >= 0
      BY DEF IInv, Timers, Never
    <3>2. inner.left = 0 /\ inner.pc = "exited" => outer.left = 0
      BY <3>1 DEF Never
    <3>. QED
      BY <2>1, <3>2, Zenon DEF IInv, Timers
  <2>4. Arbitrated(exited) = "exit" => exited /\ outer.left # 0
    BY <1>4, Zenon DEF Arbitrated
  <2>5. Arbitrated(exited) = "cancelled" => cancelled
    BY <1>4, <2>2, Zenon DEF Arbitrated
  <2>6. Arbitrated(exited) = "timeout" => outer.left = 0
    BY <1>4, Zenon DEF Arbitrated
  <2>7. Arbitrated(exited) # "cap"
    BY <1>4, Zenon DEF Arbitrated
  <2>. QED
    BY <1>1, <1>4, <2>1, <2>3, <2>4, <2>5, <2>6, <2>7, Zenon DEF Justified
<1>. QED
  BY <1>3, <1>4, Zenon

\* A pass of the companion's loop.
LEMMA OuterArbitrateKeeps == ASSUME IInv, OuterArbitrate PROVE IInv'
<1>. USE UnpackedOuter
<1>. DEFINE exited == inner.pc = "exited" \/ outer.forced
            reaped == outer.reaped \/ exited
            primary == Arbitrated(exited)
            begins == outer.phase = "none" /\ primary # "none"
            phase == IF begins THEN "grace" ELSE outer.phase
            timer == IF begins THEN Bound ELSE outer.cleanup
            next == Advance(phase, timer, reaped, outer.drained)
            settled == next \in {"complete", "undrained"}
            forces == phase = "grace" /\ next = "forced"
            closes == begins /\ ~reaped
            place == IF settled THEN "record" ELSE IF next = "failed" THEN "exited" ELSE outer.pc
            status == IF exited /\ ~outer.reaped /\ outer.phase = "none" THEN inner.exit ELSE outer.status
            cleanup == IF next # phase THEN Bound ELSE timer
            forced == outer.forced \/ forces
            class == IF next = "undrained" THEN "drain" ELSE IF settled THEN primary ELSE outer.class
            exit == IF next = "failed" THEN "failed" ELSE outer.exit
<1>1. /\ outer.pc = "loop" /\ UNCHANGED <<client, tool, cancelled, fault>>
      /\ outer' = [outer EXCEPT
              !.pc = place, !.step = "poll", !.primary = primary, !.phase = next, !.reaped = reaped,
              !.status = status, !.cleanup = cleanup, !.forced = forced, !.class = class, !.exit = exit]
      /\ inner' = [inner EXCEPT !.control = inner.control /\ ~closes]
      /\ late' = (late \ {"outer"}) \cup {p \in {"inner"} : closes \/ forces} \cup {p \in {"outer"} : settled}
  BY ZenonT(60) DEF OuterArbitrate
<1>2. /\ exited \in BOOLEAN /\ reaped \in BOOLEAN /\ phase \in CleanupPhases
      /\ exited <=> (inner.pc = "exited" \/ outer.forced)
      /\ reaped <=> (outer.reaped \/ exited)
      /\ begins <=> (outer.phase = "none" /\ primary # "none")
      /\ closes <=> (begins /\ ~reaped)
      /\ phase # "none" <=> (outer.phase # "none" \/ primary # "none")
  BY Zenon DEF CleanupPhases
<1>3. /\ primary \in Reasons /\ (outer.primary # "none" => primary = outer.primary)
      /\ (primary = "exit" => exited) /\ Justified(primary)
  BY <1>2, ArbitratedIsTrue, Zenon
<1>4. next \in CleanupPhases /\ (phase = "none" => next = "none") /\ (phase # "none" => next # "none")
  <2>1. phase \in CleanupPhases /\ reaped \in BOOLEAN /\ outer.drained \in BOOLEAN
    BY <1>2, Zenon
  <2>. HIDE DEF phase, timer, reaped
  <2>. QED
    BY <2>1, Advances
<1>5. inner.exit \in Codes /\ inner.control \in BOOLEAN /\ inner \in Inners
  BY Zenon DEF IInv, TypeOK, Inners
<1>6. timer \in Never .. Bound /\ Bound \in Never .. Bound
  BY Durations DEF Never
<1>7. /\ place \in OuterPlaces /\ status \in Codes /\ forced \in BOOLEAN /\ class \in Reasons
      /\ exit \in Codes /\ cleanup \in Never .. Bound
      /\ place \in {"record", "exited", "loop"} /\ (class = "drain" \/ class = primary \/ class = outer.class)
      /\ forced => outer.forced \/ phase # "none"
  <2>1. place \in OuterPlaces /\ place \in {"record", "exited", "loop"}
    BY <1>1, Zenon DEF OuterPlaces
  <2>2. status \in Codes /\ exit \in Codes
    BY <1>5, Zenon DEF Codes
  <2>3. class \in Reasons /\ (class = "drain" \/ class = primary \/ class = outer.class)
    BY <1>3, Zenon DEF Reasons, Triggers
  <2>4. forced \in BOOLEAN /\ (forced => outer.forced \/ phase # "none")
    BY Zenon
  <2>5. cleanup \in Never .. Bound
    BY <1>6, Zenon
  <2>. QED
    BY <2>1, <2>2, <2>3, <2>4, <2>5, Zenon
<1>. HIDE DEF exited, reaped, primary, begins, phase, timer, next, settled, forces, closes, place,
              status, cleanup, forced, class, exit
<1>8. /\ outer' \in Outers /\ OuterView(outer', place, exit, outer.out, outer.left)
      /\ OuterReasons(outer', outer.flag, primary, class, next, forced)
  <2>1. /\ outer \in Outers /\ place \in OuterPlaces /\ primary \in Reasons
        /\ next \in CleanupPhases /\ reaped \in BOOLEAN /\ status \in Codes
        /\ cleanup \in Never .. Bound /\ forced \in BOOLEAN /\ class \in Reasons /\ exit \in Codes
    BY <1>2, <1>3, <1>4, <1>7, Zenon
  <2>. DEFINE new == [outer EXCEPT
          !.pc = place, !.step = "poll", !.primary = primary, !.phase = next, !.reaped = reaped,
          !.status = status, !.cleanup = cleanup, !.forced = forced, !.class = class, !.exit = exit]
  <2>2. outer' = new
    BY <1>1, Zenon
  <2>3. new \in Outers
    BY <2>1, Zenon DEF Outers
  <2>4. OuterView(new, place, exit, outer.out, outer.left)
    BY <2>1, Zenon DEF Outers, OuterView
  <2>5. OuterReasons(new, outer.flag, primary, class, next, forced)
    BY <2>1, Zenon DEF Outers, OuterReasons
  <2>. QED
    BY <2>2, <2>3, <2>4, <2>5, Zenon
<1>9. /\ inner' \in Inners /\ InnerView(inner', inner.pc, inner.control /\ ~closes, inner.record, inner.left, inner.phase)
  <2>1. (inner.control /\ ~closes) \in BOOLEAN
    BY Zenon
  <2>. QED
    BY <1>1, <1>5, <2>1, InnerCloses, Zenon
<1>10. TypeOK'
  <2>1. late' \subseteq {"client", "outer", "inner", "tool"}
    BY <1>1, Zenon DEF IInv, TypeOK
  <2>. QED
    BY <1>1, <1>8, <1>9, <2>1, Zenon DEF IInv, TypeOK
<1>11. Answering' /\ Launching'
  BY <1>1, <1>7, <1>8, <1>9, Zenon DEF IInv, Answering, Launching, OuterView, InnerView
<1>12. Timers'
  <2>1. ~(inner.control /\ ~closes) => primary \notin {"none", "exit"}
    <3>1. CASE ~inner.control
      BY <1>3, <3>1, Zenon DEF IInv, Timers
    <3>2. CASE closes
      <4>1. primary # "none" /\ ~exited
        BY <1>2, <3>2, Zenon
      <4>. QED
        BY <1>3, <4>1, Zenon
    <3>. QED
      BY <1>5, <3>1, <3>2, Zenon
  <2>2. next # "none" => primary # "none"
    BY <1>2, <1>3, <1>4, Zenon DEF IInv, Timers
  <2>3. forced => next # "none"
    BY <1>2, <1>4, <1>7, Zenon DEF IInv, Timers
  <2>. QED
    BY <1>1, <1>8, <1>9, <2>1, <2>2, <2>3, Zenon DEF IInv, Timers, OuterView, OuterReasons, InnerView
<1>13. Reasoned'
  BY <1>1, <1>3, <1>7, <1>8, <1>9 DEF IInv, Reasoned, Justified, OuterView, OuterReasons, InnerView
<1>14. Reporting'
  BY <1>1, <1>8, <1>9, Zenon DEF IInv, Reporting, Told, OuterView, InnerView
<1>. QED
  BY <1>10, <1>11, <1>12, <1>13, <1>14, Zenon DEF IInv

\* The companion responds: the record of the inner supervisor says that the Tool has ended, and
\* the class is true of the run.
LEMMA OuterRecordKeeps == ASSUME IInv, OuterRecord PROVE IInv'
<1>. USE UnpackedOuter
<1>0. /\ outer.pc = "record" /\ UNCHANGED <<client, inner, tool, cancelled, fault>>
      /\ late' \subseteq {"client", "outer", "inner", "tool"}
      /\ fault' \in {"none", "flow", "companion", "setup", "collector", "boot"}
  BY Zenon DEF OuterRecord, Passed, IInv, TypeOK
<1>1. /\ outer.out \notin Responses /\ client.seen \notin Responses /\ client.result \notin Responses
  BY <1>0, Zenon DEF IInv, Reporting, Told
<1>2. CASE outer' = [outer EXCEPT !.pc = "exited", !.exit = "failed"]
  <2>1. outer' \in Outers /\ OuterView(outer', "exited", "failed", outer.out, outer.left) /\ SameReasons(outer', outer)
    BY <1>2, OuterExits, Zenon DEF Codes
  <2>. QED
    BY <1>0, <1>1, <2>1, OuterKeeps, Zenon
<1>3. CASE UNCHANGED outer
  BY <1>0, <1>1, <1>3, Unpacked, ClientKeeps, Zenon DEF IInv, Answering
<1>4. ASSUME NEW out, inner.pc = "exited", Evidence,
             out = IF outer.class = "exit" THEN tool.exit ELSE outer.class,
             outer' = [outer EXCEPT !.pc = "exited", !.exit = "ok", !.out = out]
      PROVE  IInv'
  <2>1. inner.record /\ tool.pc = "ended" /\ tool.exit \in Exits
    BY <1>4, Zenon DEF Evidence, IInv, Launching
  <2>2. out \in Outputs
    BY <1>4, <2>1, Zenon DEF Outputs, Responses, Exits, Triggers, Reasons
  <2>3. outer' \in Outers /\ OuterView(outer', "exited", "ok", out, outer.left) /\ SameReasons(outer', outer)
    BY <1>4, <2>2, OuterResponds, Zenon
  <2>4. TypeOK'
    BY <1>0, <2>3, Zenon DEF IInv, TypeOK
  <2>5. Answering' /\ Launching'
    BY <1>0, <2>3, Zenon DEF IInv, Answering, Launching, OuterView
  <2>6. Timers' /\ Reasoned'
    BY <1>0, <2>3 DEF IInv, Timers, Reasoned, Justified, OuterView, SameReasons, OuterReasons
  <2>7. /\ out # "Error"
        /\ out \in Exits => outer.class = "exit" /\ tool.exit = out
        /\ out \in {"cancelled", "timeout", "cap"} => outer.class = out
    BY <1>4, <2>1, Zenon DEF Exits, Reasons, Triggers
  <2>8. Justified(outer.class)
    BY Zenon DEF IInv, Reasoned
  <2>9. Told(outer.out)'
    BY <1>0, <2>1, <2>3, <2>7, <2>8, Zenon DEF Told, Justified, OuterView
  <2>10. Reporting'
    BY <1>0, <1>1, <2>9, Zenon DEF IInv, Reporting
  <2>. QED
    BY <2>4, <2>5, <2>6, <2>10, Zenon DEF IInv
<1>. QED
  BY <1>2, <1>3, <1>4, Zenon DEF OuterRecord, Exited

-----------------------------------------------------------------------------
(* The steps of the inner supervisor and the Tool. *)

\* While the inner supervisor runs, the companion has not responded and has not taken an exit
\* for its reason; the supervisor may ask the Tool to end when it has a cause to.
LEMMA InnerKeeps ==
  ASSUME IInv, inner.pc \in {"boot", "run"}, inner' \in Inners, tool' \in Tools,
         NEW pc \in {"run", "exited"}, NEW record, NEW left, NEW phase,
         NEW place, NEW exit, NEW asked,
         InnerView(inner', pc, inner.control, record, left, phase),
         ToolView(tool', place, exit, asked, tool.flood),
         record => pc = "exited" /\ place = "ended",
         place = "ended" => exit \in Exits,
         left # Never => left >= outer.left,
         asked # "none" \/ phase # "none" => ~inner.control \/ left = 0,
         UNCHANGED <<client, outer, cancelled>>,
         late' \subseteq {"client", "outer", "inner", "tool"},
         fault' \in {"none", "flow", "companion", "setup", "collector", "boot"}
  PROVE  IInv'
<1>1. /\ inner'.pc = pc /\ inner'.control = inner.control /\ inner'.record = record
      /\ inner'.left = left /\ inner'.phase = phase
      /\ tool'.pc = place /\ tool'.exit = exit /\ tool'.asked = asked /\ tool'.flood = tool.flood
  BY Zenon DEF InnerView, ToolView
<1>2. outer.out \notin Responses /\ client.seen \notin Responses /\ client.result \notin Responses
  <2>1. ~inner.record /\ inner.pc # "none"
    BY Zenon DEF IInv, Launching
  <2>. QED
    BY <2>1, Zenon DEF IInv, Reporting, Told, Responses
<1>3. outer.primary # "exit" /\ outer.class # "exit"
  BY Zenon DEF IInv, Reasoned, Justified
<1>4. TypeOK'
  BY Zenon DEF IInv, TypeOK
<1>5. Answering' /\ Launching'
  BY <1>1, Zenon DEF IInv, Answering, Launching
<1>6. Timers'
  BY <1>1, Zenon DEF IInv, Timers
<1>7. Reasoned'
  BY <1>1, <1>3, Zenon DEF IInv, Reasoned, Justified
<1>8. Told(outer.out)'
  <2>1. /\ outer.out # "Error" /\ outer.out \notin Exits \cup Triggers
    BY <1>2, Zenon DEF Responses
  <2>2. outer.out # "cancelled" /\ outer.out # "timeout" /\ outer.out # "cap"
    BY <2>1, Zenon DEF Triggers
  <2>. QED
    BY <1>2, <2>1, <2>2, Zenon DEF Told
<1>9. Reporting'
  BY <1>2, <1>8, Zenon DEF IInv, Reporting
<1>. QED
  BY <1>4, <1>5, <1>6, <1>7, <1>9, Zenon DEF IInv

\* The types of the inner supervisor's and the Tool's fields.
LEMMA UnpackedInner ==
  ASSUME IInv
  PROVE  /\ inner \in Inners /\ inner.pc \in InnerPlaces /\ inner.control \in BOOLEAN
         /\ inner.record \in BOOLEAN /\ inner.exit \in Codes
         /\ inner.phase \in {"none", "grace", "forced", "failed"}
         /\ inner.left \in Never .. Timeout /\ inner.cleanup \in Never .. Bound
         /\ tool \in Tools /\ tool.pc \in {"none", "running", "ended"}
         /\ tool.exit \in Exits \cup {"none"} /\ tool.asked \in {"none", "term", "kill"}
BY Zenon DEF IInv, TypeOK, Inners, Tools

\* The inner supervisor starts the Tool with the whole time-out, or cannot.
LEMMA InnerBootKeeps == ASSUME IInv, InnerBoot PROVE IInv'
<1>. USE UnpackedInner
<1>0. /\ inner.pc = "boot" /\ UNCHANGED <<client, outer, cancelled>>
      /\ late' \subseteq {"client", "outer", "inner", "tool"}
      /\ fault' \in {"none", "flow", "companion", "setup", "collector", "boot"}
  BY Zenon DEF InnerBoot, IInv, TypeOK
<1>1. /\ ~inner.record /\ tool.pc = "none" /\ tool.asked = "none" /\ inner.left = Never
      /\ inner.phase # "none" => ~inner.control
  BY <1>0 DEF IInv, Launching, Timers, Never
<1>2. CASE /\ inner' = [inner EXCEPT !.pc = "run", !.left = Timeout]
           /\ tool' = [tool EXCEPT !.pc = "running"]
  <2>1. Timeout \in Never .. Timeout /\ Timeout >= outer.left
    BY Durations, UnpackedOuter DEF Never
  <2>2. inner' \in Inners /\ InnerView(inner', "run", inner.control, inner.record, Timeout, inner.phase)
    BY <1>2, <2>1, InnerRuns, Zenon
  <2>3. tool' \in Tools /\ ToolView(tool', "running", tool.exit, tool.asked, tool.flood)
    BY <1>2, ToolStarts, Zenon
  <2>. QED
    BY <1>0, <1>1, <2>1, <2>2, <2>3, InnerKeeps
<1>3. CASE inner' = [inner EXCEPT !.pc = "exited", !.exit = "failed"] /\ UNCHANGED tool
  <2>1. inner' \in Inners /\ InnerView(inner', "exited", inner.control, inner.record, inner.left, inner.phase)
    BY <1>3, InnerExits, Zenon DEF Codes
  <2>2. tool' \in Tools /\ ToolView(tool', tool.pc, tool.exit, tool.asked, tool.flood)
    BY <1>3, Zenon DEF ToolView
  <2>. QED
    BY <1>0, <1>1, <2>1, <2>2, InnerKeeps, Zenon
<1>. QED
  BY <1>2, <1>3, Zenon DEF InnerBoot

\* A pass of the inner supervisor: it records a Tool that has ended, or asks it to end because
\* the control channel is closed or the deadline has passed.
LEMMA InnerPassKeeps == ASSUME IInv, InnerPass PROVE IInv'
<1>. USE UnpackedInner
<1>. DEFINE begins == inner.phase = "none" /\ (~inner.control \/ inner.left = 0)
            phase == IF begins THEN "grace" ELSE inner.phase
            timer == IF begins THEN Bound ELSE inner.cleanup
            next == Advance(phase, timer, FALSE, FALSE)
            forces == phase = "grace" /\ next = "forced"
            cleanup == IF begins \/ forces THEN Bound ELSE inner.cleanup
            place == IF next = "failed" THEN "exited" ELSE inner.pc
            exit == IF next = "failed" THEN "failed" ELSE inner.exit
            asked == IF forces THEN "kill" ELSE IF begins THEN "term" ELSE tool.asked
<1>0. /\ inner.pc = "run" /\ UNCHANGED <<client, outer, cancelled>>
      /\ late' \subseteq {"client", "outer", "inner", "tool"}
      /\ fault' \in {"none", "flow", "companion", "setup", "collector", "boot"}
  BY Zenon DEF InnerPass, IInv, TypeOK
<1>1. /\ ~inner.record /\ (tool.pc = "ended" => tool.exit \in Exits)
      /\ inner.left # Never => inner.left >= outer.left
      /\ tool.asked # "none" \/ inner.phase # "none" => ~inner.control \/ inner.left = 0
  BY <1>0, Zenon DEF IInv, Launching, Timers
<1>2. CASE /\ tool.pc = "ended" /\ UNCHANGED tool
           /\ inner' = [inner EXCEPT !.pc = "exited", !.exit = "ok", !.record = TRUE]
  <2>1. inner' \in Inners /\ InnerView(inner', "exited", inner.control, TRUE, inner.left, inner.phase)
    BY <1>2, InnerRecords, Zenon
  <2>2. tool' \in Tools /\ ToolView(tool', tool.pc, tool.exit, tool.asked, tool.flood)
    BY <1>2, Zenon DEF ToolView
  <2>. QED
    BY <1>0, <1>1, <1>2, <2>1, <2>2, InnerKeeps, Zenon
<1>3. CASE /\ inner' = [inner EXCEPT !.phase = next, !.cleanup = cleanup, !.pc = place, !.exit = exit]
           /\ tool' = [tool EXCEPT !.asked = asked]
  <2>1. /\ phase \in CleanupPhases /\ phase \in {"none", "grace", "forced", "failed"}
        /\ phase # "none" => ~inner.control \/ inner.left = 0
    BY <1>1, Zenon DEF CleanupPhases
  <2>2. next \in {"none", "grace", "forced", "failed"} /\ (next # "none" => phase # "none")
    <3>. HIDE DEF phase, timer
    <3>. QED
      BY <2>1, Zenon DEF Advance
  <2>3. /\ cleanup \in Never .. Bound /\ place \in InnerPlaces /\ exit \in Codes
        /\ asked \in {"none", "term", "kill"} /\ place \in {"run", "exited"}
        /\ asked # "none" => ~inner.control \/ inner.left = 0
    <3>1. Bound \in Never .. Bound
      BY Durations DEF Never
    <3>. HIDE DEF next
    <3>. QED
      BY <1>0, <1>1, <2>1, <3>1, Zenon DEF InnerPlaces, Codes
  <2>. HIDE DEF phase, next, cleanup, place, exit, asked
  <2>4. inner' \in Inners /\ InnerView(inner', place, inner.control, inner.record, inner.left, next)
    BY <1>3, <2>2, <2>3, InnerPasses, Zenon
  <2>5. tool' \in Tools /\ ToolView(tool', tool.pc, tool.exit, asked, tool.flood)
    BY <1>3, <2>3, ToolAsked, Zenon
  <2>. QED
    BY <1>0, <1>1, <2>1, <2>2, <2>3, <2>4, <2>5, InnerKeeps, Zenon
<1>. QED
  BY <1>2, <1>3, Zenon DEF InnerPass

\* The inner supervisor dies with the companion, and the Tool with it.
LEMMA InnerDiesKeeps == ASSUME IInv, InnerDies PROVE IInv'
<1>. USE UnpackedInner
<1>0. /\ inner.pc \in {"boot", "run"} /\ UNCHANGED <<client, outer, cancelled>>
      /\ late' \subseteq {"client", "outer", "inner", "tool"}
      /\ fault' \in {"none", "flow", "companion", "setup", "collector", "boot"}
  BY Zenon DEF InnerDies, IInv, TypeOK
<1>1. /\ ~inner.record /\ (tool.pc = "ended" => tool.exit \in Exits)
      /\ inner.left # Never => inner.left >= outer.left
      /\ tool.asked # "none" \/ inner.phase # "none" => ~inner.control \/ inner.left = 0
  BY <1>0, Zenon DEF IInv, Launching, Timers
<1>2. inner' \in Inners /\ InnerView(inner', "exited", inner.control, inner.record, inner.left, inner.phase)
  BY InnerExits, Zenon DEF Codes, InnerDies
<1>3. CASE tool.pc = "running"
  <2>1. tool' \in Tools /\ ToolView(tool', "ended", "signal", tool.asked, tool.flood)
    BY <1>3, ToolKilled, Zenon DEF InnerDies
  <2>2. "signal" \in Exits
    BY Zenon DEF Exits
  <2>. QED
    BY <1>0, <1>1, <1>2, <2>1, <2>2, InnerKeeps, Zenon
<1>4. CASE tool.pc # "running"
  <2>1. tool' \in Tools /\ ToolView(tool', tool.pc, tool.exit, tool.asked, tool.flood)
    BY <1>4, Zenon DEF InnerDies, ToolView
  <2>. QED
    BY <1>0, <1>1, <1>2, <2>1, InnerKeeps, Zenon
<1>. QED
  BY <1>3, <1>4, Zenon

\* The Tool ends: nobody has recorded it yet, so nothing was said of its exit.
LEMMA ToolEndsKeeps == ASSUME IInv, ToolEnds PROVE IInv'
<1>. USE UnpackedInner
<1>0. /\ tool.pc = "running" /\ UNCHANGED <<client, outer, inner, cancelled, fault>>
      /\ late' \subseteq {"client", "outer", "inner", "tool"}
  BY Zenon DEF ToolEnds, IInv, TypeOK
<1>1. PICK exit \in Exits, held \in BOOLEAN :
        tool' = [tool EXCEPT !.pc = "ended", !.exit = exit, !.held = held]
  BY Zenon DEF ToolEnds
<1>2. tool' \in Tools /\ ToolView(tool', "ended", exit, tool.asked, tool.flood)
  BY <1>1, ToolDone, Zenon
<1>3. ~inner.record /\ inner.pc \in {"run", "exited"}
  BY <1>0, Zenon DEF IInv, Launching
<1>4. outer.out \notin Exits
  BY <1>3, Zenon DEF IInv, Reporting, Told
<1>5. TypeOK'
  BY <1>0, <1>2, Zenon DEF IInv, TypeOK
<1>6. Answering' /\ Launching'
  BY <1>0, <1>2, <1>3, Zenon DEF IInv, Answering, Launching, ToolView
<1>7. Timers' /\ Reasoned'
  BY <1>0, <1>2, SMTT(60) DEF IInv, Timers, Reasoned, Justified, ToolView
<1>8. Reporting'
  BY <1>0, <1>2, <1>4, Zenon DEF IInv, Reporting, Told, ToolView
<1>. QED
  BY <1>5, <1>6, <1>7, <1>8, Zenon DEF IInv

\* The Tool writes more than its output may hold.
LEMMA ToolFloodsKeeps == ASSUME IInv, ToolFloods PROVE IInv'
<1>0. UNCHANGED <<client, outer, inner, cancelled, late, fault>>
  BY Zenon DEF ToolFloods
<1>1. tool' \in Tools /\ ToolView(tool', tool.pc, tool.exit, tool.asked, TRUE)
  BY UnpackedInner, ToolFlooding, Zenon DEF ToolFloods
<1>2. TypeOK'
  BY <1>0, <1>1, Zenon DEF IInv, TypeOK
<1>3. Answering' /\ Launching'
  BY <1>0, <1>1, Zenon DEF IInv, Answering, Launching, ToolView
<1>4. Timers' /\ Reasoned'
  BY <1>0, <1>1, Zenon DEF IInv, Timers, Reasoned, Justified, ToolView
<1>5. Reporting'
  BY <1>0, <1>1, Zenon DEF IInv, Reporting, Told, ToolView
<1>. QED
  BY <1>2, <1>3, <1>4, <1>5, Zenon DEF IInv

-----------------------------------------------------------------------------
(* Time, and the theorems. *)

\* A timer that runs stays in its range, and one that has run out stays there.
LEMMA TimerRuns ==
  ASSUME NEW top \in Int, NEW timer \in Never .. top
  PROVE  /\ Down(timer) \in Never .. top
         /\ timer >= 0 => Down(timer) >= 0
         /\ timer = 0 => Down(timer) = 0
         /\ Down(timer) = Never <=> timer = Never
BY DEF Down, Never

\* Two timers run at the same pace.
LEMMA TimersRun ==
  ASSUME NEW first \in Int, NEW second \in Int, first >= second
  PROVE  Down(first) >= Down(second)
BY DEF Down

\* A second passes.  The inner supervisor's deadline stays behind the companion's.
LEMMA TickKeeps == ASSUME IInv, Tick PROVE IInv'
<1>. DEFINE time == Down(client.left)
            cancel == Down(client.cancel)
            left == Down(outer.left)
            cleanup == Down(outer.cleanup)
            innerLeft == Down(inner.left)
            innerCleanup == Down(inner.cleanup)
<1>0. /\ client' = [client EXCEPT !.left = time, !.cancel = cancel]
      /\ outer' = [outer EXCEPT !.left = left, !.cleanup = cleanup]
      /\ inner' = [inner EXCEPT !.left = innerLeft, !.cleanup = innerCleanup]
      /\ UNCHANGED <<tool, cancelled, fault>>
      /\ late' \subseteq {"client", "outer", "inner", "tool"}
  BY Zenon DEF Tick
<1>1. time \in Windows /\ cancel \in Never .. Cancelling
  BY Unpacked, TimerRuns, Durations DEF Windows
<1>2. /\ left \in Never .. Timeout /\ cleanup \in Never .. Bound
      /\ outer.left >= 0 => left >= 0
      /\ outer.left = 0 => left = 0
  BY UnpackedOuter, TimerRuns, Durations
<1>3. /\ innerLeft \in Never .. Timeout /\ innerCleanup \in Never .. Bound
      /\ inner.left = 0 => innerLeft = 0
      /\ innerLeft = Never <=> inner.left = Never
  BY UnpackedInner, TimerRuns, Durations
<1>4. inner.left >= outer.left => innerLeft >= left
  BY UnpackedInner, UnpackedOuter, TimersRun, Durations DEF Never
<1>. HIDE DEF time, cancel, left, cleanup, innerLeft, innerCleanup
<1>5. client' \in Clients /\ ClientView(client', client.pc, client.started, client.seen, client.result)
  BY <1>0, <1>1, Unpacked, ClientTime, Zenon
<1>6. outer' \in Outers /\ OuterView(outer', outer.pc, outer.exit, outer.out, left) /\ SameReasons(outer', outer)
  BY <1>0, <1>2, UnpackedOuter, OuterTime, Zenon
<1>7. inner' \in Inners /\ InnerView(inner', inner.pc, inner.control, inner.record, innerLeft, inner.phase)
  BY <1>0, <1>3, UnpackedInner, InnerTime, Zenon
<1>8. TypeOK'
  BY <1>0, <1>5, <1>6, <1>7, Zenon DEF IInv, TypeOK
<1>9. /\ UNCHANGED <<tool, cancelled>>
      /\ client'.pc = client.pc /\ client'.started = client.started /\ client'.seen = client.seen
      /\ client'.result = client.result
  BY <1>0, <1>5, Zenon DEF ClientView
<1>10. /\ outer'.pc = outer.pc /\ outer'.exit = outer.exit /\ outer'.out = outer.out /\ outer'.left = left
       /\ outer'.flag = outer.flag /\ outer'.primary = outer.primary
       /\ outer'.class = outer.class /\ outer'.phase = outer.phase /\ outer'.forced = outer.forced
  BY <1>6, Zenon DEF OuterView, SameReasons, OuterReasons
<1>11. /\ inner'.pc = inner.pc /\ inner'.control = inner.control /\ inner'.record = inner.record
       /\ inner'.left = innerLeft /\ inner'.phase = inner.phase
  BY <1>7, Zenon DEF InnerView
<1>12. Answering' /\ Launching'
  BY <1>9, <1>10, <1>11, Zenon DEF IInv, Answering, Launching
<1>13. Timers'
  BY <1>2, <1>3, <1>4, <1>9, <1>10, <1>11, Zenon DEF IInv, Timers
<1>14. Reasoned' /\ Reporting'
  BY <1>2, <1>9, <1>10, <1>11, SMTT(60) DEF IInv, Reasoned, Justified, Reporting, Told
<1>. QED
  BY <1>8, <1>12, <1>13, <1>14, Zenon DEF IInv

\* Every step of the four processes, every fault and every tick preserves the invariant.
LEMMA Inductive == IInv /\ [Next]_vars => IInv'
<1>. SUFFICES ASSUME IInv, [Next]_vars PROVE IInv'
  BY Zenon
<1>1. CASE Client
  BY <1>1, PollPreflightKeeps, ObservePreflightKeeps, StartKeeps, PollStartKeeps,
     ObserveStartKeeps, Zenon DEF Client, ClientPass
<1>2. CASE Cancel \/ FlowDies
  BY <1>2, CancelKeeps, FlowDiesKeeps, Zenon
<1>3. CASE OuterPreflight \/ Outer \/ OuterDies
  BY <1>3, OuterPreflightKeeps, OuterSetupKeeps, OuterPollKeeps, OuterArbitrateKeeps,
     OuterRecordKeeps, OuterDiesKeeps, Zenon DEF Outer
<1>4. CASE InnerBoot \/ InnerPass \/ InnerDies
  BY <1>4, InnerBootKeeps, InnerPassKeeps, InnerDiesKeeps, Zenon
<1>5. CASE ToolEnds \/ ToolFloods \/ Tick
  BY <1>5, ToolEndsKeeps, ToolFloodsKeeps, TickKeeps, Zenon
<1>6. CASE UNCHANGED vars
  BY <1>6, SMTT(60) DEF vars, IInv, TypeOK, Answering, Launching, Timers, Reasoned, Justified, Reporting, Told
<1>. QED
  BY <1>1, <1>2, <1>3, <1>4, <1>5, <1>6, Zenon DEF Next

\* When a dispatch begins the companion has read nothing and there is no Tool.
LEMMA Initially == Init => IInv
<1>. SUFFICES ASSUME Init PROVE IInv
  BY Zenon
<1>1. client \in Clients
  BY Durations, SMTT(60) DEF Init, Clients, ClientPlaces, Outputs, Results, Never
<1>2. outer \in Outers
  BY Durations, SMTT(60) DEF Init, Outers, OuterPlaces, Reasons, CleanupPhases, Codes, Outputs, Never
<1>3. inner \in Inners /\ tool \in Tools
  <2>1. inner \in Inners
    BY Durations, SMTT(60) DEF Init, Inners, InnerPlaces, Codes, Never
  <2>2. tool \in Tools
    BY Zenon DEF Init, Tools
  <2>. QED
    BY <2>1, <2>2, Zenon
<1>4. TypeOK
  BY <1>1, <1>2, <1>3, Zenon DEF Init, TypeOK
<1>5. Answering /\ Launching /\ Timers
  BY ZenonT(60) DEF Init, Answering, Launching, Timers, Unstarted
<1>6. Reasoned
  BY Zenon DEF Init, Reasoned, Justified
<1>7. Reporting
  BY Zenon DEF Init, Reporting, Told, Responses, Exits, Triggers
<1>. QED
  BY <1>4, <1>5, <1>6, <1>7, Zenon DEF IInv

\* Whatever the order of the processes' steps, the faults and the ticks, the chain from the
\* reason that the companion's arbitration chooses to what the client read is true.
THEOREM Invariance == Spec => []IInv
BY Initially, Inductive, PTL DEF Spec

\* What start_one_shot answers is what happened: nothing was dispatched, the Tool has ended,
\* the exit is its own, the cancellation or the time-out occurred.
THEOREM ResultTheorem == Spec => []ResultTruthful
<1>1. IInv => ResultTruthful
  <2>. SUFFICES ASSUME IInv PROVE ResultTruthful
    BY Zenon
  <2>1. ToolNeedsStart
    BY Zenon DEF ToolNeedsStart, IInv, Launching
  <2>2. client.result \in Unstarted => tool.pc = "none"
    BY Zenon DEF IInv, Answering, Launching
  <2>3. client.result \in Responses => Told(client.result)
    BY Zenon DEF IInv, Reporting
  <2>4. client.result = "Error" => tool.pc = "none"
    BY <2>3, Zenon DEF Told, Responses, IInv, Launching
  <2>5. client.result \in Responses \ {"Error"} => tool.pc = "ended" /\ inner.record
    BY <2>3, Zenon DEF Told, Responses, IInv, Launching
  <2>6. client.result \in Exits => tool.exit = client.result /\ tool.asked = "none"
    BY <2>3, Zenon DEF Told, Responses
  <2>7. /\ client.result = "cancelled" => cancelled
        /\ client.result = "timeout" => outer.left = 0
        /\ client.result = "cap" => tool.flood
    BY <2>3, Zenon DEF Told, Responses, Triggers
  <2>. QED
    BY <2>1, <2>2, <2>4, <2>5, <2>6, <2>7, Zenon DEF ResultTruthful
<1>. QED
  BY <1>1, Invariance, PTL
=============================================================================
