------------------------------ MODULE AgentEvents ------------------------------
(***************************************************************************)
(* The translation of the agent's records into the events the app shows    *)
(* (meta-harness-core, src/pi.rs, PiAdapter): turns, the items of a turn   *)
(* (messages, reasoning, tool calls), what they print and how they end,    *)
(* and the approval cards of tool calls.                                   *)
(*                                                                         *)
(* The agent is external: responses whose blocks stream under an index and *)
(* may stop in the middle, retries within the turn, tools that run one     *)
(* after the other or at once, aborts.  A block's text is how many pieces  *)
(* of it came.  Servers that send no ids for tool calls make them repeat,  *)
(* also while the earlier call runs.                                       *)
(***************************************************************************)
EXTENDS Naturals, FiniteSets, Sequences

CONSTANTS
  Indexes,    \* contentIndex of the blocks of a response
  CallIds,    \* toolCallId
  MaxItems, MaxTurns, MaxText, MaxResponses

VARIABLES
  adapter,    \* PiAdapter
  pi,         \* the agent: what it is doing
  shown,      \* the items as the events told them
  misled,     \* an event named no item that is running, or a card the wrong call
  reused      \* items whose id was started again while they ran, each with the item that did

vars == <<adapter, pi, shown, misled, reused>>

\* Items that a later start of their id replaced in PiAdapter::tools, and all that shared an id.
Replaced == {pair[1] : pair \in reused}
Sharing == Replaced \cup {pair[2] : pair \in reused}

-----------------------------------------------------------------------------
\* Applying an event to what is shown.
Started(item, kind) == [item |-> item, kind |-> kind, text |-> 0, status |-> "running"]

Running(set, item) == \E i \in set : i.item = item /\ i.status = "running"

Apply(set, item, change(_)) == {IF i.item = item THEN change(i) ELSE i : i \in set}

completed(set, item, text, status) ==
  LET Complete(i) == [i EXCEPT !.text = text, !.status = status] IN Apply(set, item, Complete)

\* fail: open items end as failed, with the text they had.
RECURSIVE fail(_, _)
fail(set, open) ==
  IF open = {} THEN set
  ELSE LET block == CHOOSE b \in open : \A c \in open : b.item <= c.item
       IN  fail(completed(set, block.item, block.text, "failed"), open \ {block})

next_item == adapter.items + 1

-----------------------------------------------------------------------------
\* The agent starts a run; a retry starts another one inside the same turn.
agent_start ==
  /\ \/ pi.at = "idle" /\ pi.turns < MaxTurns
     \/ pi.at = "retry"
  /\ pi' = [pi EXCEPT !.at = "run", !.turns = IF pi.at = "idle" THEN @ + 1 ELSE @,
                      !.responses = IF pi.at = "idle" THEN 0 ELSE @]
  /\ adapter' = IF adapter.turn # 0 THEN adapter
                ELSE [adapter EXCEPT !.turns = @ + 1, !.turn = adapter.turns + 1]
  /\ UNCHANGED <<shown, misled, reused>>

\* message_end of a prompt or a steering message: user_message
user_message ==
  /\ pi.at = "run" /\ pi.running = {} /\ adapter.items < MaxItems
  /\ adapter' = [adapter EXCEPT !.items = @ + 1]
  /\ shown' = shown \cup {[Started(next_item, "user") EXCEPT !.status = "completed", !.text = 1]}
  /\ UNCHANGED <<pi, misled, reused>>

Respond ==
  /\ pi.at = "run" /\ pi.running = {} /\ pi.responses < MaxResponses
  /\ pi' = [pi EXCEPT !.at = "respond", !.responses = @ + 1, !.begun = {}]
  /\ UNCHANGED <<adapter, shown, misled, reused>>

\* assistant_update: text_start, thinking_start
block_start(index) ==
  /\ pi.at = "respond" /\ index \notin pi.begun /\ adapter.items < MaxItems
  /\ pi' = [pi EXCEPT !.begun = @ \cup {index}, !.blocks = @ \cup {[index |-> index, text |-> 0]}]
  /\ adapter' = [adapter EXCEPT !.items = @ + 1,
                   !.blocks = {b \in @ : b.index # index} \cup {[index |-> index, item |-> next_item, text |-> 0]}]
  /\ shown' = shown \cup {Started(next_item, "message")}
  /\ UNCHANGED <<misled, reused>>

\* text_delta, thinking_delta
block_delta(index) ==
  /\ \E b \in pi.blocks : b.index = index /\ b.text < MaxText
  /\ pi' = [pi EXCEPT !.blocks = {IF b.index = index THEN [b EXCEPT !.text = @ + 1] ELSE b : b \in @}]
  /\ adapter' = [adapter EXCEPT !.blocks = {IF b.index = index THEN [b EXCEPT !.text = @ + 1] ELSE b : b \in @}]
  /\ LET items == {b.item : b \in {c \in adapter.blocks : c.index = index}}
         Longer(i) == [i EXCEPT !.text = @ + 1]
     IN  /\ shown' = {IF i.item \in items THEN Longer(i) ELSE i : i \in shown}
         /\ misled' = (misled \/ \E item \in items : ~Running(shown, item))
  /\ UNCHANGED reused

\* text_end, thinking_end: the text the record carries is the block's.
block_end(index) ==
  /\ \E b \in pi.blocks : b.index = index
  /\ LET text == (CHOOSE b \in pi.blocks : b.index = index).text
         open == {b \in adapter.blocks : b.index = index}
     IN  /\ shown' = IF open = {} THEN shown
                     ELSE completed(shown, (CHOOSE b \in open : TRUE).item, text, "completed")
         /\ adapter' = [adapter EXCEPT !.blocks = @ \ open]
  /\ pi' = [pi EXCEPT !.blocks = {b \in @ : b.index # index}]
  /\ UNCHANGED <<misled, reused>>

\* Mutant: a response that ended leaves its open blocks to the end of the turn.
message_end_settling ==
  /\ pi.at = "respond"
  /\ \E at \in {"run", "retry", "tools"} : pi' = [pi EXCEPT !.at = at, !.blocks = {}]
  /\ UNCHANGED <<adapter, shown, misled, reused>>

\* message_end of a response: what it did not end, such as on an error, ends as
\* failed before the next response uses the same indexes.
message_end ==
  /\ pi.at = "respond"
  /\ \E at \in {"run", "retry", "tools"} : pi' = [pi EXCEPT !.at = at, !.blocks = {}]
  /\ shown' = fail(shown, adapter.blocks)
  /\ adapter' = [adapter EXCEPT !.blocks = {}]
  /\ UNCHANGED <<misled, reused>>

\* tool_start
tool_start(id) ==
  /\ pi.at = "tools" /\ adapter.items < MaxItems
  /\ reused' = reused \cup {<<t.item, next_item>> : t \in {u \in pi.running : u.id = id}}
  /\ pi' = [pi EXCEPT !.running = @ \cup {[id |-> id, item |-> next_item]}]
  /\ adapter' = [adapter EXCEPT !.items = @ + 1,
                   !.tools = {t \in @ : t.id # id} \cup {[id |-> id, item |-> next_item]}]
  /\ shown' = shown \cup {Started(next_item, "tool")}
  /\ UNCHANGED misled

\* The extension asks for an approval: approval names the item of the call.
approval(tool) ==
  /\ tool \in pi.running
  /\ misled' = (misled \/ /\ tool.item \notin Sharing
                          /\ \A t \in adapter.tools :
                               t.id = tool.id => t.item # tool.item \/ ~Running(shown, t.item))
  /\ UNCHANGED <<adapter, pi, shown, reused>>

\* tool_execution_update: the item's latest partial output.
tool_update(tool) ==
  /\ tool \in pi.running
  /\ LET items == {t.item : t \in {u \in adapter.tools : u.id = tool.id}}
         Printed(i) == [i EXCEPT !.text = 1]
     IN  /\ shown' = {IF i.item \in items THEN Printed(i) ELSE i : i \in shown}
         /\ misled' = (misled \/ (tool.item \notin Sharing /\ items # {tool.item}))
  /\ UNCHANGED <<adapter, pi, reused>>

\* tool_execution_end
tool_end(tool, status) ==
  /\ tool \in pi.running
  /\ LET open == {t \in adapter.tools : t.id = tool.id} IN
       /\ shown' = IF open = {} THEN shown
                   ELSE completed(shown, (CHOOSE t \in open : TRUE).item, 2, status)
       /\ adapter' = [adapter EXCEPT !.tools = @ \ open]
  /\ LET left == pi.running \ {tool} IN
       pi' = [pi EXCEPT !.running = left, !.at = IF left = {} THEN "run" ELSE @]
  /\ UNCHANGED <<misled, reused>>

\* Mutant: the end of a turn leaves the tools that were running.
agent_settled_tools ==
  /\ pi.at \in {"run", "respond", "tools", "retry"}
  /\ pi' = [pi EXCEPT !.at = "idle", !.blocks = {}, !.running = {}]
  /\ shown' = fail(shown, adapter.blocks)
  /\ adapter' = [adapter EXCEPT !.turn = 0, !.blocks = {}, !.tools = {}]
  /\ UNCHANGED <<misled, reused>>

\* agent_settled, also after an abort in the middle of anything: items still open
\* end as failed.
agent_settled ==
  /\ pi.at \in {"run", "respond", "tools", "retry"}
  /\ pi' = [pi EXCEPT !.at = "idle", !.blocks = {}, !.running = {}]
  /\ shown' = fail(shown, adapter.blocks \cup {[index |-> 0, item |-> t.item, text |-> 0] : t \in adapter.tools})
  /\ adapter' = [adapter EXCEPT !.turn = 0, !.blocks = {}, !.tools = {}]
  /\ UNCHANGED <<misled, reused>>

Init ==
  /\ adapter = [turns |-> 0, items |-> 0, turn |-> 0, blocks |-> {}, tools |-> {}]
  /\ pi = [at |-> "idle", turns |-> 0, responses |-> 0, begun |-> {}, blocks |-> {}, running |-> {}]
  /\ shown = {} /\ misled = FALSE /\ reused = {}

Next ==
  \/ agent_start \/ user_message \/ Respond \/ message_end \/ agent_settled
  \/ \E index \in Indexes : block_start(index) \/ block_delta(index) \/ block_end(index)
  \/ \E id \in CallIds : tool_start(id)
  \/ \E tool \in pi.running :
       \/ approval(tool) \/ tool_update(tool)
       \/ \E status \in {"completed", "failed"} : tool_end(tool, status)

Spec == Init /\ [][Next]_vars
-----------------------------------------------------------------------------
\* Nothing is shown as running that is not: every item that was started and has
\* not ended is a block that streams or a tool that runs.  In particular none
\* stays running once the turn has settled, also after an abort or a response
\* that broke off, except a tool's item whose call id was started again while it
\* ran: tool_start replaces it in PiAdapter::tools, and nothing ends it any more.
NoneStaysRunning ==
  {i.item : i \in {j \in shown : j.status = "running"}}
    \subseteq {b.item : b \in {c \in adapter.blocks : c.index \in {d.index : d \in pi.blocks}}}
              \cup {t.item : t \in pi.running} \cup Replaced

\* And what runs is shown as running, with what it has printed so far; a card, an
\* output or a piece of text never reaches another item than its own, nor one
\* that has ended.  Tools that run at once under the same id are the exception:
\* their records name only the last one started.
ShownTruthful ==
  /\ ~misled
  /\ \A t \in pi.running : t.item \in Sharing \/ Running(shown, t.item)
  /\ \A b \in pi.blocks : \E c \in adapter.blocks :
       c.index = b.index /\ \E i \in shown : i.item = c.item /\ i.status = "running" /\ i.text = b.text
=============================================================================
