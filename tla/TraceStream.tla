---------------------------- MODULE TraceStream ----------------------------
(***************************************************************************)
(* What a browser shows of a task: the nodes publish events to a           *)
(* broadcaster, every socket has a bounded queue there, and the page puts  *)
(* together what the socket brings and what GET /tasks/{id} reconstructs   *)
(* from the store, on its first load and after every reconnection.         *)
(*                                                                         *)
(* One task and one page.  An asyncio.Lock nobody holds is taken without   *)
(* a switch, so publish, subscribe and unsubscribe are one step each.      *)
(* React applies the updates of its state in order; when it does is left   *)
(* out.                                                                    *)
(***************************************************************************)
EXTENDS Naturals, SequencesExt

CONSTANTS
    Turns,       \* bound: agent turns of the task
    QueueSize,   \* maxsize of a subscriber's queue; 1000 in the code
    MaxSockets   \* bound: connections the page opens

ASSUME TraceAssumption ==
    /\ Turns \in Nat \ {0} /\ QueueSize \in Nat \ {0} /\ MaxSockets \in Nat \ {0}

Sockets == 1..MaxSockets

VARIABLES
    traced,     \* Langfuse is configured: spans have an id
    task,       \* the turn of the task, and what it does next
    history,    \* what the store has of it, as get_trace_history tells it
    sockets,    \* sockets[s]: its state, and its queue at the broadcaster
    fetches,    \* fetches[s]: the GET sent when socket s was opened
    page,       \* events shown, spans seen, how it knows the task is over
    published   \* history, read by the properties only: the events published

vars == <<traced, task, history, sockets, fetches, page, published>>

\* span_id or "": no id is an id like any other here, 0.
LiveSpan(n) == IF traced THEN n ELSE 0

Started(n) == [type |-> "node_start", turn |-> n, span |-> LiveSpan(n), cost |-> FALSE]
Ended(n) == [type |-> "node_end", turn |-> n, span |-> LiveSpan(n), cost |-> TRUE]

\* A decision has its own id, and nothing of what the turn cost.
Decided(n) == [type |-> "node_end", turn |-> n, span |-> Turns + n, cost |-> FALSE]
Completed == [type |-> "task_complete", turn |-> 0, span |-> 2 * Turns + 1, cost |-> FALSE]
Escalated == [type |-> "hitl_interrupt", turn |-> 0, span |-> 2 * Turns + 1, cost |-> FALSE]

Events ==
    [type : {"node_start", "node_end", "task_complete", "hitl_interrupt"},
     turn : 0..Turns, span : 0..(2 * Turns + 1), cost : BOOLEAN]

\* What tells the page that no more will come: the task's row, an outcome.
Endings == {"row", "task_complete"}

NoFetch == [at |-> "none", over |-> FALSE, events |-> <<>>]

SlipNoSocket == [at |-> "new", listed |-> TRUE, queue |-> <<>>, from |-> 0, got |-> <<>>]
NoSocket == [at |-> "new", listed |-> FALSE, queue |-> <<>>, from |-> 0, got |-> <<>>]

TraceTypeOK ==
    /\ traced \in BOOLEAN
    /\ task \in [turn : 1..Turns,
                 next : {"start", "decide", "end", "fail", "outcome", "status",
                         "failed status", "failed outcome", "over"},
                 over : BOOLEAN]
    /\ history \in Seq(Events) /\ published \in Seq(Events)
    /\ \A s \in Sockets :
        /\ sockets[s].at \in {"new", "opening", "open", "cut", "closed"}
        /\ sockets[s].listed => sockets[s].at \in {"open", "cut"}
        /\ sockets[s].queue \in Seq(Events) /\ Len(sockets[s].queue) <= QueueSize
        /\ fetches[s].at \in {"none", "asked", "row read", "decisions read", "answered",
                             "settled"}
    /\ page.shown \in Seq(Events) /\ page.seen \subseteq 1..(2 * Turns + 1)
    /\ page.socket \in 0..MaxSockets /\ page.waits \in BOOLEAN
    /\ page.terminal \subseteq Endings

\* The page has just been mounted: it asks for the task and opens a socket.
Init ==
    /\ traced \in BOOLEAN
    /\ task = [turn |-> 1, next |-> "start", over |-> FALSE]
    /\ history = <<>> /\ published = <<>>
    /\ sockets = [s \in Sockets |->
         IF s = 1 THEN [NoSocket EXCEPT !.at = "opening"] ELSE NoSocket]
    /\ fetches = [s \in Sockets |-> IF s = 1 THEN [NoFetch EXCEPT !.at = "asked"] ELSE NoFetch]
    /\ page = [shown |-> <<>>, seen |-> {}, terminal |-> {}, socket |-> 1, waits |-> FALSE]

-----------------------------------------------------------------------------
(* The broadcaster and the nodes                                           *)

SlipOffered(socket, e) ==
    IF socket.listed /\ Len(socket.queue) < QueueSize
    THEN [socket EXCEPT !.queue = Append(@, e)] ELSE socket

\* A queue that is full misses the event and every later one.
Offered(socket, e) ==
    IF socket.listed /\ Len(socket.queue) < QueueSize
    THEN [socket EXCEPT !.queue = Append(@, e)] ELSE [socket EXCEPT !.listed = FALSE]

Publish(e) ==
    /\ sockets' = [s \in Sockets |-> Offered(sockets[s], e)]
    /\ published' = Append(published, e)
    /\ UNCHANGED <<traced, fetches, page>>

Go(where) == task' = [task EXCEPT !.next = where]

NextTurn == task.turn < Turns /\ task' = [task EXCEPT !.turn = @ + 1, !.next = "start"]

StartNode ==
    /\ task.next = "start" /\ Publish(Started(task.turn))
    /\ Go("decide") \/ Go("fail")
    /\ UNCHANGED history

\* The agent stores its decision, then its node ends.
Decide ==
    /\ task.next = "decide" /\ Go("end")
    /\ history' = Append(history, Decided(task.turn))
    /\ UNCHANGED <<traced, sockets, fetches, page, published>>

EndNode ==
    /\ task.next = "end" /\ Publish(Ended(task.turn))
    /\ NextTurn \/ Go("outcome") \/ Go("failed status")
    /\ UNCHANGED history

\* A node whose agent raised: no decision, no cost.  The handlers of a blocked
\* call and of an answer that is not valid publish no end at all, and after the
\* latter the task may go on.
FailNode ==
    /\ task.next = "fail" /\ UNCHANGED history
    /\ \/ Publish([Ended(task.turn) EXCEPT !.cost = FALSE]) /\ Go("outcome")
       \/ /\ Go("outcome") \/ NextTurn
          /\ UNCHANGED <<traced, sockets, fetches, page, published>>

\* At the end of a graph the outcome comes before the status; when the graph
\* raised, after it.
Finish ==
    /\ \/ task.next = "outcome" /\ Go("status")
          /\ \E o \in {Completed, Escalated} :
                /\ o = Completed => Decided(task.turn) \in ToSet(history)
                /\ history' = Append(history, o)
       \/ task.next = "status" /\ task' = [task EXCEPT !.next = "over", !.over = TRUE]
          /\ UNCHANGED history
       \/ task.next = "failed status"
          /\ task' = [task EXCEPT !.next = "failed outcome", !.over = TRUE]
          /\ UNCHANGED history
       \/ task.next = "failed outcome" /\ Go("over")
          /\ history' = Append(history, Escalated)
    /\ UNCHANGED <<traced, sockets, fetches, page, published>>

-----------------------------------------------------------------------------
(* The socket: events_stream on one end, the hook's handlers on the other. *)

Subscribe(s) ==
    /\ sockets[s].at = "opening"
    /\ sockets' = [sockets EXCEPT ![s].at = "open", ![s].listed = TRUE,
                                  ![s].from = Len(published)]
    /\ UNCHANGED <<traced, task, history, fetches, page, published>>

\* onmessage: an event with the id of one seen before is skipped.
Received(e) ==
    IF e.span # 0 /\ e.span \in page.seen THEN page
    ELSE [page EXCEPT !.shown = Append(@, e), !.seen = @ \cup ({e.span} \ {0})]

Deliver(s) ==
    /\ sockets[s].at = "open" /\ sockets[s].queue # <<>>
    /\ page' = Received(Head(sockets[s].queue))
    /\ sockets' = [sockets EXCEPT ![s].queue = Tail(@),
                                  ![s].got = Append(@, Head(sockets[s].queue))]
    /\ UNCHANGED <<traced, task, history, fetches, published>>

\* onclose, before or after the server has subscribed the socket.
Cut(s) ==
    /\ page.socket = s
    /\ sockets' = [sockets EXCEPT ![s].at = IF @ = "open" THEN "cut" ELSE "closed"]
    /\ page' = [page EXCEPT !.socket = 0, !.waits = (page.terminal = {})]
    /\ UNCHANGED <<traced, task, history, fetches, published>>

\* The server finds out when it sends, an event or a ping.
Unsubscribe(s) ==
    /\ sockets[s].at = "cut"
    /\ sockets' = [sockets EXCEPT ![s] = [NoSocket EXCEPT !.at = "closed"]]
    /\ UNCHANGED <<traced, task, history, fetches, page, published>>

\* The timer: a GET, and a socket unless the page has learnt meanwhile that
\* the task is over.
Reconnect(s) ==
    /\ page.waits /\ sockets[s].at = "new"
    /\ \A r \in Sockets : sockets[r].at = "new" => s <= r
    /\ fetches' = [fetches EXCEPT ![s].at = "asked"]
    /\ \/ /\ page.terminal # {} /\ page' = [page EXCEPT !.waits = FALSE]
          /\ sockets' = [sockets EXCEPT ![s].at = "closed"]
       \/ /\ page.terminal = {} /\ page' = [page EXCEPT !.waits = FALSE, !.socket = s]
          /\ sockets' = [sockets EXCEPT ![s].at = "opening"]
    /\ UNCHANGED <<traced, task, history, published>>

-----------------------------------------------------------------------------
(* GET /tasks/{id} and backfill                                            *)

\* The elements of s at the positions in I, in their order: what a filter keeps.
Picked(s, I) ==
    [n \in 1..Cardinality(I) |-> s[CHOOSE i \in I : Cardinality(I \cap 1..i) = n]]

Stored(type) ==
    Picked(history,
        {i \in DOMAIN history : (history[i].type = "node_end") = (type = "decision")})

SlipReadTask(s) ==
    /\ \/ /\ fetches[s].at = "asked"
          /\ fetches' = [fetches EXCEPT ![s].at = "row read", ![s].events = Stored("decision")]
       \/ /\ fetches[s].at = "row read"
          /\ fetches' = [fetches EXCEPT ![s].at = "decisions read",
                                        ![s].events = @ \o Stored("outcome")]
       \/ /\ fetches[s].at = "decisions read"
          /\ fetches' = [fetches EXCEPT ![s].at = "answered", ![s].over = task.over]
    /\ UNCHANGED <<traced, task, history, sockets, page, published>>

\* get_task reads the row, then get_trace_history the decisions, then the
\* outcomes.
ReadTask(s) ==
    /\ \/ /\ fetches[s].at = "asked"
          /\ fetches' = [fetches EXCEPT ![s].at = "row read", ![s].over = task.over]
       \/ /\ fetches[s].at = "row read"
          /\ fetches' = [fetches EXCEPT ![s].at = "decisions read",
                                        ![s].events = Stored("decision")]
       \/ /\ fetches[s].at = "decisions read"
          /\ fetches' = [fetches EXCEPT ![s].at = "answered",
                                        ![s].events = @ \o Stored("outcome")]
    /\ UNCHANGED <<traced, task, history, sockets, page, published>>

Spans(events) == {e.span : e \in ToSet(events)}

SlipMerged(shown, events) ==
    shown \o Picked(events, {i \in DOMAIN events : events[i] \notin ToSet(published)})

\* The events whose id is not shown yet; sorting is left out.
Merged(shown, events) ==
    shown \o Picked(events, {i \in DOMAIN events : events[i].span \notin Spans(shown)})

Backfill(s) ==
    /\ fetches[s].at = "answered"
    /\ LET merged == Merged(page.shown, fetches[s].events) IN
         page' = [page EXCEPT
             !.shown = merged,
             !.seen = IF merged = page.shown THEN @ ELSE @ \cup (Spans(merged) \ {0}),
             !.terminal = @ \cup {"row" : o \in {fetches[s].over} \ {FALSE}}
                            \cup {e.type : e \in {Completed} \cap ToSet(fetches[s].events)}]
    /\ fetches' = [fetches EXCEPT ![s] = [NoFetch EXCEPT !.at = "settled"]]
    /\ UNCHANGED <<traced, task, history, sockets, published>>

\* An error of the request, wherever it comes from, is ignored.
FetchFails(s) ==
    /\ fetches[s].at = "asked"
    /\ fetches' = [fetches EXCEPT ![s] = [NoFetch EXCEPT !.at = "settled"]]
    /\ UNCHANGED <<traced, task, history, sockets, page, published>>

Next ==
    \/ StartNode \/ Decide \/ EndNode \/ FailNode \/ Finish
    \/ \E s \in Sockets :
        \/ Subscribe(s) \/ Deliver(s) \/ Cut(s) \/ Unsubscribe(s) \/ Reconnect(s)
        \/ ReadTask(s) \/ Backfill(s) \/ FetchFails(s)

Spec == Init /\ [][Next]_vars

-----------------------------------------------------------------------------
(* Properties                                                              *)

\* What a socket has been sent and still has in its queue is what was published
\* since it subscribed, in order and without a gap; as long as it is subscribed
\* it is all of it.  A queue that was full once is not written to again.
NoGapInStream ==
    \A s \in Sockets :
        LET due == sockets[s].got \o sockets[s].queue IN
          /\ due = SubSeq(published, sockets[s].from + 1, sockets[s].from + Len(due))
          /\ sockets[s].listed => sockets[s].from + Len(due) = Len(published)

\* Reconnections, answers that arrive late, and events that come both ways show
\* no event twice and, when spans have ids, no span twice.
ShownOnce ==
    \A i, j \in DOMAIN page.shown :
        i # j => /\ page.shown[i] # page.shown[j]
                 /\ traced => page.shown[i].span # page.shown[j].span

\* A page that stopped reconnecting because the row says the task is over shows
\* every decision of the task: it read the row before the decisions, and the row
\* is written after the last of them.
StoppedPageShowsDecisions ==
    "row" \in page.terminal =>
        \A e \in ToSet(history) : e.type = "node_end" => e \in ToSet(page.shown)

\* The page sums the costs of the node_end events it shows, and re-syncs from
\* trace_history on its first load and after a reconnection: a page that knows
\* the task is over has the cost of every turn that ended with a decision, once.
CostResyncs ==
    "row" \in page.terminal =>
        \A n \in 1..Turns :
            Decided(n) \in ToSet(history) /\ Ended(n) \in ToSet(published) =>
                \E i \in DOMAIN page.shown :
                    \A j \in DOMAIN page.shown :
                        page.shown[j].turn = n /\ page.shown[j].cost <=> i = j

=============================================================================
