-------------------------- MODULE TraceStream_proofs --------------------------
(* What a socket of the dashboard is sent and what a page shows, for any number   *)
(* of turns, any bound on the queues and any number of reconnections.             *)
EXTENDS TraceStream, SequenceTheorems, FiniteSetTheorems, FunctionTheorems, TLAPS

SocketStates ==
    [at : {"new", "opening", "open", "cut", "closed"}, listed : BOOLEAN,
     queue : Seq(Events), from : Nat, got : Seq(Events)]

\* What k was sent, and what it has in its queue, is what was published after it
\* subscribed, event by event; while it is listed nothing is missing.
Sent(k, events) ==
    /\ k.from + Len(k.got) + Len(k.queue) <= Len(events)
    /\ \A i \in 1..Len(k.got) : k.got[i] = events[k.from + i]
    /\ \A i \in 1..Len(k.queue) : k.queue[i] = events[k.from + Len(k.got) + i]
    /\ k.listed => k.from + Len(k.got) + Len(k.queue) = Len(events)

TaskStates ==
    [turn : 1..Turns,
     next : {"start", "decide", "end", "fail", "outcome", "status", "failed status",
             "failed outcome", "over"},
     over : BOOLEAN]

\* Nothing was sent on a socket that nobody has subscribed yet.
Unopened(k) ==
    k.at \in {"new", "opening"} => ~ k.listed /\ k.got = <<>> /\ k.queue = <<>>

StreamInv ==
    /\ task \in TaskStates
    /\ published \in Seq(Events)
    /\ sockets \in [Sockets -> SocketStates]
    /\ \A s \in Sockets : Sent(sockets[s], published) /\ Unopened(sockets[s])

-----------------------------------------------------------------------------
(* One socket *)

\* A queue has a length.
LEMMA Lengths ==
    ASSUME NEW q \in Seq(Events)
    PROVE  Len(q) \in Nat
OBVIOUS

\* A socket that was sent nothing.
LEMMA FreshSent ==
    ASSUME NEW k \in SocketStates, k.got = <<>>, k.queue = <<>>, k.from = 0, ~ k.listed,
           NEW events \in Seq(Events)
    PROVE  Sent(k, events)
<1>1. Len(k.got) = 0 /\ Len(k.queue) = 0 /\ Len(events) \in Nat
  OBVIOUS
<1> QED BY <1>1 DEF Sent

\* A socket nobody uses, in whatever state its connection is.
LEMMA NoSocketIsFresh ==
    ASSUME NEW w \in {"new", "opening", "closed"}
    PROVE  LET d == [NoSocket EXCEPT !.at = w] IN
             /\ d \in SocketStates /\ d.got = <<>> /\ d.queue = <<>> /\ d.from = 0
             /\ ~ d.listed
<1> DEFINE none == <<>>
           k == [at |-> "new", listed |-> FALSE, queue |-> none, from |-> 0, got |-> none]
           d == [k EXCEPT !.at = w]
<1>1. NoSocket = k
  BY DEF NoSocket
<1>2. none \in Seq(Events)
  OBVIOUS
<1> HIDE DEF none
<1>3. /\ d \in SocketStates /\ d.got = none /\ d.queue = none /\ d.from = 0
      /\ ~ d.listed
  BY <1>2 DEF SocketStates
<1> HIDE DEF d
<1> QED BY <1>1, <1>3 DEF none, d

\* What is published later does not touch what was sent before.
LEMMA SentLater ==
    ASSUME NEW k \in SocketStates, NEW events \in Seq(Events), Sent(k, events),
           ~ k.listed, NEW e \in Events
    PROVE  Sent(k, Append(events, e))
<1>1. /\ Len(Append(events, e)) = Len(events) + 1
      /\ \A i \in 1..Len(events) : Append(events, e)[i] = events[i]
  BY AppendProperties
<1>2. k.from \in Nat /\ k.got \in Seq(Events) /\ k.queue \in Seq(Events)
  BY DEF SocketStates
<1>3. Len(k.got) \in Nat /\ Len(k.queue) \in Nat /\ Len(events) \in Nat
  BY <1>2, Lengths
<1>4. k.from + Len(k.got) + Len(k.queue) <= Len(events)
  BY DEF Sent
<1>5. \A i \in 1..Len(k.got) : k.got[i] = Append(events, e)[k.from + i]
  <2> TAKE i \in 1..Len(k.got)
  <2>1. k.from + i \in 1..Len(events)
    BY <1>2, <1>3, <1>4
  <2> QED BY <1>1, <2>1 DEF Sent
<1>6. \A i \in 1..Len(k.queue) :
         k.queue[i] = Append(events, e)[k.from + Len(k.got) + i]
  <2> TAKE i \in 1..Len(k.queue)
  <2>1. k.from + Len(k.got) + i \in 1..Len(events)
    BY <1>2, <1>3, <1>4
  <2> QED BY <1>1, <2>1 DEF Sent
<1>7. k.from + Len(k.got) + Len(k.queue) <= Len(Append(events, e))
  BY <1>1, <1>2, <1>3, <1>4
<1> QED BY <1>5, <1>6, <1>7 DEF Sent

\* A subscriber that has room gets the event; the others are dropped.
LEMMA OfferedSent ==
    ASSUME NEW k \in SocketStates, NEW events \in Seq(Events), Sent(k, events),
           Unopened(k), NEW e \in Events
    PROVE  /\ Offered(k, e) \in SocketStates
           /\ Sent(Offered(k, e), Append(events, e))
           /\ Unopened(Offered(k, e))
<1>1. CASE ~ (k.listed /\ Len(k.queue) < QueueSize)
  <2> DEFINE d == [k EXCEPT !.listed = FALSE]
  <2>1. Offered(k, e) = d
    BY <1>1 DEF Offered
  <2>2. /\ d \in SocketStates /\ ~ d.listed /\ d.at = k.at
        /\ d.from = k.from /\ d.got = k.got /\ d.queue = k.queue
    BY DEF SocketStates
  <2>3. Sent(d, events)
    BY <2>2 DEF Sent
  <2>4. Unopened(d)
    BY <2>2 DEF Unopened
  <2> QED BY <2>1, <2>2, <2>3, <2>4, SentLater
<1>2. CASE k.listed /\ Len(k.queue) < QueueSize
  <2> DEFINE d == [k EXCEPT !.queue = Append(@, e)]
             more == Append(events, e)
             longer == Append(k.queue, e)
             f == k.from
             g == Len(k.got)
             q == Len(k.queue)
             m == Len(events)
  <2>0. k.queue \in Seq(Events) /\ k.got \in Seq(Events)
    BY DEF SocketStates
  <2>1. Offered(k, e) = d
    BY <1>2 DEF Offered
  <2>2. /\ longer \in Seq(Events) /\ Len(longer) = q + 1
        /\ \A i \in 1..q : longer[i] = k.queue[i]
        /\ longer[q + 1] = e
    BY <2>0, AppendProperties
  <2>3. /\ d \in SocketStates /\ d.from = f /\ d.got = k.got
        /\ d.queue = longer /\ d.at = k.at
    BY <2>2 DEF SocketStates
  <2>4. /\ Len(more) = m + 1
        /\ \A i \in 1..m : more[i] = events[i]
        /\ more[m + 1] = e
    BY AppendProperties
  <2>5. f \in Nat /\ g \in Nat /\ q \in Nat /\ m \in Nat
    BY <2>0, Lengths DEF SocketStates
  <2>6. /\ f + g + q = m
        /\ \A i \in 1..g : k.got[i] = events[f + i]
        /\ \A i \in 1..q : k.queue[i] = events[f + g + i]
    BY <1>2 DEF Sent
  <2>7. Unopened(d)
    BY <1>2, <2>3 DEF Unopened
  <2>8. Len(d.got) = g
    BY <2>3
  <2> HIDE DEF d, more, longer, f, g, q, m
  <2>9. ASSUME NEW i \in 1..g
        PROVE  k.got[i] = more[f + i]
    <3>1. f + i \in 1..m
      BY <2>5, <2>6
    <3> QED BY <2>4, <2>6, <3>1
  <2>10. ASSUME NEW i \in 1..(q + 1)
         PROVE  longer[i] = more[f + g + i]
    <3>1. CASE i = q + 1
      <4>1. f + g + i = m + 1
        BY <2>5, <2>6, <3>1
      <4> QED BY <2>2, <2>4, <3>1, <4>1
    <3>2. CASE i # q + 1
      <4>1. i \in 1..q /\ f + g + i \in 1..m
        BY <2>5, <2>6, <3>2
      <4> QED BY <2>2, <2>4, <2>6, <4>1
    <3> QED BY <3>1, <3>2
  <2>11. f + g + (q + 1) = m + 1 /\ f + g + (q + 1) <= m + 1
    BY <2>5, <2>6
  <2>12. Sent(d, more)
    BY <2>2, <2>3, <2>4, <2>8, <2>9, <2>10, <2>11 DEF Sent
  <2> QED BY <2>1, <2>3, <2>7, <2>12 DEF more
<1> QED BY <1>1, <1>2

\* Sending moves the head of the queue to what was sent.
LEMMA DeliveredSent ==
    ASSUME NEW k \in SocketStates, NEW events \in Seq(Events), Sent(k, events),
           k.queue # <<>>, NEW d,
           d = [k EXCEPT !.queue = Tail(@), !.got = Append(@, Head(k.queue))]
    PROVE  d \in SocketStates /\ Sent(d, events)
<1>0. k.queue \in Seq(Events) /\ k.got \in Seq(Events)
  BY DEF SocketStates
<1>f. k.from \in Nat
  BY DEF SocketStates
<1>1. /\ Head(k.queue) \in Events /\ Tail(k.queue) \in Seq(Events)
      /\ Len(Tail(k.queue)) = Len(k.queue) - 1
      /\ \A i \in 1..Len(Tail(k.queue)) : Tail(k.queue)[i] = k.queue[i + 1]
  BY <1>0, HeadTailProperties
<1>2. Head(k.queue) = k.queue[1] /\ Len(k.queue) >= 1
  BY <1>0
<1>3. /\ Append(k.got, Head(k.queue)) \in Seq(Events)
      /\ Len(Append(k.got, Head(k.queue))) = Len(k.got) + 1
      /\ \A i \in 1..Len(k.got) : Append(k.got, Head(k.queue))[i] = k.got[i]
      /\ Append(k.got, Head(k.queue))[Len(k.got) + 1] = Head(k.queue)
  BY <1>0, <1>1, AppendProperties
<1>4. /\ d \in SocketStates /\ d.from = k.from /\ d.listed = k.listed
      /\ d.queue = Tail(k.queue) /\ d.got = Append(k.got, Head(k.queue))
  BY <1>1, <1>3 DEF SocketStates
<1>5. Len(k.got) \in Nat /\ Len(k.queue) \in Nat /\ Len(events) \in Nat
  BY <1>0, Lengths
<1>6. d.from + Len(d.got) + Len(d.queue) = k.from + Len(k.got) + Len(k.queue)
  <2> DEFINE f == k.from
             g == Len(k.got)
             q == Len(k.queue)
  <2>1. d.from = f /\ Len(d.got) = g + 1 /\ Len(d.queue) = q - 1
    BY <1>1, <1>3, <1>4
  <2>2. f \in Nat /\ g \in Nat /\ q \in Nat
    BY <1>f, <1>5
  <2> HIDE DEF f, g, q
  <2>3. f + (g + 1) + (q - 1) = f + g + q
    BY <2>2
  <2> QED BY <2>1, <2>3 DEF f, g, q
<1>7. \A i \in 1..Len(d.got) : d.got[i] = events[d.from + i]
  <2> SUFFICES ASSUME NEW i \in 1..(Len(k.got) + 1)
               PROVE  Append(k.got, Head(k.queue))[i] = events[k.from + i]
    BY <1>3, <1>4
  <2>1. CASE i = Len(k.got) + 1
    <3>1. k.queue[1] = events[k.from + Len(k.got) + 1]
      BY <1>2, <1>5 DEF Sent
    <3>2. k.from + Len(k.got) + 1 = k.from + i
      BY <1>f, <1>5, <2>1
    <3> QED BY <1>2, <1>3, <2>1, <3>1, <3>2
  <2>2. CASE i # Len(k.got) + 1
    <3>1. i \in 1..Len(k.got)
      BY <1>5, <2>2
    <3> QED BY <1>3, <3>1 DEF Sent
  <2> QED BY <2>1, <2>2
<1>8. \A i \in 1..Len(d.queue) : d.queue[i] = events[d.from + Len(d.got) + i]
  <2> SUFFICES ASSUME NEW i \in 1..(Len(k.queue) - 1)
               PROVE  Tail(k.queue)[i] = events[k.from + (Len(k.got) + 1) + i]
    BY <1>1, <1>3, <1>4
  <2>1. i + 1 \in 1..Len(k.queue)
    BY <1>5
  <2>2. k.queue[i + 1] = events[k.from + Len(k.got) + (i + 1)]
    BY <2>1 DEF Sent
  <2>3. k.from + Len(k.got) + (i + 1) = k.from + (Len(k.got) + 1) + i
    <3>1. \A f, g, n \in Nat : f + g + (n + 1) = f + (g + 1) + n
      OBVIOUS
    <3>2. i \in Nat
      BY <1>5
    <3> QED BY <1>f, <1>5, <3>1, <3>2
  <2> QED BY <1>1, <2>2, <2>3
<1> QED BY <1>4, <1>6, <1>7, <1>8 DEF Sent

\* Sent, said with sequences.
LEMMA SentIsSubSeq ==
    ASSUME NEW k \in SocketStates, NEW events \in Seq(Events), Sent(k, events)
    PROVE  /\ k.got \o k.queue =
                  SubSeq(events, k.from + 1, k.from + Len(k.got \o k.queue))
           /\ k.listed => k.from + Len(k.got \o k.queue) = Len(events)
<1> DEFINE f == k.from
           g == Len(k.got)
           q == Len(k.queue)
           m == Len(events)
           due == k.got \o k.queue
           part == SubSeq(events, f + 1, f + (g + q))
<1>0. k.queue \in Seq(Events) /\ k.got \in Seq(Events)
  BY DEF SocketStates
<1>1. f \in Nat /\ g \in Nat /\ q \in Nat /\ m \in Nat
  BY <1>0, Lengths DEF SocketStates
<1>2. /\ due \in Seq(Events) /\ Len(due) = g + q
      /\ \A i \in 1..(g + q) : due[i] = IF i <= g THEN k.got[i] ELSE k.queue[i - g]
  BY <1>0, ConcatProperties
<1>3. /\ f + g + q <= m
      /\ \A i \in 1..g : k.got[i] = events[f + i]
      /\ \A i \in 1..q : k.queue[i] = events[f + g + i]
      /\ k.listed => f + g + q = m
  BY DEF Sent
<1>4. \A i \in 1..m : events[i] \in Events
  OBVIOUS
<1>p. \A a, b \in Int : (\A i \in a..b : events[i] \in Events) =>
         /\ SubSeq(events, a, b) \in Seq(Events)
         /\ Len(SubSeq(events, a, b)) = IF a <= b THEN b - a + 1 ELSE 0
         /\ \A i \in 1..(b - a + 1) : SubSeq(events, a, b)[i] = events[a + i - 1]
  BY SubSeqProperties
<1> HIDE DEF f, g, q, m
<1>5. ASSUME NEW i \in 1..(g + q)
      PROVE  due[i] = events[f + i]
  <2> HIDE DEF due
  <2>1. CASE i <= g
    <3>1. i \in 1..g
      BY <1>1, <2>1
    <3> QED BY <1>2, <1>3, <2>1, <3>1
  <2>2. CASE ~ (i <= g)
    <3>1. i - g \in 1..q /\ f + g + (i - g) = f + i
      BY <1>1, <2>2
    <3>2. k.queue[i - g] = events[f + g + (i - g)]
      BY <1>3, <3>1
    <3> QED BY <1>2, <2>2, <3>1, <3>2
  <2> QED BY <2>1, <2>2
<1>6. part \in Seq(Events) /\ Len(part) = g + q
      /\ \A i \in 1..(g + q) : part[i] = events[f + i]
  <2>1. f + 1 \in Int /\ f + (g + q) \in Int /\ (f + (g + q)) - (f + 1) + 1 = g + q
        /\ (f + 1 <= f + (g + q) \/ g + q = 0)
    BY <1>1
  <2>2. \A i \in (f + 1)..(f + (g + q)) : events[i] \in Events
    <3> TAKE i \in (f + 1)..(f + (g + q))
    <3>1. f + g + q <= m
      BY <1>3
    <3>2. i \in 1..m
      BY <1>1, <3>1
    <3> QED BY <1>4, <3>2
  <2>3. /\ part \in Seq(Events)
        /\ Len(part) = IF f + 1 <= f + (g + q)
                       THEN (f + (g + q)) - (f + 1) + 1 ELSE 0
        /\ \A i \in 1..((f + (g + q)) - (f + 1) + 1) : part[i] = events[(f + 1) + i - 1]
    BY <1>p, <2>1, <2>2
  <2> HIDE DEF part
  <2>4. \A i \in 1..(g + q) : (f + 1) + i - 1 = f + i
    BY <1>1
  <2>5. Len(part) = g + q
    BY <1>1, <2>1, <2>3
  <2>6. \A i \in 1..(g + q) : part[i] = events[f + i]
    BY <2>1, <2>3, <2>4
  <2> QED BY <2>3, <2>5, <2>6
<1>7. due = part
  <2> HIDE DEF due, part
  <2>1. Len(due) = Len(part) /\ \A i \in 1..Len(due) : due[i] = part[i]
    BY <1>2, <1>5, <1>6
  <2> QED BY <1>2, <1>6, <2>1, SeqEqual
<1>8. f + g + q = f + (g + q)
  BY <1>1
<1> QED BY <1>2, <1>3, <1>7, <1>8 DEF f, m

-----------------------------------------------------------------------------
(* The steps *)

\* A step that publishes.
LEMMA PublishKeeps ==
    ASSUME StreamInv, NEW e \in Events, Publish(e)
    PROVE  /\ published' \in Seq(Events)
           /\ sockets' \in [Sockets -> SocketStates]
           /\ \A s \in Sockets : Sent(sockets'[s], published') /\ Unopened(sockets'[s])
<1>1. published' = Append(published, e)
      /\ sockets' = [s \in Sockets |-> Offered(sockets[s], e)]
  BY DEF Publish
<1>2. published' \in Seq(Events)
  BY <1>1, AppendProperties DEF StreamInv
<1>3. ASSUME NEW s \in Sockets
      PROVE  Offered(sockets[s], e) \in SocketStates
             /\ Sent(Offered(sockets[s], e), Append(published, e))
             /\ Unopened(Offered(sockets[s], e))
  BY OfferedSent DEF StreamInv
<1> QED BY <1>1, <1>2, <1>3

\* A step that changes one socket.
LEMMA SocketKeeps ==
    ASSUME StreamInv, NEW s \in Sockets, NEW k \in SocketStates,
           sockets' = [sockets EXCEPT ![s] = k], Sent(k, published), Unopened(k),
           UNCHANGED <<task, published>>
    PROVE  StreamInv'
<1>1. /\ sockets' \in [Sockets -> SocketStates] /\ sockets'[s] = k
      /\ \A r \in Sockets : r # s => sockets'[r] = sockets[r]
  BY DEF StreamInv
<1> QED BY <1>1 DEF StreamInv

\* The events of a turn.
LEMMA TurnEvents ==
    ASSUME NEW n \in 1..Turns
    PROVE  /\ Started(n) \in Events /\ Ended(n) \in Events
           /\ [Ended(n) EXCEPT !.cost = FALSE] \in Events
<1>1. Turns \in Nat
  BY TraceAssumption
<1>2. LiveSpan(n) \in 0..(2 * Turns + 1) /\ n \in 0..Turns
  BY <1>1 DEF LiveSpan
<1> QED BY <1>2 DEF Started, Ended, Events

\* A step of the task keeps the stream.
LEMMA TaskKeeps ==
    ASSUME StreamInv, StartNode \/ Decide \/ EndNode \/ FailNode \/ Finish
    PROVE  StreamInv'
<1>1. task \in TaskStates /\ task.turn \in 1..Turns
  BY DEF StreamInv, TaskStates
<1>2. ASSUME NEW w \in {"start", "decide", "end", "fail", "outcome", "status",
                        "failed status", "failed outcome", "over"}, Go(w)
      PROVE  task' \in TaskStates
  BY <1>1, <1>2 DEF Go, TaskStates
<1>3. task' \in TaskStates
  <2>1. CASE StartNode \/ Decide
    <3>1. Go("decide") \/ Go("fail") \/ Go("end")
      BY <2>1 DEF StartNode, Decide
    <3> QED BY <1>2, <3>1
  <2>2. CASE EndNode \/ FailNode
    <3>1. CASE NextTurn
      <4>1. task.turn + 1 \in 1..Turns
        BY <1>1, <3>1, TraceAssumption DEF NextTurn
      <4>2. task' = [task EXCEPT !.turn = task.turn + 1, !.next = "start"]
        BY <3>1 DEF NextTurn
      <4> QED BY <1>1, <4>1, <4>2 DEF TaskStates
    <3>2. CASE Go("outcome") \/ Go("failed status")
      BY <1>2, <3>2
    <3> QED BY <2>2, <3>1, <3>2 DEF EndNode, FailNode
  <2>3. CASE Finish
    <3>1. \/ Go("status") \/ Go("over")
          \/ task' = [task EXCEPT !.next = "over", !.over = TRUE]
          \/ task' = [task EXCEPT !.next = "failed outcome", !.over = TRUE]
      BY <2>3 DEF Finish
    <3>2. CASE Go("status") \/ Go("over")
      BY <1>2, <3>2
    <3>3. CASE task' = [task EXCEPT !.next = "over", !.over = TRUE]
      BY <1>1, <3>3 DEF TaskStates
    <3>4. CASE task' = [task EXCEPT !.next = "failed outcome", !.over = TRUE]
      BY <1>1, <3>4 DEF TaskStates
    <3> QED BY <3>1, <3>2, <3>3, <3>4
  <2> QED BY <2>1, <2>2, <2>3
<1>4. (\E e \in Events : Publish(e)) \/ UNCHANGED <<sockets, published>>
  BY <1>1, TurnEvents DEF StartNode, Decide, EndNode, FailNode, Finish
<1>5. CASE \E e \in Events : Publish(e)
  BY <1>3, <1>5, PublishKeeps DEF StreamInv
<1>6. CASE UNCHANGED <<sockets, published>>
  BY <1>3, <1>6 DEF StreamInv
<1> QED BY <1>4, <1>5, <1>6

\* A step of a socket keeps the stream.
LEMMA SocketStepKeeps ==
    ASSUME StreamInv, NEW s \in Sockets,
           Subscribe(s) \/ Deliver(s) \/ Cut(s) \/ Unsubscribe(s) \/ Reconnect(s)
    PROVE  StreamInv'
<1> DEFINE k == sockets[s]
<1>0. /\ k \in SocketStates /\ Sent(k, published) /\ Unopened(k)
      /\ published \in Seq(Events)
      /\ UNCHANGED <<task, published>>
  BY DEF StreamInv, Subscribe, Deliver, Cut, Unsubscribe, Reconnect
<1>1. CASE Subscribe(s)
  <2> DEFINE d == [k EXCEPT !.at = "open", !.listed = TRUE, !.from = Len(published)]
  <2>1. sockets' = [sockets EXCEPT ![s] = d] /\ k.got = <<>> /\ k.queue = <<>>
    BY <1>0, <1>1 DEF Subscribe, Unopened
  <2>2. Len(published) \in Nat
    BY <1>0, Lengths
  <2>3. /\ d \in SocketStates /\ d.at = "open" /\ d.from = Len(published)
        /\ d.got = <<>> /\ d.queue = <<>>
    BY <1>0, <2>1, <2>2 DEF SocketStates
  <2>4. Len(d.got) = 0 /\ Len(d.queue) = 0
    BY <2>3
  <2> HIDE DEF d
  <2>5. Sent(d, published)
    BY <2>2, <2>3, <2>4 DEF Sent
  <2>6. Unopened(d)
    BY <2>3 DEF Unopened
  <2> QED BY <1>0, <2>1, <2>3, <2>5, <2>6, SocketKeeps
<1>2. CASE Deliver(s)
  <2> DEFINE d == [k EXCEPT !.queue = Tail(@), !.got = Append(@, Head(k.queue))]
  <2>1. sockets' = [sockets EXCEPT ![s] = d] /\ k.queue # <<>> /\ k.at = "open"
    BY <1>2 DEF Deliver
  <2>2. d \in SocketStates /\ Sent(d, published)
    BY <1>0, <2>1, DeliveredSent
  <2>3. Unopened(d)
    BY <1>0, <2>1 DEF Unopened, SocketStates
  <2> QED BY <1>0, <2>1, <2>2, <2>3, SocketKeeps
\* Steps that change nothing but the state of the connection.
<1>a. ASSUME NEW w \in {"opening", "cut", "closed"},
             sockets' = [sockets EXCEPT ![s] = [k EXCEPT !.at = w]],
             w = "opening" => k.at = "new"
      PROVE  StreamInv'
  <2> DEFINE d == [k EXCEPT !.at = w]
  <2>1. /\ d \in SocketStates /\ d.at = w /\ d.from = k.from /\ d.got = k.got
        /\ d.queue = k.queue /\ d.listed = k.listed
    BY <1>0 DEF SocketStates
  <2> HIDE DEF d
  <2>2. Sent(d, published) /\ Unopened(d)
    BY <1>0, <1>a, <2>1 DEF Sent, Unopened
  <2> QED BY <1>0, <1>a, <2>1, <2>2, SocketKeeps DEF d
<1>3. CASE Cut(s)
  <2>1. \E w \in {"cut", "closed"} : sockets' = [sockets EXCEPT ![s] = [k EXCEPT !.at = w]]
    BY <1>3 DEF Cut
  <2> QED BY <1>a, <2>1
<1>4. CASE Unsubscribe(s)
  <2> DEFINE d == [NoSocket EXCEPT !.at = "closed"]
  <2>1. sockets' = [sockets EXCEPT ![s] = d]
    BY <1>4 DEF Unsubscribe
  <2>2. /\ d \in SocketStates /\ d.got = <<>> /\ d.queue = <<>> /\ d.from = 0
        /\ ~ d.listed
    BY NoSocketIsFresh
  <2>3. Sent(d, published) /\ Unopened(d)
    BY <1>0, <2>2, FreshSent DEF Unopened
  <2> QED BY <1>0, <2>1, <2>2, <2>3, SocketKeeps
<1>5. CASE Reconnect(s)
  <2>1. k.at = "new"
        /\ \E w \in {"opening", "closed"} :
              sockets' = [sockets EXCEPT ![s] = [k EXCEPT !.at = w]]
    BY <1>5 DEF Reconnect
  <2> QED BY <1>a, <2>1
<1> QED BY <1>1, <1>2, <1>3, <1>4, <1>5

\* The two facts of the invariant.
LEMMA StreamInvInit == Init => StreamInv
<1> SUFFICES ASSUME Init
             PROVE  StreamInv
  OBVIOUS
<1>1. published = <<>> /\ published \in Seq(Events) /\ task \in TaskStates
  BY TraceAssumption DEF Init, TaskStates
<1>2. ASSUME NEW s \in Sockets
      PROVE  /\ sockets[s] \in SocketStates
             /\ sockets[s].got = <<>> /\ sockets[s].queue = <<>>
             /\ sockets[s].from = 0 /\ ~ sockets[s].listed
  <2> DEFINE new == [NoSocket EXCEPT !.at = "new"]
             opening == [NoSocket EXCEPT !.at = "opening"]
  <2>1. NoSocket = new
    BY DEF NoSocket
  <2>2. sockets[s] = opening \/ sockets[s] = NoSocket
    BY DEF Init
  <2>3. CASE sockets[s] = opening
    BY <2>3, NoSocketIsFresh
  <2>4. CASE sockets[s] = new
    BY <2>4, NoSocketIsFresh
  <2> HIDE DEF new, opening
  <2> QED BY <2>1, <2>2, <2>3, <2>4
<1>3. sockets \in [Sockets -> SocketStates]
  BY <1>2 DEF Init
<1> QED BY <1>1, <1>2, <1>3, FreshSent DEF StreamInv, Unopened

\* Every step keeps it.
LEMMA StreamInvStep == StreamInv /\ [Next]_vars => StreamInv'
<1> SUFFICES ASSUME StreamInv, [Next]_vars
             PROVE  StreamInv'
  OBVIOUS
<1>1. CASE UNCHANGED vars
  BY <1>1 DEF vars, StreamInv
<1>2. ASSUME NEW s \in Sockets, ReadTask(s) \/ Backfill(s) \/ FetchFails(s)
      PROVE  StreamInv'
  BY <1>2 DEF ReadTask, Backfill, FetchFails, StreamInv
<1> QED BY <1>1, <1>2, TaskKeeps, SocketStepKeeps DEF Next

\* A socket is sent what is published after it subscribed, in order and without a
\* gap, and nothing more once its queue was full: for any number of turns and of
\* reconnections, any bound on the queue, however slow the page and wherever
\* connections are cut.
THEOREM StreamsHaveNoGap == Spec => []NoGapInStream
<1>1. StreamInv => NoGapInStream
  <2> SUFFICES ASSUME StreamInv, NEW s \in Sockets
               PROVE  LET due == sockets[s].got \o sockets[s].queue IN
                        /\ due = SubSeq(published, sockets[s].from + 1,
                                        sockets[s].from + Len(due))
                        /\ sockets[s].listed => sockets[s].from + Len(due) = Len(published)
    BY DEF NoGapInStream
  <2> QED BY SentIsSubSeq DEF StreamInv
<1> QED BY <1>1, StreamInvInit, StreamInvStep, PTL DEF Spec

-----------------------------------------------------------------------------
(* Filtering a sequence                                                    *)

\* The place of i among the positions I, counted from 1.
Rank(I, i) == Cardinality(I \cap 1..i)

\* Ranks number the positions from 1 without a gap, in order.
LEMMA RanksNumber ==
    ASSUME NEW m \in Nat, NEW I \in SUBSET (1..m)
    PROVE  /\ Cardinality(I) \in Nat
           /\ \A i \in I : Rank(I, i) \in 1..Cardinality(I)
           /\ \A i, j \in I : Rank(I, i) = Rank(I, j) => i = j
           /\ \A n \in 1..Cardinality(I) : \E i \in I : Rank(I, i) = n
<1>1. IsFiniteSet(I) /\ Cardinality(I) \in Nat
  <2>1. IsFiniteSet(1..m)
    BY FS_Interval
  <2> QED BY <2>1, FS_Subset, FS_CardinalityType
<1>2. ASSUME NEW i \in I
      PROVE  /\ IsFiniteSet(I \cap 1..i)
             /\ Rank(I, i) \in Nat /\ Rank(I, i) <= Cardinality(I)
  <2>1. I \cap 1..i \in SUBSET I
    OBVIOUS
  <2> QED BY <1>1, <2>1, FS_Subset, FS_CardinalityType DEF Rank
<1>3. ASSUME NEW i \in I
      PROVE  Rank(I, i) \in 1..Cardinality(I)
  <2>1. i \in I \cap 1..i
    OBVIOUS
  <2>2. I \cap 1..i # {}
    BY <2>1
  <2>3. Cardinality(I \cap 1..i) # 0
    BY <1>2, <2>2, FS_EmptySet
  <2>4. Rank(I, i) # 0
    BY <2>3 DEF Rank
  <2>5. Rank(I, i) \in Nat /\ Rank(I, i) <= Cardinality(I)
    BY <1>2
  <2> QED BY <1>1, <2>4, <2>5
<1>4. ASSUME NEW i \in I, NEW j \in I, i < j
      PROVE  Rank(I, i) # Rank(I, j)
  <2>1. i \in 1..m /\ j \in 1..m
    OBVIOUS
  <2>2. /\ I \cap 1..i \in SUBSET (I \cap 1..j)
        /\ j \in I \cap 1..j /\ j \notin I \cap 1..i
    BY <1>4, <2>1
  <2> QED BY <1>2, <2>2, FS_Subset DEF Rank
<1>5. ASSUME NEW i \in I, NEW j \in I, Rank(I, i) = Rank(I, j)
      PROVE  i = j
  <2>1. i < j \/ j < i \/ i = j
    OBVIOUS
  <2> QED BY <1>4, <1>5, <2>1
<1>6. \A n \in 1..Cardinality(I) : \E i \in I : Rank(I, i) = n
  <2> DEFINE f == [i \in I |-> Rank(I, i)]
             N == 1..Cardinality(I)
  <2>1. f \in [I -> N]
    BY <1>3
  <2>2. IsInjective(f)
    BY <1>5 DEF IsInjective
  <2>3. f \in Injection(I, N)
    BY <2>1, <2>2 DEF Injection
  <2>4. IsFiniteSet(N) /\ Cardinality(N) = Cardinality(I)
    <3>1. Cardinality(N) = IF 1 > Cardinality(I) THEN 0 ELSE Cardinality(I) - 1 + 1
      BY <1>1, FS_Interval
    <3>2. IsFiniteSet(N)
      BY <1>1, FS_Interval
    <3> QED BY <1>1, <3>1, <3>2
  <2>5. f \in Surjection(I, N)
    <3> HIDE DEF f, N
    <3> QED BY <2>3, <2>4, FS_Injection
  <2> QED BY <2>5 DEF Surjection
<1> QED BY <1>1, <1>3, <1>5, <1>6

\* A filtered sequence has the elements at the positions kept, each from a
\* position of its own.
LEMMA PickedElements ==
    ASSUME NEW T, NEW s \in Seq(T), NEW I \in SUBSET (1..Len(s))
    PROVE  /\ Picked(s, I) \in Seq(T)
           /\ ToSet(Picked(s, I)) = {s[i] : i \in I}
           /\ \E from \in [DOMAIN Picked(s, I) -> I] :
                /\ \A n \in DOMAIN Picked(s, I) : Picked(s, I)[n] = s[from[n]]
                /\ \A n, k \in DOMAIN Picked(s, I) : from[n] = from[k] => n = k
<1> DEFINE c == Cardinality(I)
           from == [n \in 1..c |-> CHOOSE i \in I : Rank(I, i) = n]
           p == [n \in 1..c |-> s[from[n]]]
<1>0. Len(s) \in Nat /\ \A i \in 1..Len(s) : s[i] \in T
  OBVIOUS
<1>1. /\ c \in Nat
      /\ \A i \in I : Rank(I, i) \in 1..c
      /\ \A i, j \in I : Rank(I, i) = Rank(I, j) => i = j
      /\ \A n \in 1..c : \E i \in I : Rank(I, i) = n
  <2> HIDE DEF c
  <2> QED BY <1>0, RanksNumber DEF c
<1>2. Picked(s, I) = p
  BY DEF Picked, Rank
<1> HIDE DEF c
<1>3. ASSUME NEW n \in 1..c
      PROVE  from[n] \in I /\ Rank(I, from[n]) = n
  BY <1>1
<1>4. from \in [1..c -> I] /\ \A n, k \in 1..c : from[n] = from[k] => n = k
  <2>1. from \in [1..c -> I]
    BY <1>3
  <2> HIDE DEF from
  <2> QED BY <1>3, <2>1
<1>5. \A i \in I : \E n \in 1..c : from[n] = i
  <2> TAKE i \in I
  <2>1. Rank(I, i) \in 1..c
    BY <1>1
  <2>2. from[Rank(I, i)] \in I /\ Rank(I, from[Rank(I, i)]) = Rank(I, i)
    BY <1>3, <2>1
  <2> HIDE DEF from
  <2> QED BY <1>1, <2>1, <2>2
<1> HIDE DEF from
<1>6. /\ DOMAIN p = 1..c
      /\ \A n \in 1..c : p[n] = s[from[n]] /\ p[n] \in T
  BY <1>0, <1>4
<1>7. p \in Seq(T)
  <2>1. p \in [1..c -> T]
    BY <1>6
  <2> HIDE DEF p
  <2> QED BY <1>1, <2>1
<1>8. ToSet(p) = {s[i] : i \in I}
  <2> HIDE DEF p
  <2>1. ASSUME NEW x \in ToSet(p)
        PROVE  x \in {s[i] : i \in I}
    <3>1. PICK n \in DOMAIN p : x = p[n]
      BY <2>1 DEF ToSet
    <3>2. n \in 1..c /\ p[n] = s[from[n]]
      BY <1>6
    <3>3. from[n] \in I
      BY <1>4, <3>2
    <3> QED BY <3>1, <3>2, <3>3
  <2>2. ASSUME NEW i \in I
        PROVE  s[i] \in ToSet(p)
    <3>1. PICK n \in 1..c : from[n] = i
      BY <1>5
    <3>2. n \in DOMAIN p /\ p[n] = s[i]
      BY <1>6, <3>1
    <3> QED BY <3>2 DEF ToSet
  <2> QED BY <2>1, <2>2
<1> HIDE DEF p
<1>9. \E f \in [DOMAIN p -> I] :
         /\ \A n \in DOMAIN p : p[n] = s[f[n]]
         /\ \A n, k \in DOMAIN p : f[n] = f[k] => n = k
  <2>1. from \in [DOMAIN p -> I]
    BY <1>4, <1>6
  <2>2. /\ \A n \in DOMAIN p : p[n] = s[from[n]]
        /\ \A n, k \in DOMAIN p : from[n] = from[k] => n = k
    BY <1>4, <1>6
  <2> QED BY <2>1, <2>2
<1> QED BY <1>2, <1>7, <1>8, <1>9

-----------------------------------------------------------------------------
(* What is shown once                                                      *)

\* No two elements of s have the same id, or they have none and differ.
OnlyOnce(s) ==
    \A i, j \in DOMAIN s :
        i # j /\ s[i].span = s[j].span => s[i].span = 0 /\ s[i] # s[j]

\* Filtering keeps it.
LEMMA PickedOnce ==
    ASSUME NEW s \in Seq(Events), OnlyOnce(s), NEW I \in SUBSET (1..Len(s))
    PROVE  OnlyOnce(Picked(s, I))
<1> DEFINE p == Picked(s, I)
<1>1. PICK from \in [DOMAIN p -> I] :
         /\ \A n \in DOMAIN p : p[n] = s[from[n]]
         /\ \A n, k \in DOMAIN p : from[n] = from[k] => n = k
  BY PickedElements
<1> HIDE DEF p
<1>2. ASSUME NEW i \in DOMAIN p, NEW j \in DOMAIN p, i # j, p[i].span = p[j].span
      PROVE  p[i].span = 0 /\ p[i] # p[j]
  <2>0. DOMAIN s = 1..Len(s)
    OBVIOUS
  <2>1. from[i] \in DOMAIN s /\ from[j] \in DOMAIN s /\ from[i] # from[j]
    BY <1>1, <1>2, <2>0
  <2>2. p[i] = s[from[i]] /\ p[j] = s[from[j]]
    BY <1>1
  <2> QED BY <1>2, <2>1, <2>2 DEF OnlyOnce
<1>3. OnlyOnce(p)
  BY <1>2 DEF OnlyOnce
<1> QED BY <1>3 DEF p

\* What is in a sequence to which an element, or a sequence, is appended.
LEMMA AppendElements ==
    ASSUME NEW T, NEW s \in Seq(T), NEW e \in T
    PROVE  /\ Append(s, e) \in Seq(T)
           /\ ToSet(Append(s, e)) = ToSet(s) \cup {e}
<1> DEFINE a == Append(s, e)
<1>1. /\ a \in Seq(T) /\ Len(a) = Len(s) + 1 /\ Len(s) \in Nat
      /\ \A i \in 1..Len(s) : a[i] = s[i]
      /\ a[Len(s) + 1] = e
  BY AppendProperties
<1>2. DOMAIN s = 1..Len(s) /\ DOMAIN a = 1..(Len(s) + 1)
  <2>1. DOMAIN s = 1..Len(s)
    OBVIOUS
  <2>2. DOMAIN a = 1..Len(a)
    <3> HIDE DEF a
    <3> QED BY <1>1
  <2> QED BY <1>1, <2>1, <2>2
<1> HIDE DEF a
<1>3. ASSUME NEW i \in 1..(Len(s) + 1)
      PROVE  a[i] \in ToSet(s) \cup {e}
  <2>1. CASE i = Len(s) + 1
    BY <1>1, <2>1
  <2>2. CASE i # Len(s) + 1
    <3>1. i \in 1..Len(s)
      BY <1>1, <2>2
    <3>2. a[i] = s[i]
      BY <1>1, <3>1
    <3>3. s[i] \in ToSet(s)
      BY <1>2, <3>1 DEF ToSet
    <3> QED BY <3>2, <3>3
  <2> QED BY <2>1, <2>2
<1>4. Len(s) + 1 \in 1..(Len(s) + 1) /\ \A i \in 1..Len(s) : i \in 1..(Len(s) + 1)
  BY <1>1
<1>5. ToSet(s) \cup {e} \subseteq ToSet(a)
  BY <1>1, <1>2, <1>4 DEF ToSet
<1>6. ToSet(a) \subseteq ToSet(s) \cup {e}
  BY <1>2, <1>3 DEF ToSet
<1> QED BY <1>1, <1>5, <1>6 DEF a

\* What is in two sequences put together.
LEMMA ConcatElements ==
    ASSUME NEW T, NEW s \in Seq(T), NEW t \in Seq(T)
    PROVE  /\ s \o t \in Seq(T)
           /\ ToSet(s \o t) = ToSet(s) \cup ToSet(t)
<1> DEFINE c == s \o t
           m == Len(s)
           n == Len(t)
<1>1. /\ c \in Seq(T) /\ DOMAIN c = 1..(m + n)
      /\ \A i \in 1..(m + n) : c[i] = IF i <= m THEN s[i] ELSE t[i - m]
  BY ConcatProperties
<1>2. m \in Nat /\ n \in Nat /\ DOMAIN s = 1..m /\ DOMAIN t = 1..n
  OBVIOUS
<1> HIDE DEF c, m, n
<1>3. ASSUME NEW i \in 1..(m + n)
      PROVE  c[i] \in ToSet(s) \cup ToSet(t)
  <2>1. CASE i <= m
    <3>1. i \in 1..m
      BY <1>2, <2>1
    <3> QED BY <1>1, <1>2, <2>1, <3>1 DEF ToSet
  <2>2. CASE ~ (i <= m)
    <3>1. i - m \in 1..n
      BY <1>2, <2>2
    <3> QED BY <1>1, <1>2, <2>2, <3>1 DEF ToSet
  <2> QED BY <2>1, <2>2
<1>4. ASSUME NEW i \in 1..m
      PROVE  s[i] \in ToSet(c)
  <2>1. i \in 1..(m + n) /\ i <= m
    BY <1>2
  <2> QED BY <1>1, <2>1 DEF ToSet
<1>5. ASSUME NEW i \in 1..n
      PROVE  t[i] \in ToSet(c)
  <2>1. m + i \in 1..(m + n) /\ ~ (m + i <= m) /\ (m + i) - m = i
    BY <1>2
  <2>2. c[m + i] = t[i]
    BY <1>1, <2>1
  <2> QED BY <1>1, <2>1, <2>2 DEF ToSet
<1>6. ToSet(c) = ToSet(s) \cup ToSet(t)
  <2>1. ToSet(c) \subseteq ToSet(s) \cup ToSet(t)
    BY <1>1, <1>3 DEF ToSet
  <2>2. ToSet(s) \subseteq ToSet(c)
    BY <1>2, <1>4 DEF ToSet
  <2>3. ToSet(t) \subseteq ToSet(c)
    BY <1>2, <1>5 DEF ToSet
  <2> QED BY <2>1, <2>2, <2>3
<1> QED BY <1>1, <1>6 DEF c

\* A new element that is unlike every other.
LEMMA AppendOnce ==
    ASSUME NEW s \in Seq(Events), NEW e \in Events, OnlyOnce(s),
           \A x \in ToSet(s) : x.span = e.span => e.span = 0 /\ x # e
    PROVE  OnlyOnce(Append(s, e))
<1> DEFINE a == Append(s, e)
<1>1. /\ Len(a) = Len(s) + 1 /\ Len(s) \in Nat
      /\ \A i \in 1..Len(s) : a[i] = s[i]
      /\ a[Len(s) + 1] = e
  BY AppendProperties
<1>2. DOMAIN s = 1..Len(s) /\ DOMAIN a = 1..(Len(s) + 1)
  <2>1. a \in Seq(Events)
    BY AppendProperties
  <2>2. DOMAIN a = 1..Len(a)
    <3> HIDE DEF a
    <3> QED BY <2>1
  <2>3. DOMAIN s = 1..Len(s)
    OBVIOUS
  <2> QED BY <1>1, <2>2, <2>3
<1> HIDE DEF a
<1>3. ASSUME NEW i \in 1..(Len(s) + 1)
      PROVE  \/ i \in 1..Len(s) /\ a[i] = s[i]
             \/ i = Len(s) + 1 /\ a[i] = e
  <2>1. i \in 1..Len(s) \/ i = Len(s) + 1
    BY <1>1
  <2>2. CASE i \in 1..Len(s)
    BY <1>1, <2>2
  <2>3. CASE i = Len(s) + 1
    BY <1>1, <2>3
  <2> QED BY <2>1, <2>2, <2>3
<1>4. ASSUME NEW i \in 1..Len(s)
      PROVE  s[i].span = e.span => e.span = 0 /\ s[i] # e
  BY <1>2 DEF ToSet
<1>5. ASSUME NEW i \in DOMAIN a, NEW j \in DOMAIN a, i # j, a[i].span = a[j].span
      PROVE  a[i].span = 0 /\ a[i] # a[j]
  <2>1. CASE i \in 1..Len(s) /\ j \in 1..Len(s)
    BY <1>1, <1>2, <1>5, <2>1 DEF OnlyOnce
  <2>2. CASE i = Len(s) + 1 /\ j \in 1..Len(s)
    BY <1>1, <1>4, <1>5, <2>2
  <2>3. CASE i \in 1..Len(s) /\ j = Len(s) + 1
    BY <1>1, <1>4, <1>5, <2>3
  <2> QED BY <1>2, <1>3, <1>5, <2>1, <2>2, <2>3
<1>6. OnlyOnce(a)
  BY <1>5 DEF OnlyOnce
<1> QED BY <1>6 DEF a

\* Two sequences without a common id.
LEMMA ConcatOnce ==
    ASSUME NEW s \in Seq(Events), NEW t \in Seq(Events), OnlyOnce(s), OnlyOnce(t),
           \A x \in ToSet(s), y \in ToSet(t) : x.span # y.span
    PROVE  OnlyOnce(s \o t)
<1> DEFINE c == s \o t
           m == Len(s)
           n == Len(t)
<1>1. /\ DOMAIN c = 1..(m + n)
      /\ \A i \in 1..(m + n) : c[i] = IF i <= m THEN s[i] ELSE t[i - m]
  BY ConcatProperties
<1>2. m \in Nat /\ n \in Nat /\ DOMAIN s = 1..m /\ DOMAIN t = 1..n
  OBVIOUS
<1> HIDE DEF c, m, n
<1>3. ASSUME NEW i \in 1..(m + n)
      PROVE  \/ i \in 1..m /\ c[i] = s[i]
             \/ i - m \in 1..n /\ c[i] = t[i - m] /\ ~ (i <= m)
  <2>1. CASE i <= m
    <3>1. i \in 1..m
      BY <1>2, <2>1
    <3> QED BY <1>1, <2>1, <3>1
  <2>2. CASE ~ (i <= m)
    <3>1. i - m \in 1..n
      BY <1>2, <2>2
    <3> QED BY <1>1, <2>2, <3>1
  <2> QED BY <2>1, <2>2
<1>4. ASSUME NEW i \in 1..m, NEW j \in 1..n
      PROVE  s[i].span # t[j].span
  BY <1>2 DEF ToSet
<1>5. ASSUME NEW i \in DOMAIN c, NEW j \in DOMAIN c, i # j, c[i].span = c[j].span
      PROVE  c[i].span = 0 /\ c[i] # c[j]
  <2>1. i \in 1..(m + n) /\ j \in 1..(m + n)
    BY <1>1
  <2>2. CASE i \in 1..m /\ c[i] = s[i] /\ j \in 1..m /\ c[j] = s[j]
    BY <1>2, <1>5, <2>2 DEF OnlyOnce
  <2>3. CASE /\ i - m \in 1..n /\ c[i] = t[i - m]
             /\ j - m \in 1..n /\ c[j] = t[j - m]
    <3>1. i - m # j - m
      BY <1>2, <1>5, <2>1
    <3> QED BY <1>2, <1>5, <2>3, <3>1 DEF OnlyOnce
  <2> QED BY <1>3, <1>4, <1>5, <2>1, <2>2, <2>3
<1>6. OnlyOnce(c)
  BY <1>5 DEF OnlyOnce
<1> QED BY <1>6 DEF c

-----------------------------------------------------------------------------
(* What the page and the store know of each other                          *)

FetchStates ==
    [at : {"none", "asked", "row read", "decisions read", "answered", "settled"},
     over : BOOLEAN, events : Seq(Events)]

PageStates ==
    [shown : Seq(Events), seen : SUBSET (1..(2 * Turns + 1)), terminal : SUBSET Endings,
     socket : 0..MaxSockets, waits : BOOLEAN]

PageTypes ==
    /\ traced \in BOOLEAN /\ history \in Seq(Events)
    /\ fetches \in [Sockets -> FetchStates] /\ page \in PageStates

\* When in its task an event is published, and the next one will be.
Place(e) == 2 * e.turn + (IF e.type = "node_end" THEN 1 ELSE 0)
NextPlace ==
    2 * task.turn + (IF task.next = "start" THEN 0
                     ELSE IF task.next \in {"decide", "end", "fail"} THEN 1 ELSE 2)

\* What is published of a task is in order, so no event is published twice.
PublishedInOrder ==
    /\ \A k \in DOMAIN published :
        /\ published[k].turn \in 1..Turns
        /\ published[k].span = LiveSpan(published[k].turn)
        /\ Place(published[k]) < NextPlace
    /\ \A i, j \in DOMAIN published : i < j => Place(published[i]) < Place(published[j])

\* The id of the next event that can be stored.
NextSpan ==
    IF task.next \in {"start", "decide", "fail"} THEN Turns + task.turn
    ELSE IF task.next \in {"end", "outcome", "failed status", "failed outcome"}
    THEN Turns + task.turn + 1 ELSE 2 * Turns + 2

\* What is stored of a task is in order, and its row is over after the decisions.
HistoryInOrder ==
    /\ task.over => task.next \in {"over", "failed outcome"}
    /\ \A k \in DOMAIN history : Turns < history[k].span /\ history[k].span < NextSpan
    /\ \A i, j \in DOMAIN history : i < j => history[i].span < history[j].span

Decisions == {e \in ToSet(history) : e.type = "node_end"}

\* An answer on its way has stored events; one that says the task is over has
\* every decision once it has read them.
FetchIsStored(f) ==
    /\ ToSet(f.events) \subseteq ToSet(history) /\ OnlyOnce(f.events)
    /\ f.at = "decisions read" => \A e \in ToSet(f.events) : e.type = "node_end"
    /\ f.over => task.over
    /\ f.over /\ f.at \in {"decisions read", "answered"} =>
        Decisions \subseteq ToSet(f.events)

FetchesAreStored == \A s \in Sockets : FetchIsStored(fetches[s])

\* The page has one connection at most, and none while it waits for the next.
OneSocket ==
    /\ page.waits => page.socket = 0
    /\ \A s \in Sockets :
        /\ sockets[s].at \in {"opening", "open"} <=> page.socket = s
        /\ sockets[s].listed => sockets[s].at \in {"open", "cut"}
        /\ Len(sockets[s].queue) <= QueueSize

\* e was published, and the connection of the page, if it is open, is past it.
Passed(e) ==
    \E k \in DOMAIN published :
        /\ e = published[k]
        /\ \A s \in Sockets :
            sockets[s].at = "open" => k <= sockets[s].from + Len(sockets[s].got)

\* Where an event that is shown comes from.
ShownFrom(e) ==
    /\ e.span # 0 => e.span \in page.seen
    /\ e.span > Turns => e \in ToSet(history)
    /\ e.span = 0 => ~ traced /\ Passed(e)

PageShows ==
    /\ OnlyOnce(page.shown)
    /\ \A e \in ToSet(page.shown) : ShownFrom(e)
    /\ "row" \in page.terminal => task.over /\ Decisions \subseteq ToSet(page.shown)

PageInv ==
    /\ PageTypes /\ PublishedInOrder /\ HistoryInOrder /\ FetchesAreStored
    /\ OneSocket /\ PageShows

\* An event has numbers.
LEMMA EventNumbers ==
    ASSUME NEW e \in Events
    PROVE  /\ e.turn \in 0..Turns /\ e.turn \in Nat /\ e.span \in Nat
           /\ e.span \in 0..(2 * Turns + 1) /\ Place(e) \in Nat
<1>1. /\ e.turn \in 0..Turns /\ e.span \in 0..(2 * Turns + 1)
      /\ Turns \in Nat
  BY TraceAssumption DEF Events
<1>2. e.turn \in Nat /\ e.span \in Nat
  BY <1>1
<1> QED BY <1>1, <1>2 DEF Place

\* An id in the store is the id of one event.
LEMMA HistoryIds ==
    ASSUME history \in Seq(Events), HistoryInOrder
    PROVE  /\ OnlyOnce(history)
           /\ \A x, y \in ToSet(history) : x.span = y.span => x = y
           /\ \A x \in ToSet(history) : x \in Events /\ x.span > Turns /\ x.span # 0
<1>1. DOMAIN history = 1..Len(history) /\ \A i \in DOMAIN history : history[i] \in Events
  OBVIOUS
<1>2. \A i \in DOMAIN history : history[i].span \in Nat
  BY <1>1, EventNumbers
<1>3. ASSUME NEW i \in DOMAIN history, NEW j \in DOMAIN history, i # j
      PROVE  history[i].span # history[j].span
  <2>1. i < j \/ j < i
    BY <1>1, <1>3
  <2>2. history[i].span < history[j].span \/ history[j].span < history[i].span
    BY <2>1 DEF HistoryInOrder
  <2>3. history[i].span \in Nat /\ history[j].span \in Nat
    BY <1>2
  <2> QED BY <2>2, <2>3
<1>4. OnlyOnce(history)
  BY <1>3 DEF OnlyOnce
<1>5. \A x, y \in ToSet(history) : x.span = y.span => x = y
  BY <1>3 DEF ToSet
<1>6. ASSUME NEW i \in DOMAIN history
      PROVE  history[i] \in Events /\ history[i].span > Turns /\ history[i].span # 0
  <2>1. history[i] \in Events /\ history[i].span \in Nat
    BY <1>1, <1>2
  <2>2. Turns < history[i].span /\ Turns \in Nat
    BY TraceAssumption DEF HistoryInOrder
  <2> QED BY <2>1, <2>2
<1>7. \A x \in ToSet(history) : x \in Events /\ x.span > Turns /\ x.span # 0
  BY <1>6 DEF ToSet
<1> QED BY <1>4, <1>5, <1>7

\* The ids of published events are those of turns.
LEMMA PublishedSpans ==
    ASSUME traced \in BOOLEAN, published \in Seq(Events), PublishedInOrder,
           NEW k \in DOMAIN published
    PROVE  /\ published[k] \in Events
           /\ ~ (published[k].span > Turns)
           /\ published[k].span = 0 => ~ traced
<1>1. published[k] \in Events /\ published[k].turn \in 1..Turns
  BY DEF PublishedInOrder
<1>2. published[k].span = IF traced THEN published[k].turn ELSE 0
  BY DEF PublishedInOrder, LiveSpan
<1>3. Turns \in Nat
  BY TraceAssumption
<1> QED BY <1>1, <1>2, <1>3

-----------------------------------------------------------------------------
(* The steps of the task                                                   *)

\* The next event of the task is published.
PublishesNext ==
    \E e \in Events :
        /\ Publish(e)
        /\ e.turn \in 1..Turns /\ e.span = LiveSpan(e.turn)
        /\ NextPlace <= Place(e) /\ Place(e) < NextPlace'

\* The next event of the task is stored, a decision only while it is not over.
StoresNext ==
    \E e \in Events :
        /\ history' = Append(history, e)
        /\ Turns < e.span /\ NextSpan <= e.span /\ e.span < NextSpan'
        /\ e.type = "node_end" => ~ task.over

TaskMoves ==
    /\ UNCHANGED <<traced, fetches, page>>
    /\ NextPlace <= NextPlace' /\ NextSpan <= NextSpan'
    /\ task.over => task'.over
    /\ task'.over => task'.next \in {"over", "failed outcome"}
    /\ PublishesNext \/ UNCHANGED <<sockets, published>>
    /\ StoresNext \/ UNCHANGED history

\* The events that are stored.
LEMMA StoredEvents ==
    ASSUME NEW n \in 1..Turns
    PROVE  /\ Decided(n) \in Events /\ Decided(n).span = Turns + n
           /\ \A o \in {Completed, Escalated} :
                o \in Events /\ o.span = 2 * Turns + 1 /\ o.type # "node_end"
<1>1. Turns \in Nat /\ Turns \in 0..Turns /\ 0 \in 0..Turns /\ n \in 0..Turns
  BY TraceAssumption
<1>2. Turns + n \in 0..(2 * Turns + 1) /\ 2 * Turns + 1 \in 0..(2 * Turns + 1)
  BY <1>1
<1> QED BY <1>1, <1>2 DEF Decided, Completed, Escalated, Events

\* Where a turn's events are.
LEMMA TurnPlaces ==
    ASSUME NEW n \in 1..Turns
    PROVE  /\ Started(n).turn = n /\ Started(n).span = LiveSpan(n)
           /\ Place(Started(n)) = 2 * n
           /\ Ended(n).turn = n /\ Ended(n).span = LiveSpan(n)
           /\ Place(Ended(n)) = 2 * n + 1
           /\ LET f == [Ended(n) EXCEPT !.cost = FALSE] IN
                f.turn = n /\ f.span = LiveSpan(n) /\ Place(f) = 2 * n + 1
<1>1. n \in Nat
  BY TraceAssumption
<1> QED BY <1>1 DEF Started, Ended, Place

\* Every step of the task publishes or stores the next event, or neither.
LEMMA TaskStepsMove ==
    ASSUME StreamInv, HistoryInOrder, StartNode \/ Decide \/ EndNode \/ FailNode \/ Finish
    PROVE  TaskMoves
<1> DEFINE t == task.turn
<1>1. task \in TaskStates /\ t \in 1..Turns /\ Turns \in Nat /\ t \in Nat
  <2>1. task \in TaskStates /\ t \in 1..Turns
    BY DEF StreamInv, TaskStates
  <2>2. Turns \in Nat
    BY TraceAssumption
  <2> HIDE DEF t
  <2> QED BY <2>1, <2>2
<1>2. ASSUME NEW w \in {"start", "decide", "end", "fail", "outcome", "status",
                        "failed status", "failed outcome", "over"}, Go(w)
      PROVE  task'.turn = t /\ task'.next = w /\ task'.over = task.over
  BY <1>1, <1>2 DEF Go, TaskStates
<1>3. task.over => task.next \in {"over", "failed outcome"}
  BY DEF HistoryInOrder
<1>e. /\ Started(t) \in Events /\ Ended(t) \in Events
      /\ [Ended(t) EXCEPT !.cost = FALSE] \in Events
  BY <1>1, TurnEvents
<1>4. CASE StartNode
  <2>1. /\ task.next = "start" /\ Publish(Started(t)) /\ UNCHANGED history
        /\ Go("decide") \/ Go("fail")
    BY <1>4 DEF StartNode
  <2>2. task'.turn = t /\ task'.next \in {"decide", "fail"} /\ task'.over = task.over
    BY <1>2, <2>1
  <2>a. task.next = "start"
    BY <2>1
  <2>b. NextPlace = 2 * t /\ NextSpan = Turns + t
    BY <1>1, <2>a DEF NextPlace, NextSpan
  <2>c. NextPlace' = 2 * t + 1 /\ NextSpan' = Turns + t
    BY <1>1, <2>2 DEF NextPlace, NextSpan
  <2>3. NextPlace = 2 * t /\ NextPlace' = 2 * t + 1 /\ NextSpan = Turns + t
        /\ NextSpan' = Turns + t
    BY <2>b, <2>c
  <2>4. PublishesNext
    BY <1>1, <1>e, <2>1, <2>3, TurnPlaces DEF PublishesNext
  <2>5. NextPlace <= NextPlace' /\ NextSpan <= NextSpan'
    BY <1>1, <2>3
  <2> QED BY <1>3, <2>1, <2>2, <2>4, <2>5 DEF TaskMoves, Publish
<1>5. CASE Decide
  <2>1. /\ task.next = "decide" /\ Go("end") /\ history' = Append(history, Decided(t))
        /\ UNCHANGED <<traced, sockets, fetches, page, published>>
    BY <1>5 DEF Decide
  <2>2. task'.turn = t /\ task'.next = "end" /\ task'.over = task.over
    BY <1>2, <2>1
  <2>3. NextPlace = 2 * t + 1 /\ NextPlace' = 2 * t + 1 /\ NextSpan = Turns + t
        /\ NextSpan' = Turns + t + 1
    BY <1>1, <2>1, <2>2 DEF NextPlace, NextSpan
  <2>4. Decided(t) \in Events /\ Decided(t).span = Turns + t
    BY <1>1, StoredEvents
  <2>5. Turns < Turns + t /\ Turns + t <= Turns + t /\ Turns + t < Turns + t + 1
    BY <1>1
  <2>6. ~ task.over
    BY <1>3, <2>1
  <2>7. StoresNext
    BY <2>1, <2>3, <2>4, <2>5, <2>6 DEF StoresNext
  <2>8. NextPlace <= NextPlace' /\ NextSpan <= NextSpan'
    BY <1>1, <2>3
  <2> QED BY <2>1, <2>2, <2>6, <2>7, <2>8 DEF TaskMoves
<1>6. CASE EndNode
  <2>1. /\ task.next = "end" /\ Publish(Ended(t)) /\ UNCHANGED history
        /\ \/ t < Turns /\ task' = [task EXCEPT !.turn = @ + 1, !.next = "start"]
           \/ Go("outcome") \/ Go("failed status")
    BY <1>6 DEF EndNode, NextTurn
  <2>2. /\ task'.over = task.over
        /\ \/ task'.turn = t + 1 /\ task'.next = "start"
           \/ task'.turn = t /\ task'.next \in {"outcome", "failed status"}
    BY <1>1, <1>2, <2>1 DEF TaskStates
  <2>3. NextPlace = 2 * t + 1 /\ NextSpan = Turns + t + 1
    BY <1>1, <2>1 DEF NextPlace, NextSpan
  <2>4. NextPlace' = 2 * t + 2 /\ NextSpan' = Turns + t + 1
    <3>1. CASE task'.turn = t + 1 /\ task'.next = "start"
      <4>1. NextPlace' = 2 * (t + 1) + 0 /\ NextSpan' = Turns + (t + 1)
        BY <3>1 DEF NextPlace, NextSpan
      <4> QED BY <1>1, <4>1
    <3>2. CASE task'.turn = t /\ task'.next \in {"outcome", "failed status"}
      BY <1>1, <3>2 DEF NextPlace, NextSpan
    <3> QED BY <2>2, <3>1, <3>2
  <2>5. PublishesNext
    <3>1. /\ Ended(t).turn = t /\ Ended(t).span = LiveSpan(t)
          /\ Place(Ended(t)) = 2 * t + 1
      BY <1>1, TurnPlaces
    <3>2. NextPlace <= Place(Ended(t)) /\ Place(Ended(t)) < NextPlace'
      BY <1>1, <2>3, <2>4, <3>1
    <3> QED BY <1>1, <1>e, <2>1, <3>1, <3>2 DEF PublishesNext
  <2>6. NextPlace <= NextPlace' /\ NextSpan <= NextSpan'
    BY <1>1, <2>3, <2>4
  <2>7. ~ task.over
    BY <1>3, <2>1
  <2> QED BY <2>1, <2>2, <2>5, <2>6, <2>7 DEF TaskMoves, Publish
<1>7. CASE FailNode
  <2>1. /\ task.next = "fail" /\ UNCHANGED history
        /\ Go("outcome") \/ NextTurn
        /\ \/ Publish([Ended(t) EXCEPT !.cost = FALSE])
           \/ UNCHANGED <<traced, sockets, fetches, page, published>>
    BY <1>7 DEF FailNode
  <2>2. /\ task'.over = task.over
        /\ \/ task'.turn = t + 1 /\ task'.next = "start"
           \/ task'.turn = t /\ task'.next = "outcome"
    BY <1>1, <1>2, <2>1 DEF TaskStates, NextTurn
  <2>3. NextPlace = 2 * t + 1 /\ NextSpan = Turns + t
    BY <1>1, <2>1 DEF NextPlace, NextSpan
  <2>4. NextPlace' = 2 * t + 2 /\ NextSpan' = Turns + t + 1
    <3>1. CASE task'.turn = t + 1 /\ task'.next = "start"
      <4>1. NextPlace' = 2 * (t + 1) + 0 /\ NextSpan' = Turns + (t + 1)
        BY <3>1 DEF NextPlace, NextSpan
      <4> QED BY <1>1, <4>1
    <3>2. CASE task'.turn = t /\ task'.next = "outcome"
      BY <1>1, <3>2 DEF NextPlace, NextSpan
    <3> QED BY <2>2, <3>1, <3>2
  <2>5. ASSUME Publish([Ended(t) EXCEPT !.cost = FALSE])
        PROVE  PublishesNext
    <3> DEFINE f == [Ended(t) EXCEPT !.cost = FALSE]
    <3>1. f.turn = t /\ f.span = LiveSpan(t) /\ Place(f) = 2 * t + 1 /\ f \in Events
      BY <1>1, <1>e, TurnPlaces
    <3>2. Publish(f)
      BY <2>5
    <3> HIDE DEF f
    <3>3. NextPlace <= Place(f) /\ Place(f) < NextPlace'
      BY <1>1, <2>3, <2>4, <3>1
    <3>4. PublishesNext
      BY <1>1, <3>1, <3>2, <3>3 DEF PublishesNext
    <3> QED BY <3>4
  <2>6. NextPlace <= NextPlace' /\ NextSpan <= NextSpan'
    BY <1>1, <2>3, <2>4
  <2>7. ~ task.over
    BY <1>3, <2>1
  <2>8. /\ PublishesNext \/ UNCHANGED <<sockets, published>>
        /\ UNCHANGED <<traced, fetches, page>>
    BY <2>1, <2>5 DEF Publish
  <2> QED BY <2>1, <2>2, <2>6, <2>7, <2>8 DEF TaskMoves
<1>8. CASE Finish
  <2>0. UNCHANGED <<traced, sockets, fetches, page, published>>
    BY <1>8 DEF Finish
  <2>o. ASSUME NEW o \in {Completed, Escalated}, history' = Append(history, o),
               NextSpan = Turns + t + 1, NextSpan' = 2 * Turns + 2
        PROVE  StoresNext
    <3>1. o \in Events /\ o.span = 2 * Turns + 1 /\ o.type # "node_end"
      BY <1>1, StoredEvents
    <3>2. Turns < 2 * Turns + 1 /\ Turns + t + 1 <= 2 * Turns + 1
          /\ 2 * Turns + 1 < 2 * Turns + 2
      BY <1>1
    <3> QED BY <2>o, <3>1, <3>2 DEF StoresNext
  <2>n. Turns + t + 1 <= 2 * Turns + 2 /\ 2 * t + 2 \in Nat /\ 2 * Turns + 2 \in Nat
        /\ Turns + t + 1 \in Nat
    BY <1>1
  <2>1. CASE /\ task.next = "outcome" /\ Go("status")
             /\ \E o \in {Completed, Escalated} : history' = Append(history, o)
    <3>1. task'.turn = t /\ task'.next = "status" /\ task'.over = task.over
      BY <1>2, <2>1
    <3>2. NextPlace = 2 * t + 2 /\ NextPlace' = 2 * t + 2 /\ NextSpan = Turns + t + 1
          /\ NextSpan' = 2 * Turns + 2
      BY <1>1, <2>1, <3>1 DEF NextPlace, NextSpan
    <3>3. StoresNext
      BY <2>o, <2>1, <3>2
    <3>4. ~ task.over
      BY <1>3, <2>1
    <3>5. NextPlace <= NextPlace' /\ NextSpan <= NextSpan'
      BY <2>n, <3>2
    <3> QED BY <2>0, <3>1, <3>3, <3>4, <3>5 DEF TaskMoves
  <2>2. CASE /\ task.next = "status" /\ UNCHANGED history
             /\ task' = [task EXCEPT !.next = "over", !.over = TRUE]
    <3>1. task'.turn = t /\ task'.next = "over" /\ task'.over
      BY <1>1, <2>2 DEF TaskStates
    <3>2. NextPlace = 2 * t + 2 /\ NextPlace' = 2 * t + 2 /\ NextSpan = 2 * Turns + 2
          /\ NextSpan' = 2 * Turns + 2
      BY <1>1, <2>2, <3>1 DEF NextPlace, NextSpan
    <3>5. NextPlace <= NextPlace' /\ NextSpan <= NextSpan'
      BY <2>n, <3>2
    <3> QED BY <2>0, <2>2, <3>1, <3>5 DEF TaskMoves
  <2>3. CASE /\ task.next = "failed status" /\ UNCHANGED history
             /\ task' = [task EXCEPT !.next = "failed outcome", !.over = TRUE]
    <3>1. task'.turn = t /\ task'.next = "failed outcome" /\ task'.over
      BY <1>1, <2>3 DEF TaskStates
    <3>2. NextPlace = 2 * t + 2 /\ NextPlace' = 2 * t + 2 /\ NextSpan = Turns + t + 1
          /\ NextSpan' = Turns + t + 1
      BY <1>1, <2>3, <3>1 DEF NextPlace, NextSpan
    <3>5. NextPlace <= NextPlace' /\ NextSpan <= NextSpan'
      BY <2>n, <3>2
    <3> QED BY <2>0, <2>3, <3>1, <3>5 DEF TaskMoves
  <2>4. CASE /\ task.next = "failed outcome" /\ Go("over")
             /\ history' = Append(history, Escalated)
    <3>1. task'.turn = t /\ task'.next = "over" /\ task'.over = task.over
      BY <1>2, <2>4
    <3>2. NextPlace = 2 * t + 2 /\ NextPlace' = 2 * t + 2 /\ NextSpan = Turns + t + 1
          /\ NextSpan' = 2 * Turns + 2
      BY <1>1, <2>4, <3>1 DEF NextPlace, NextSpan
    <3>3. StoresNext
      BY <2>o, <2>4, <3>2
    <3>5. NextPlace <= NextPlace' /\ NextSpan <= NextSpan'
      BY <2>n, <3>2
    <3> QED BY <2>0, <3>1, <3>3, <3>5 DEF TaskMoves
  <2> QED BY <1>8, <2>1, <2>2, <2>3, <2>4 DEF Finish
<1> QED BY <1>4, <1>5, <1>6, <1>7, <1>8

\* The positions of a sequence to which an element is appended.
LEMMA AppendPositions ==
    ASSUME NEW T, NEW s \in Seq(T), NEW e \in T
    PROVE  LET a == Append(s, e)
               m == Len(s) + 1
           IN  /\ DOMAIN s \subseteq Nat /\ m \in Nat /\ m \in DOMAIN a /\ a[m] = e
               /\ \A i \in DOMAIN s : i < m /\ i \in DOMAIN a /\ a[i] = s[i]
               /\ \A i \in DOMAIN a : i \in DOMAIN s \/ i = m
<1> DEFINE a == Append(s, e)
           m == Len(s) + 1
<1>1. /\ a \in Seq(T) /\ Len(a) = m /\ Len(s) \in Nat
      /\ \A i \in 1..Len(s) : a[i] = s[i]
      /\ a[m] = e
  BY AppendProperties
<1>2. DOMAIN s = 1..Len(s)
  OBVIOUS
<1> HIDE DEF a
<1>3. DOMAIN a = 1..m
  BY <1>1
<1>4. m \in DOMAIN a /\ m \in Nat /\ DOMAIN s \subseteq Nat
  BY <1>1, <1>2, <1>3
<1>5. \A i \in DOMAIN s : i < m /\ i \in DOMAIN a /\ a[i] = s[i]
  BY <1>1, <1>2, <1>3
<1>6. \A i \in DOMAIN a : i \in DOMAIN s \/ i = m
  BY <1>1, <1>2, <1>3
<1> HIDE DEF m
<1> QED BY <1>1, <1>4, <1>5, <1>6 DEF a, m

\* The next place and the next id are numbers.
LEMMA NextNumbers ==
    ASSUME StreamInv, StreamInv'
    PROVE  NextPlace \in Nat /\ NextPlace' \in Nat /\ NextSpan \in Nat /\ NextSpan' \in Nat
<1>1. Turns \in Nat
  BY TraceAssumption
<1>2. task.turn \in 1..Turns /\ task'.turn \in 1..Turns
  BY DEF StreamInv, TaskStates
<1>3. task.turn \in Nat /\ task'.turn \in Nat
  BY <1>1, <1>2
<1>4. /\ NextPlace \in {2 * task.turn + 0, 2 * task.turn + 1, 2 * task.turn + 2}
      /\ NextSpan \in {Turns + task.turn, Turns + task.turn + 1, 2 * Turns + 2}
  BY DEF NextPlace, NextSpan
<1>5. /\ NextPlace' \in {2 * task'.turn + 0, 2 * task'.turn + 1, 2 * task'.turn + 2}
      /\ NextSpan' \in {Turns + task'.turn, Turns + task'.turn + 1, 2 * Turns + 2}
  BY DEF NextPlace, NextSpan
<1>6. ASSUME NEW t \in Nat
      PROVE  /\ 2 * t + 0 \in Nat /\ 2 * t + 1 \in Nat /\ 2 * t + 2 \in Nat
             /\ Turns + t \in Nat /\ Turns + t + 1 \in Nat /\ 2 * Turns + 2 \in Nat
  BY <1>1
<1>7. NextPlace \in Nat /\ NextSpan \in Nat
  BY <1>3, <1>4, <1>6
<1>8. NextPlace' \in Nat /\ NextSpan' \in Nat
  BY <1>3, <1>5, <1>6
<1> QED BY <1>7, <1>8

\* What a publication does to the sockets and to what was published.
LEMMA PublicationAdds ==
    ASSUME StreamInv, OneSocket, PublishesNext \/ UNCHANGED <<sockets, published>>
    PROVE  /\ \A k \in DOMAIN published :
                k \in DOMAIN published' /\ published'[k] = published[k]
           /\ \A s \in Sockets :
                /\ sockets'[s].at = sockets[s].at /\ sockets'[s].from = sockets[s].from
                /\ sockets'[s].got = sockets[s].got
                /\ sockets'[s].listed => sockets[s].listed
                /\ Len(sockets'[s].queue) <= QueueSize
<1>1. CASE UNCHANGED <<sockets, published>>
  BY <1>1 DEF OneSocket
<1>2. CASE PublishesNext
  <2>1. PICK e \in Events : Publish(e)
    BY <1>2 DEF PublishesNext
  <2>2. /\ sockets' = [s \in Sockets |-> Offered(sockets[s], e)]
        /\ published' = Append(published, e) /\ published \in Seq(Events)
    BY <2>1 DEF Publish, StreamInv
  <2>3. \A k \in DOMAIN published :
           k \in DOMAIN published' /\ published'[k] = published[k]
    BY <2>2, AppendPositions
  <2>4. ASSUME NEW s \in Sockets
        PROVE  /\ sockets'[s].at = sockets[s].at /\ sockets'[s].from = sockets[s].from
               /\ sockets'[s].got = sockets[s].got
               /\ sockets'[s].listed => sockets[s].listed
               /\ Len(sockets'[s].queue) <= QueueSize
    <3> DEFINE k == sockets[s]
    <3>1. k \in SocketStates /\ Len(k.queue) <= QueueSize /\ sockets'[s] = Offered(k, e)
      BY <2>2 DEF StreamInv, OneSocket
    <3> HIDE DEF k
    <3>2. CASE ~ (k.listed /\ Len(k.queue) < QueueSize)
      <4>1. Offered(k, e) = [k EXCEPT !.listed = FALSE]
        BY <3>2 DEF Offered
      <4> QED BY <3>1, <4>1 DEF SocketStates, k
    <3>3. CASE k.listed /\ Len(k.queue) < QueueSize
      <4>1. Offered(k, e) = [k EXCEPT !.queue = Append(k.queue, e)]
        BY <3>3 DEF Offered
      <4>2. k.queue \in Seq(Events)
        BY <3>1 DEF SocketStates
      <4>3. Len(Append(k.queue, e)) = Len(k.queue) + 1 /\ Len(k.queue) \in Nat
        BY <4>2, AppendProperties
      <4>4. QueueSize \in Nat
        BY TraceAssumption
      <4>5. Len(Append(k.queue, e)) <= QueueSize
        BY <3>3, <4>3, <4>4
      <4>6. sockets'[s].queue = Append(k.queue, e)
        BY <3>1, <4>1 DEF SocketStates
      <4>7. /\ sockets'[s].at = k.at /\ sockets'[s].from = k.from
            /\ sockets'[s].got = k.got /\ sockets'[s].listed = k.listed
        BY <3>1, <4>1 DEF SocketStates
      <4> QED BY <4>5, <4>6, <4>7 DEF k
    <3> QED BY <3>2, <3>3
  <2> QED BY <2>3, <2>4
<1> QED BY <1>1, <1>2

\* The history only grows, and by no decision once the row is over.
LEMMA HistoryGrows ==
    ASSUME history \in Seq(Events), StoresNext \/ UNCHANGED history
    PROVE  /\ history' \in Seq(Events) /\ ToSet(history) \subseteq ToSet(history')
           /\ task.over => Decisions' = Decisions
<1>1. CASE UNCHANGED history
  BY <1>1 DEF Decisions
<1>2. CASE StoresNext
  <2>1. PICK e \in Events :
           history' = Append(history, e) /\ (e.type = "node_end" => ~ task.over)
    BY <1>2 DEF StoresNext
  <2>2. history' \in Seq(Events) /\ ToSet(history') = ToSet(history) \cup {e}
    BY <2>1, AppendElements
  <2>3. task.over => Decisions' = Decisions
    BY <2>1, <2>2 DEF Decisions
  <2> QED BY <2>2, <2>3
<1> QED BY <1>1, <1>2

\* A step of the task keeps what is published in order.
LEMMA PublishedStaysInOrder ==
    ASSUME StreamInv, StreamInv', PageInv, TaskMoves
    PROVE  PublishedInOrder'
<1>1. published \in Seq(Events) /\ PublishedInOrder /\ traced' = traced
      /\ NextPlace <= NextPlace'
  BY DEF StreamInv, PageInv, TaskMoves
<1>2. NextPlace \in Nat /\ NextPlace' \in Nat
  BY NextNumbers
<1>3. ASSUME NEW k \in DOMAIN published
      PROVE  /\ Place(published[k]) \in Nat /\ Place(published[k]) < NextPlace
             /\ Place(published[k]) < NextPlace'
             /\ published[k].turn \in 1..Turns
             /\ published[k].span = IF traced' THEN published[k].turn ELSE 0
  <2>1. published[k] \in Events
    BY <1>1
  <2>2. Place(published[k]) \in Nat /\ Place(published[k]) < NextPlace
    BY <1>1, <2>1, EventNumbers DEF PublishedInOrder
  <2>3. Place(published[k]) < NextPlace'
    BY <1>1, <1>2, <2>2
  <2>4. published[k].turn \in 1..Turns
    BY <1>1 DEF PublishedInOrder
  <2>5. published[k].span = IF traced' THEN published[k].turn ELSE 0
    BY <1>1 DEF PublishedInOrder, LiveSpan
  <2> QED BY <2>2, <2>3, <2>4, <2>5
<1>4. CASE UNCHANGED <<sockets, published>>
  <2>1. published' = published
    BY <1>4
  <2>2. \A k \in DOMAIN published' :
          /\ published'[k].turn \in 1..Turns
          /\ published'[k].span = IF traced' THEN published'[k].turn ELSE 0
          /\ Place(published'[k]) < NextPlace'
    BY <1>3, <2>1
  <2>3. \A i, j \in DOMAIN published' :
          i < j => Place(published'[i]) < Place(published'[j])
    BY <1>1, <2>1 DEF PublishedInOrder
  <2> QED BY <2>1, <2>2, <2>3 DEF PublishedInOrder, Place, LiveSpan
<1>5. CASE PublishesNext
  <2> DEFINE m == Len(published) + 1
             a == published'
  <2>1. PICK e \in Events :
          /\ published' = Append(published, e)
          /\ e.turn \in 1..Turns /\ e.span = LiveSpan(e.turn)
          /\ NextPlace <= Place(e) /\ Place(e) < NextPlace'
    BY <1>5 DEF PublishesNext, Publish
  <2>2. /\ DOMAIN published \subseteq Nat /\ m \in Nat /\ m \in DOMAIN a /\ a[m] = e
        /\ \A i \in DOMAIN published : i < m /\ i \in DOMAIN a /\ a[i] = published[i]
        /\ \A i \in DOMAIN a : i \in DOMAIN published \/ i = m
    BY <1>1, <2>1, AppendPositions
  <2>3. Place(e) \in Nat
    BY EventNumbers
  <2>4. e.span = IF traced' THEN e.turn ELSE 0
    BY <1>1, <2>1 DEF LiveSpan
  <2> HIDE DEF m, a
  <2>5. \A k \in DOMAIN a :
          /\ a[k].turn \in 1..Turns /\ a[k].span = (IF traced' THEN a[k].turn ELSE 0)
          /\ Place(a[k]) < NextPlace'
    <3> TAKE k \in DOMAIN a
    <3>1. CASE k \in DOMAIN published
      <4>1. a[k] = published[k]
        BY <2>2, <3>1
      <4> QED BY <1>3, <3>1, <4>1
    <3>2. CASE k = m
      <4>1. a[k] = e
        BY <2>2, <3>2
      <4> QED BY <2>1, <2>4, <4>1
    <3> QED BY <2>2, <3>1, <3>2
  <2>6. \A i, j \in DOMAIN a : i < j => Place(a[i]) < Place(a[j])
    <3> SUFFICES ASSUME NEW i \in DOMAIN a, NEW j \in DOMAIN a, i < j
                 PROVE  Place(a[i]) < Place(a[j])
      OBVIOUS
    <3>1. i \in DOMAIN published
      <4>1. CASE i = m
        <5>1. j \in Nat /\ (j < m \/ j = m)
          BY <2>2
        <5> QED BY <2>2, <4>1, <5>1
      <4> QED BY <2>2, <4>1
    <3>2. a[i] = published[i] /\ Place(a[i]) \in Nat /\ Place(a[i]) < NextPlace
      BY <1>3, <2>2, <3>1
    <3>3. CASE j \in DOMAIN published
      <4>1. a[j] = published[j]
        BY <2>2, <3>3
      <4> QED BY <1>1, <3>1, <3>2, <3>3, <4>1 DEF PublishedInOrder
    <3>4. CASE j = m
      <4>1. a[j] = e
        BY <2>2, <3>4
      <4> QED BY <1>2, <2>1, <2>3, <3>2, <4>1
    <3> QED BY <2>2, <3>3, <3>4
  <2> QED BY <2>5, <2>6 DEF PublishedInOrder, Place, LiveSpan, a
<1> QED BY <1>4, <1>5 DEF TaskMoves

\* A step of the task keeps what is stored in order.
LEMMA HistoryStaysInOrder ==
    ASSUME StreamInv, StreamInv', PageInv, TaskMoves
    PROVE  HistoryInOrder'
<1>1. /\ history \in Seq(Events) /\ HistoryInOrder /\ NextSpan <= NextSpan'
      /\ task'.over => task'.next \in {"over", "failed outcome"}
  BY DEF PageInv, PageTypes, TaskMoves
<1>s. history \in Seq(Events)
  BY <1>1
<1>l. NextSpan <= NextSpan'
  BY <1>1
<1>2. NextSpan \in Nat /\ NextSpan' \in Nat
  BY NextNumbers
<1>3. ASSUME NEW k \in DOMAIN history
      PROVE  /\ history[k].span \in Nat /\ Turns < history[k].span
             /\ history[k].span < NextSpan /\ history[k].span < NextSpan'
  <2>1. history[k] \in Events
    BY <1>s
  <2>2. history[k].span \in Nat
    BY <2>1, EventNumbers
  <2>3. Turns < history[k].span /\ history[k].span < NextSpan
    BY <1>1 DEF HistoryInOrder
  <2>4. history[k].span < NextSpan'
    BY <1>2, <1>l, <2>2, <2>3
  <2> QED BY <2>2, <2>3, <2>4
<1>4. CASE UNCHANGED history
  BY <1>1, <1>3, <1>4 DEF HistoryInOrder
<1>5. CASE StoresNext
  <2> DEFINE m == Len(history) + 1
             a == history'
  <2>1. PICK e \in Events :
          /\ history' = Append(history, e)
          /\ Turns < e.span /\ NextSpan <= e.span /\ e.span < NextSpan'
    BY <1>5 DEF StoresNext
  <2>2. /\ DOMAIN history \subseteq Nat /\ m \in Nat /\ m \in DOMAIN a /\ a[m] = e
        /\ \A i \in DOMAIN history : i < m /\ i \in DOMAIN a /\ a[i] = history[i]
        /\ \A i \in DOMAIN a : i \in DOMAIN history \/ i = m
    BY <1>s, <2>1, AppendPositions
  <2>3. e.span \in Nat
    BY EventNumbers
  <2> HIDE DEF m, a
  <2>5. \A k \in DOMAIN a : Turns < a[k].span /\ a[k].span < NextSpan'
    <3> TAKE k \in DOMAIN a
    <3>1. CASE k \in DOMAIN history
      <4>1. a[k] = history[k]
        BY <2>2, <3>1
      <4> QED BY <1>3, <3>1, <4>1
    <3>2. CASE k = m
      <4>1. a[k] = e
        BY <2>2, <3>2
      <4> QED BY <2>1, <4>1
    <3> QED BY <2>2, <3>1, <3>2
  <2>6. \A i, j \in DOMAIN a : i < j => a[i].span < a[j].span
    <3> SUFFICES ASSUME NEW i \in DOMAIN a, NEW j \in DOMAIN a, i < j
                 PROVE  a[i].span < a[j].span
      OBVIOUS
    <3>1. i \in DOMAIN history
      <4>1. CASE i = m
        <5>1. j \in Nat /\ (j < m \/ j = m)
          BY <2>2
        <5> QED BY <2>2, <4>1, <5>1
      <4> QED BY <2>2, <4>1
    <3>2. a[i] = history[i] /\ a[i].span \in Nat /\ a[i].span < NextSpan
      BY <1>3, <2>2, <3>1
    <3>3. CASE j \in DOMAIN history
      <4>1. a[j] = history[j]
        BY <2>2, <3>3
      <4> QED BY <1>1, <3>1, <3>2, <3>3, <4>1 DEF HistoryInOrder
    <3>4. CASE j = m
      <4>1. a[j] = e
        BY <2>2, <3>4
      <4> QED BY <1>2, <2>1, <2>3, <3>2, <4>1
    <3> QED BY <2>2, <3>3, <3>4
  <2> QED BY <1>1, <2>5, <2>6 DEF HistoryInOrder, a
<1> QED BY <1>4, <1>5 DEF TaskMoves

\* A step of the task keeps what the page and the store know of each other.
LEMMA TaskMovesKeep ==
    ASSUME StreamInv, StreamInv', PageInv, TaskMoves
    PROVE  PageInv'
<1>1. /\ history' \in Seq(Events) /\ ToSet(history) \subseteq ToSet(history')
      /\ task.over => Decisions' = Decisions
  BY HistoryGrows DEF PageInv, PageTypes, TaskMoves
<1>2. /\ \A k \in DOMAIN published :
            k \in DOMAIN published' /\ published'[k] = published[k]
      /\ \A s \in Sockets :
            /\ sockets'[s].at = sockets[s].at /\ sockets'[s].from = sockets[s].from
            /\ sockets'[s].got = sockets[s].got
            /\ sockets'[s].listed => sockets[s].listed
            /\ Len(sockets'[s].queue) <= QueueSize
  BY PublicationAdds DEF PageInv, TaskMoves
<1>3. traced' = traced /\ fetches' = fetches /\ page' = page /\ (task.over => task'.over)
  BY DEF TaskMoves
<1>4. PageTypes'
  BY <1>1, <1>3 DEF PageInv, PageTypes
<1>5. FetchesAreStored'
  <2> SUFFICES ASSUME NEW s \in Sockets
               PROVE  FetchIsStored(fetches[s])'
    BY DEF FetchesAreStored
  <2>1. FetchIsStored(fetches[s]) /\ fetches'[s] = fetches[s]
    BY <1>3 DEF PageInv, FetchesAreStored
  <2> QED BY <1>1, <1>3, <2>1 DEF FetchIsStored
<1>6. OneSocket'
  BY <1>2, <1>3 DEF PageInv, OneSocket
<1>7. ASSUME NEW e, Passed(e)
      PROVE  Passed(e)'
  <2>1. PICK k \in DOMAIN published :
          /\ e = published[k]
          /\ \A s \in Sockets :
              sockets[s].at = "open" => k <= sockets[s].from + Len(sockets[s].got)
    BY <1>7 DEF Passed
  <2>2. k \in DOMAIN published' /\ e = published'[k]
    BY <1>2, <2>1
  <2>3. \A s \in Sockets :
          sockets'[s].at = "open" => k <= sockets'[s].from + Len(sockets'[s].got)
    BY <1>2, <2>1
  <2> QED BY <2>2, <2>3 DEF Passed
<1>8. PageShows'
  <2>1. OnlyOnce(page'.shown)
    BY <1>3 DEF PageInv, PageShows
  <2>2. ASSUME NEW e \in ToSet(page'.shown)
        PROVE  ShownFrom(e)'
    <3>1. ShownFrom(e)
      BY <1>3 DEF PageInv, PageShows
    <3> QED BY <1>1, <1>3, <1>7, <3>1 DEF ShownFrom
  <2>3. "row" \in page'.terminal => task'.over /\ Decisions' \subseteq ToSet(page'.shown)
    BY <1>1, <1>3 DEF PageInv, PageShows
  <2> QED BY <2>1, <2>2, <2>3 DEF PageShows
<1> QED BY <1>4, <1>5, <1>6, <1>8, PublishedStaysInOrder, HistoryStaysInOrder DEF PageInv

-----------------------------------------------------------------------------
(* The steps of the sockets                                                *)

\* What does not depend on the page and the sockets.
Elsewhere == UNCHANGED <<traced, task, history, published>>

\* A step of a socket or a fetch leaves the order of events alone.
LEMMA ElsewhereKeeps ==
    ASSUME PageInv, Elsewhere
    PROVE  PublishedInOrder' /\ HistoryInOrder' /\ Decisions' = Decisions
<1>1. PublishedInOrder'
  BY DEF PageInv, PublishedInOrder, Elsewhere, NextPlace, LiveSpan
<1>2. HistoryInOrder'
  BY DEF PageInv, HistoryInOrder, Elsewhere, NextSpan
<1>3. Decisions' = Decisions
  BY DEF Elsewhere, Decisions
<1> QED BY <1>1, <1>2, <1>3

\* Fetches that nobody touches, but for one that is asked again.
LEMMA AskingKeeps ==
    ASSUME PageInv, Elsewhere, NEW s \in Sockets,
           fetches' = fetches \/ fetches' = [fetches EXCEPT ![s].at = "asked"]
    PROVE  fetches' \in [Sockets -> FetchStates] /\ FetchesAreStored'
<1>1. fetches \in [Sockets -> FetchStates] /\ FetchesAreStored /\ Decisions' = Decisions
      /\ history' = history /\ task' = task
  BY ElsewhereKeeps DEF PageInv, PageTypes, Elsewhere
<1>2. ASSUME NEW r \in Sockets
      PROVE  /\ fetches'[r] \in FetchStates
             /\ fetches'[r].over = fetches[r].over /\ fetches'[r].events = fetches[r].events
             /\ fetches'[r].at = fetches[r].at \/ fetches'[r].at = "asked"
  <2>1. CASE fetches'[r] = fetches[r]
    BY <1>1, <2>1
  <2>2. CASE fetches'[r] = [fetches[r] EXCEPT !.at = "asked"]
    BY <1>1, <2>2 DEF FetchStates
  <2> QED BY <1>1, <2>1, <2>2
<1>3. fetches' \in [Sockets -> FetchStates]
  BY <1>1 DEF FetchStates
<1>4. FetchesAreStored'
  <2> SUFFICES ASSUME NEW r \in Sockets
               PROVE  FetchIsStored(fetches[r])'
    BY DEF FetchesAreStored
  <2>1. FetchIsStored(fetches[r])
    BY <1>1 DEF FetchesAreStored
  <2> QED BY <1>1, <1>2, <2>1 DEF FetchIsStored
<1> QED BY <1>3, <1>4

\* A step that changes one socket, and the page's connection accordingly.
LEMMA OneSocketKeeps ==
    ASSUME StreamInv, PageInv, NEW s \in Sockets, NEW k \in SocketStates,
           sockets' = [sockets EXCEPT ![s] = k],
           k.at \in {"opening", "open"} <=> page'.socket = s,
           k.listed => k.at \in {"open", "cut"},
           Len(k.queue) <= QueueSize,
           page'.waits => page'.socket = 0,
           \A r \in Sockets : r # s => (page.socket = r <=> page'.socket = r)
    PROVE  OneSocket'
<1>1. sockets'[s] = k /\ \A r \in Sockets : r # s => sockets'[r] = sockets[r]
  BY DEF StreamInv
<1>2. ASSUME NEW r \in Sockets
      PROVE  /\ sockets'[r].at \in {"opening", "open"} <=> page'.socket = r
             /\ sockets'[r].listed => sockets'[r].at \in {"open", "cut"}
             /\ Len(sockets'[r].queue) <= QueueSize
  <2>1. CASE r = s
    BY <1>1, <2>1
  <2>2. CASE r # s
    BY <1>1, <2>2 DEF PageInv, OneSocket
  <2> QED BY <2>1, <2>2
<1> QED BY <1>2 DEF OneSocket

\* A connection never goes back.
LEMMA PassedKept ==
    ASSUME StreamInv, NEW s \in Sockets, NEW k \in SocketStates,
           sockets' = [sockets EXCEPT ![s] = k], published' = published,
           k.at = "open" =>
             \/ /\ sockets[s].at = "open"
                /\ sockets[s].from + Len(sockets[s].got) <= k.from + Len(k.got)
             \/ Len(published) <= k.from + Len(k.got),
           NEW e, Passed(e)
    PROVE  Passed(e)'
<1>1. PICK i \in DOMAIN published :
        /\ e = published[i]
        /\ \A r \in Sockets :
            sockets[r].at = "open" => i <= sockets[r].from + Len(sockets[r].got)
  BY DEF Passed
<1>2. /\ sockets[s].from \in Nat /\ sockets[s].got \in Seq(Events)
      /\ k.from \in Nat /\ k.got \in Seq(Events) /\ published \in Seq(Events)
      /\ sockets'[s] = k /\ \A r \in Sockets : r # s => sockets'[r] = sockets[r]
  BY DEF StreamInv, SocketStates
<1>3. /\ Len(sockets[s].got) \in Nat /\ Len(k.got) \in Nat /\ Len(published) \in Nat
      /\ i \in 1..Len(published)
  <2>1. Len(sockets[s].got) \in Nat /\ Len(k.got) \in Nat /\ Len(published) \in Nat
    BY <1>2, Lengths
  <2>2. DOMAIN published = 1..Len(published)
    BY <1>2
  <2> QED BY <1>1, <2>1, <2>2
<1>4. k.at = "open" => i <= k.from + Len(k.got)
  <2>1. CASE sockets[s].at = "open"
             /\ sockets[s].from + Len(sockets[s].got) <= k.from + Len(k.got)
    <3>1. i <= sockets[s].from + Len(sockets[s].got)
      BY <1>1, <2>1
    <3> QED BY <1>2, <1>3, <2>1, <3>1
  <2>2. CASE Len(published) <= k.from + Len(k.got)
    <3>1. i \in Nat /\ i <= Len(published)
      BY <1>3
    <3> QED BY <1>2, <1>3, <2>2, <3>1
  <2> QED BY <2>1, <2>2
<1>5. ASSUME NEW r \in Sockets, sockets'[r].at = "open"
      PROVE  i <= sockets'[r].from + Len(sockets'[r].got)
  <2>1. CASE r = s
    BY <1>2, <1>4, <1>5, <2>1
  <2>2. CASE r # s
    BY <1>1, <1>2, <1>5, <2>2
  <2> QED BY <2>1, <2>2
<1>6. i \in DOMAIN published' /\ e = published'[i]
  BY <1>1
<1> QED BY <1>5, <1>6 DEF Passed

\* A step that shows nothing new.
LEMMA SameShown ==
    ASSUME PageInv, Elsewhere, page'.shown = page.shown, page'.seen = page.seen,
           page'.terminal = page.terminal,
           \A e \in ToSet(page.shown) : Passed(e) => Passed(e)'
    PROVE  PageShows'
<1>1. PageShows /\ Decisions' = Decisions /\ history' = history /\ task' = task
      /\ traced' = traced
  BY ElsewhereKeeps DEF PageInv, Elsewhere
<1>2. \A e \in ToSet(page'.shown) : ShownFrom(e)'
  <2> SUFFICES ASSUME NEW e \in ToSet(page.shown)
               PROVE  ShownFrom(e)'
    OBVIOUS
  <2>1. ShownFrom(e)
    BY <1>1 DEF PageShows
  <2> QED BY <1>1, <2>1 DEF ShownFrom
<1>3. OnlyOnce(page'.shown)
  BY <1>1 DEF PageShows
<1>4. "row" \in page'.terminal => task'.over /\ Decisions' \subseteq ToSet(page'.shown)
  BY <1>1 DEF PageShows
<1> QED BY <1>2, <1>3, <1>4 DEF PageShows

\* The server subscribes the socket: its place is the end of what is published.
LEMMA SubscribeKeepsPage ==
    ASSUME StreamInv, PageInv, NEW s \in Sockets, Subscribe(s)
    PROVE  PageInv'
<1> DEFINE k == sockets[s]
           d == [k EXCEPT !.at = "open", !.listed = TRUE, !.from = Len(published)]
<1>1. /\ k \in SocketStates /\ k.at = "opening" /\ Unopened(k)
      /\ published \in Seq(Events) /\ Len(published) \in Nat
  BY Lengths DEF StreamInv, Subscribe
<1>2. sockets' = [sockets EXCEPT ![s] = d] /\ Elsewhere /\ fetches' = fetches /\ page' = page
  BY DEF Subscribe, Elsewhere
<1>3. /\ d \in SocketStates /\ d.at = "open" /\ d.from = Len(published)
      /\ d.got = k.got /\ d.queue = k.queue
  BY <1>1 DEF SocketStates
<1>4. Len(d.got) = 0
  BY <1>1, <1>3 DEF Unopened
<1>5. Len(k.queue) <= QueueSize /\ page.socket = s /\ (page.waits => page.socket = 0)
  BY <1>1 DEF PageInv, OneSocket
<1> HIDE DEF d
<1>6. OneSocket'
  BY <1>2, <1>3, <1>5, OneSocketKeeps
<1>7. PageShows'
  <2>1. ASSUME NEW e, Passed(e)
        PROVE  Passed(e)'
    <3>1. Len(published) <= d.from + Len(d.got)
      BY <1>1, <1>3, <1>4
    <3> QED BY <1>2, <1>3, <2>1, <3>1, PassedKept DEF Elsewhere
  <2> QED BY <1>2, <2>1, SameShown
<1>8. FetchesAreStored'
  BY <1>2, AskingKeeps
<1>9. PageTypes'
  BY <1>2 DEF PageInv, PageTypes, Elsewhere
<1> QED BY <1>2, <1>6, <1>7, <1>8, <1>9, ElsewhereKeeps DEF PageInv

\* An event is shown unless its id was seen; one without an id is a new one because
\* the connection is past every one that is shown.
LEMMA DeliverKeepsPage ==
    ASSUME StreamInv, PageInv, NEW s \in Sockets, Deliver(s)
    PROVE  PageInv'
<1> DEFINE k == sockets[s]
           n == k.from + Len(k.got) + 1
<1>1. /\ k \in SocketStates /\ k.at = "open" /\ k.queue # <<>> /\ Sent(k, published)
      /\ published \in Seq(Events)
  BY DEF StreamInv, Deliver
<1>3. /\ k.queue \in Seq(Events) /\ k.got \in Seq(Events) /\ k.from \in Nat
  BY <1>1 DEF SocketStates
<1>h. PICK h \in Events : h = Head(k.queue)
  BY <1>1, <1>3, HeadTailProperties
<1> DEFINE d == [k EXCEPT !.queue = Tail(@), !.got = Append(@, h)]
<1>2. sockets' = [sockets EXCEPT ![s] = d] /\ Elsewhere /\ fetches' = fetches
      /\ page' = Received(h)
  BY <1>h DEF Deliver, Elsewhere
<1>4. /\ Tail(k.queue) \in Seq(Events)
      /\ Len(Tail(k.queue)) = Len(k.queue) - 1
  BY <1>1, <1>3, HeadTailProperties
<1>5. h = k.queue[1] /\ Len(k.queue) >= 1
  BY <1>1, <1>3, <1>h
<1>6. /\ Append(k.got, h) \in Seq(Events) /\ Len(Append(k.got, h)) = Len(k.got) + 1
  BY <1>3, <1>4, AppendProperties
<1>7. /\ d \in SocketStates /\ d.at = "open" /\ d.from = k.from /\ d.listed = k.listed
      /\ d.got = Append(k.got, h) /\ d.queue = Tail(k.queue)
  BY <1>1, <1>4, <1>6 DEF SocketStates
<1>8. Len(k.got) \in Nat /\ Len(k.queue) \in Nat /\ Len(published) \in Nat
  BY <1>1, <1>3, Lengths
<1>9. n \in DOMAIN published /\ n \in Nat /\ h = published[n]
  <2>1. /\ k.from + Len(k.got) + Len(k.queue) <= Len(published)
        /\ \A i \in 1..Len(k.queue) : k.queue[i] = published[k.from + Len(k.got) + i]
    BY <1>1 DEF Sent
  <2>2. 1 \in 1..Len(k.queue) /\ n \in 1..Len(published) /\ n \in Nat
    <3> DEFINE f == k.from
               g == Len(k.got)
               q == Len(k.queue)
               m == Len(published)
    <3>1. f \in Nat /\ g \in Nat /\ q \in Nat /\ m \in Nat /\ q >= 1 /\ f + g + q <= m
      BY <1>3, <1>5, <1>8, <2>1
    <3> HIDE DEF f, g, q, m
    <3>2. 1 \in 1..q /\ f + g + 1 \in 1..m /\ f + g + 1 \in Nat
      BY <3>1
    <3> QED BY <3>2 DEF f, g, q, m
  <2>3. DOMAIN published = 1..Len(published)
    BY <1>1
  <2> QED BY <1>5, <2>1, <2>2, <2>3
<1>10. /\ OneSocket /\ PageShows /\ PublishedInOrder /\ traced \in BOOLEAN
       /\ page \in PageStates
  BY DEF PageInv, PageTypes
<1>11. /\ page.socket = s /\ ~ page.waits /\ Len(k.queue) <= QueueSize
       /\ k.listed => k.at \in {"open", "cut"}
       /\ \A r \in Sockets : sockets[r].at = "open" => r = s
  <2>1. page.socket = s
    BY <1>1, <1>10 DEF OneSocket
  <2>2. s # 0
    BY DEF Sockets
  <2> QED BY <1>10, <2>1, <2>2 DEF OneSocket
<1>12. /\ page'.socket = page.socket /\ page'.waits = page.waits
       /\ page'.terminal = page.terminal /\ page.seen \subseteq page'.seen
       /\ \/ /\ h.span # 0 /\ h.span \in page.seen /\ page'.shown = page.shown
             /\ page'.seen = page.seen
          \/ /\ ~ (h.span # 0 /\ h.span \in page.seen)
             /\ page'.shown = Append(page.shown, h)
             /\ page'.seen = page.seen \cup ({h.span} \ {0})
  BY <1>2, <1>10 DEF Received, PageStates
<1>13. page' \in PageStates
  <2>1. page.shown \in Seq(Events) /\ page.seen \subseteq 1..(2 * Turns + 1)
    BY <1>10 DEF PageStates
  <2>2. {h.span} \ {0} \subseteq 1..(2 * Turns + 1)
    <3>1. h.span \in 0..(2 * Turns + 1) /\ Turns \in Nat
      BY <1>4, EventNumbers, TraceAssumption
    <3> QED BY <3>1
  <2>3. Append(page.shown, h) \in Seq(Events)
    BY <1>4, <2>1, AppendElements
  <2>4. page.seen \cup ({h.span} \ {0}) \in SUBSET (1..(2 * Turns + 1))
    BY <2>1, <2>2
  <2>5. page' = page \/ page' = [page EXCEPT !.shown = Append(page.shown, h),
                                             !.seen = page.seen \cup ({h.span} \ {0})]
    BY <1>2 DEF Received
  <2> QED BY <1>10, <2>3, <2>4, <2>5 DEF PageStates
<1>l. Len(Tail(k.queue)) <= QueueSize
  <2>1. QueueSize \in Nat
    BY TraceAssumption
  <2> QED BY <1>4, <1>8, <1>11, <2>1
<1>m. k.from + Len(k.got) <= k.from + (Len(k.got) + 1)
  BY <1>3, <1>8
<1>14. OneSocket'
  <2> HIDE DEF d
  <2>1. /\ d.at \in {"opening", "open"} <=> page'.socket = s
        /\ d.listed => d.at \in {"open", "cut"}
        /\ Len(d.queue) <= QueueSize
        /\ page'.waits => page'.socket = 0
        /\ \A r \in Sockets : r # s => (page.socket = r <=> page'.socket = r)
    BY <1>7, <1>11, <1>12, <1>l
  <2> QED BY <1>2, <1>7, <2>1, OneSocketKeeps
<1>15. ASSUME NEW e, Passed(e)
       PROVE  Passed(e)'
  <2> HIDE DEF d
  <2>1. sockets[s].from + Len(sockets[s].got) <= d.from + Len(d.got)
    BY <1>6, <1>7, <1>m
  <2>2. sockets[s].at = "open"
    BY <1>1
  <2> QED BY <1>2, <1>7, <1>15, <2>1, <2>2, PassedKept DEF Elsewhere
<1>16. PageShows'
  <2>1. CASE page'.shown = page.shown /\ page'.seen = page.seen
    BY <1>2, <1>12, <1>15, <2>1, SameShown
  <2>2. CASE /\ ~ (h.span # 0 /\ h.span \in page.seen)
             /\ page'.shown = Append(page.shown, h)
             /\ page'.seen = page.seen \cup ({h.span} \ {0})
    <3> HIDE DEF d
    <3>1. page.shown \in Seq(Events)
      BY <1>10 DEF PageStates
    <3>2. ToSet(page'.shown) = ToSet(page.shown) \cup {h}
      BY <1>4, <2>2, <3>1, AppendElements
    <3>3. ~ (h.span > Turns) /\ (h.span = 0 => ~ traced)
      BY <1>1, <1>9, <1>10, PublishedSpans
    <3>4. ASSUME NEW x \in ToSet(page.shown), x.span = h.span
          PROVE  h.span = 0 /\ x # h
      <4>1. ShownFrom(x)
        BY <1>10 DEF PageShows
      <4>2. h.span = 0
        BY <2>2, <3>4, <4>1 DEF ShownFrom
      <4>3. PICK i \in DOMAIN published :
              x = published[i] /\ i <= k.from + Len(k.got)
        BY <1>1, <3>4, <4>1, <4>2 DEF ShownFrom, Passed
      <4>4. i < n
        <5>1. DOMAIN published = 1..Len(published)
          BY <1>1
        <5> QED BY <1>3, <1>8, <4>3, <5>1
      <4>5. Place(x) < Place(h)
        BY <1>9, <1>10, <4>3, <4>4 DEF PublishedInOrder
      <4>6. Place(h) \in Nat
        BY <1>4, EventNumbers
      <4> QED BY <4>2, <4>5, <4>6
    <3>5. OnlyOnce(page'.shown)
      BY <1>4, <1>10, <2>2, <3>1, <3>4, AppendOnce DEF PageShows
    <3>6. Passed(h)'
      <4>1. n \in DOMAIN published' /\ h = published'[n]
        BY <1>2, <1>9 DEF Elsewhere
      <4>2. ASSUME NEW r \in Sockets, sockets'[r].at = "open"
            PROVE  n <= sockets'[r].from + Len(sockets'[r].got)
        <5>1. r = s
          <6>1. page'.socket = r
            BY <1>14, <4>2 DEF OneSocket
          <6> QED BY <1>11, <1>12, <6>1
        <5>2. sockets'[r] = d
          BY <1>2, <5>1 DEF StreamInv
        <5>3. n <= k.from + (Len(k.got) + 1)
          BY <1>3, <1>8
        <5>4. sockets'[r].from + Len(sockets'[r].got) = k.from + (Len(k.got) + 1)
          BY <1>6, <1>7, <5>2
        <5> QED BY <5>3, <5>4
      <4> QED BY <4>1, <4>2 DEF Passed
    <3>7. ShownFrom(h)'
      BY <1>2, <2>2, <3>3, <3>6 DEF ShownFrom, Elsewhere
    <3>8. ASSUME NEW x \in ToSet(page.shown)
          PROVE  ShownFrom(x)'
      <4>1. ShownFrom(x)
        BY <1>10 DEF PageShows
      <4> QED BY <1>2, <1>12, <1>15, <4>1 DEF ShownFrom, Elsewhere
    <3>9. "row" \in page'.terminal =>
            task'.over /\ Decisions' \subseteq ToSet(page'.shown)
      BY <1>2, <1>10, <1>12, <3>2, ElsewhereKeeps DEF PageShows, Elsewhere
    <3> QED BY <3>2, <3>5, <3>7, <3>8, <3>9 DEF PageShows
  <2> QED BY <1>12, <2>1, <2>2
<1>17. FetchesAreStored'
  BY <1>2, AskingKeeps
<1>18. PageTypes'
  BY <1>2, <1>13 DEF PageInv, PageTypes, Elsewhere
<1> QED BY <1>2, <1>14, <1>16, <1>17, <1>18, ElsewhereKeeps DEF PageInv

\* A connection is cut before or after it was subscribed.
LEMMA CutKeepsPage ==
    ASSUME StreamInv, PageInv, NEW s \in Sockets, Cut(s)
    PROVE  PageInv'
<1> DEFINE k == sockets[s]
           w == IF k.at = "open" THEN "cut" ELSE "closed"
           d == [k EXCEPT !.at = w]
<1>1. /\ k \in SocketStates /\ Unopened(k) /\ page.socket = s
      /\ page \in PageStates /\ OneSocket /\ s # 0
  BY DEF StreamInv, PageInv, PageTypes, Cut, Sockets
<1>2. /\ sockets' = [sockets EXCEPT ![s] = d] /\ Elsewhere /\ fetches' = fetches
      /\ page' = [page EXCEPT !.socket = 0, !.waits = (page.terminal = {})]
  BY DEF Cut, Elsewhere
<1>3. /\ d \in SocketStates /\ d.at = w /\ d.listed = k.listed /\ d.queue = k.queue
  BY <1>1 DEF SocketStates
<1>4. /\ k.at \in {"opening", "open"} /\ (k.listed => k.at \in {"open", "cut"})
      /\ Len(k.queue) <= QueueSize
  BY <1>1 DEF OneSocket
<1>5. /\ page' \in PageStates /\ page'.socket = 0
      /\ page'.shown = page.shown /\ page'.seen = page.seen
      /\ page'.terminal = page.terminal
  <2>1. 0 \in 0..MaxSockets
    BY TraceAssumption
  <2>2. (page.terminal = {}) \in BOOLEAN
    OBVIOUS
  <2> HIDE DEF w, d
  <2> QED BY <1>1, <1>2, <2>1, <2>2 DEF PageStates
<1>6. w \in {"cut", "closed"} /\ (w # "cut" => ~ k.listed)
  BY <1>1, <1>4 DEF Unopened
<1> HIDE DEF d, w
<1>7. OneSocket'
  <2>1. ~ (d.at \in {"opening", "open"}) /\ (d.listed => d.at \in {"open", "cut"})
        /\ Len(d.queue) <= QueueSize
    BY <1>3, <1>4, <1>6
  <2>2. \A r \in Sockets : r # s => (page.socket = r <=> page'.socket = r)
    BY <1>1, <1>5 DEF Sockets
  <2> QED BY <1>1, <1>2, <1>3, <1>5, <2>1, <2>2, OneSocketKeeps
<1>8. PageShows'
  <2>1. ASSUME NEW e, Passed(e)
        PROVE  Passed(e)'
    <3>1. d.at # "open"
      BY <1>3, <1>6
    <3> QED BY <1>2, <1>3, <2>1, <3>1, PassedKept DEF Elsewhere
  <2> QED BY <1>2, <1>5, <2>1, SameShown
<1>9. FetchesAreStored'
  BY <1>2, AskingKeeps
<1>10. PageTypes'
  BY <1>2, <1>5 DEF PageInv, PageTypes, Elsewhere
<1> QED BY <1>2, <1>7, <1>8, <1>9, <1>10, ElsewhereKeeps DEF PageInv

\* The server notices.
LEMMA UnsubscribeKeepsPage ==
    ASSUME StreamInv, PageInv, NEW s \in Sockets, Unsubscribe(s)
    PROVE  PageInv'
<1> DEFINE k == sockets[s]
           d == [NoSocket EXCEPT !.at = "closed"]
<1>1. k.at = "cut" /\ OneSocket
  BY DEF PageInv, Unsubscribe
<1>2. /\ sockets' = [sockets EXCEPT ![s] = d] /\ Elsewhere /\ fetches' = fetches
      /\ page' = page
  BY DEF Unsubscribe, Elsewhere
<1>3. /\ d \in SocketStates /\ d.queue = <<>> /\ ~ d.listed
  BY NoSocketIsFresh
<1>4. d.at = "closed"
  BY DEF NoSocket
<1> HIDE DEF d
<1>5. Len(d.queue) <= QueueSize
  <2>1. Len(d.queue) = 0
    BY <1>3
  <2> QED BY <2>1, TraceAssumption
<1>6. OneSocket'
  <2>1. ~ (page'.socket = s) /\ (page'.waits => page'.socket = 0)
    BY <1>1, <1>2 DEF OneSocket
  <2> QED BY <1>2, <1>3, <1>4, <1>5, <2>1, OneSocketKeeps
<1>7. PageShows'
  <2>1. ASSUME NEW e, Passed(e)
        PROVE  Passed(e)'
    <3>1. d.at # "open"
      BY <1>4
    <3> QED BY <1>2, <1>3, <2>1, <3>1, PassedKept DEF Elsewhere
  <2> QED BY <1>2, <2>1, SameShown
<1>8. FetchesAreStored'
  BY <1>2, AskingKeeps
<1>9. PageTypes'
  BY <1>2 DEF PageInv, PageTypes, Elsewhere
<1> QED BY <1>2, <1>6, <1>7, <1>8, <1>9, ElsewhereKeeps DEF PageInv

\* The timer of a page that waits.
LEMMA ReconnectKeepsPage ==
    ASSUME StreamInv, PageInv, NEW s \in Sockets, Reconnect(s)
    PROVE  PageInv'
<1> DEFINE k == sockets[s]
<1>1. /\ k \in SocketStates /\ Unopened(k) /\ k.at = "new" /\ OneSocket
      /\ page \in PageStates /\ page.waits /\ page.socket = 0
      /\ Len(k.queue) <= QueueSize
  BY DEF StreamInv, PageInv, PageTypes, OneSocket, Reconnect
<1>2. Elsewhere /\ fetches' = [fetches EXCEPT ![s].at = "asked"]
  BY DEF Reconnect, Elsewhere
<1>3. PICK w \in {"opening", "closed"} :
        /\ sockets' = [sockets EXCEPT ![s] = [k EXCEPT !.at = w]]
        /\ IF w = "opening" THEN page' = [page EXCEPT !.waits = FALSE, !.socket = s]
           ELSE page' = [page EXCEPT !.waits = FALSE]
  BY DEF Reconnect
<1> DEFINE d == [k EXCEPT !.at = w]
<1>4. /\ d \in SocketStates /\ d.at = w /\ d.listed = k.listed /\ d.queue = k.queue
  BY <1>1 DEF SocketStates
<1>5. /\ page' \in PageStates /\ ~ page'.waits
      /\ page'.socket = IF w = "opening" THEN s ELSE 0
      /\ page'.shown = page.shown /\ page'.seen = page.seen
      /\ page'.terminal = page.terminal
  <2>1. s \in 0..MaxSockets /\ FALSE \in BOOLEAN
    BY TraceAssumption DEF Sockets
  <2>2. CASE w = "opening"
    BY <1>1, <1>3, <2>1, <2>2 DEF PageStates
  <2>3. CASE w # "opening"
    BY <1>1, <1>3, <2>1, <2>3 DEF PageStates
  <2> QED BY <2>2, <2>3
<1>6. ~ k.listed
  BY <1>1 DEF Unopened
<1>s. sockets' = [sockets EXCEPT ![s] = d]
  BY <1>3
<1> HIDE DEF d
<1>7. OneSocket'
  <2>1. s # 0 /\ \A r \in Sockets : r # 0
    BY DEF Sockets
  <2>2. /\ d.at \in {"opening", "open"} <=> page'.socket = s
        /\ d.listed => d.at \in {"open", "cut"}
        /\ Len(d.queue) <= QueueSize
        /\ page'.waits => page'.socket = 0
        /\ \A r \in Sockets : r # s => (page.socket = r <=> page'.socket = r)
    BY <1>1, <1>4, <1>5, <1>6, <2>1
  <2> QED BY <1>s, <1>4, <2>2, OneSocketKeeps
<1>8. PageShows'
  <2>1. ASSUME NEW e, Passed(e)
        PROVE  Passed(e)'
    <3>1. d.at # "open"
      BY <1>4
    <3> QED BY <1>2, <1>s, <1>4, <2>1, <3>1, PassedKept DEF Elsewhere
  <2> QED BY <1>2, <1>5, <2>1, SameShown
<1>9. fetches' \in [Sockets -> FetchStates] /\ FetchesAreStored'
  BY <1>2, AskingKeeps
<1>10. PageTypes'
  BY <1>2, <1>5, <1>9 DEF PageInv, PageTypes, Elsewhere
<1> QED BY <1>2, <1>7, <1>8, <1>9, <1>10, ElsewhereKeeps DEF PageInv

-----------------------------------------------------------------------------
(* The answers                                                             *)

\* What a read of the store returns: the decisions, or everything else.
LEMMA StoredElements ==
    ASSUME history \in Seq(Events), HistoryInOrder
    PROVE  /\ Stored("decision") \in Seq(Events) /\ Stored("outcome") \in Seq(Events)
           /\ OnlyOnce(Stored("decision")) /\ OnlyOnce(Stored("outcome"))
           /\ ToSet(Stored("decision")) = Decisions
           /\ ToSet(Stored("outcome")) = {e \in ToSet(history) : e.type # "node_end"}
<1> DEFINE D == {i \in DOMAIN history : history[i].type = "node_end"}
           O == {i \in DOMAIN history : history[i].type # "node_end"}
<1>1. D \in SUBSET (1..Len(history)) /\ O \in SUBSET (1..Len(history))
  OBVIOUS
<1>2. Stored("decision") = Picked(history, D)
  <2>1. {i \in DOMAIN history : (history[i].type = "node_end") = ("decision" = "decision")} = D
    OBVIOUS
  <2> QED BY <2>1 DEF Stored
<1>3. Stored("outcome") = Picked(history, O)
  <2>1. {i \in DOMAIN history : (history[i].type = "node_end") = ("outcome" = "decision")} = O
    OBVIOUS
  <2> QED BY <2>1 DEF Stored
<1>4. {history[i] : i \in D} = Decisions
  BY DEF Decisions, ToSet
<1>5. {history[i] : i \in O} = {e \in ToSet(history) : e.type # "node_end"}
  BY DEF ToSet
<1> HIDE DEF D, O
<1>6. OnlyOnce(Picked(history, D)) /\ OnlyOnce(Picked(history, O))
  BY <1>1, HistoryIds, PickedOnce
<1>7. /\ Picked(history, D) \in Seq(Events) /\ Picked(history, O) \in Seq(Events)
      /\ ToSet(Picked(history, D)) = {history[i] : i \in D}
      /\ ToSet(Picked(history, O)) = {history[i] : i \in O}
  BY <1>1, PickedElements
<1> QED BY <1>2, <1>3, <1>4, <1>5, <1>6, <1>7

\* What is shown after an answer: what was, and what has an id that was not.
LEMMA MergedElements ==
    ASSUME NEW shown \in Seq(Events), NEW events \in Seq(Events), OnlyOnce(shown),
           OnlyOnce(events)
    PROVE  /\ Merged(shown, events) \in Seq(Events) /\ OnlyOnce(Merged(shown, events))
           /\ ToSet(Merged(shown, events)) =
                ToSet(shown) \cup {e \in ToSet(events) : e.span \notin Spans(shown)}
<1> DEFINE I == {i \in DOMAIN events : events[i].span \notin Spans(shown)}
           new == Picked(events, I)
<1>1. I \in SUBSET (1..Len(events)) /\ Merged(shown, events) = shown \o new
  BY DEF Merged
<1>2. {events[i] : i \in I} = {e \in ToSet(events) : e.span \notin Spans(shown)}
  BY DEF ToSet
<1> HIDE DEF I
<1>3. new \in Seq(Events) /\ OnlyOnce(new) /\ ToSet(new) = {events[i] : i \in I}
  BY <1>1, PickedElements, PickedOnce
<1> HIDE DEF new
<1>4. \A x \in ToSet(shown), y \in ToSet(new) : x.span # y.span
  BY <1>2, <1>3 DEF Spans
<1>5. shown \o new \in Seq(Events) /\ ToSet(shown \o new) = ToSet(shown) \cup ToSet(new)
  BY <1>3, ConcatElements
<1>6. OnlyOnce(shown \o new)
  BY <1>3, <1>4, ConcatOnce
<1> QED BY <1>1, <1>2, <1>3, <1>5, <1>6

\* A step that changes one fetch and nothing else, or the page.
LEMMA OneFetchKeeps ==
    ASSUME PageInv, Elsewhere, NEW s \in Sockets, NEW f \in FetchStates,
           fetches' = [fetches EXCEPT ![s] = f], FetchIsStored(f)
    PROVE  fetches' \in [Sockets -> FetchStates] /\ FetchesAreStored'
<1>1. fetches \in [Sockets -> FetchStates] /\ FetchesAreStored /\ Decisions' = Decisions
      /\ history' = history /\ task' = task
  BY ElsewhereKeeps DEF PageInv, PageTypes, Elsewhere
<1>2. ASSUME NEW r \in Sockets
      PROVE  FetchIsStored(fetches[r])'
  <2>1. fetches'[r] = f \/ fetches'[r] = fetches[r]
    BY <1>1
  <2>2. FetchIsStored(fetches[r])
    BY <1>1 DEF FetchesAreStored
  <2> QED BY <1>1, <2>1, <2>2 DEF FetchIsStored
<1> QED BY <1>1, <1>2 DEF FetchesAreStored

\* A fetch that was given up, or is done, holds nothing.
LEMMA SettledFetch ==
    LET f == [NoFetch EXCEPT !.at = "settled"] IN
      f \in FetchStates /\ FetchIsStored(f)
<1> DEFINE none == <<>>
           n == [at |-> "none", over |-> FALSE, events |-> none]
           f == [n EXCEPT !.at = "settled"]
<1>1. none \in Seq(Events) /\ ToSet(none) = {} /\ OnlyOnce(none)
  BY DEF ToSet, OnlyOnce
<1>2. NoFetch = n
  BY DEF NoFetch
<1> HIDE DEF none
<1>3. f \in FetchStates /\ f.at = "settled" /\ ~ f.over /\ f.events = none
  BY <1>1 DEF FetchStates
<1> HIDE DEF f
<1>4. FetchIsStored(f)
  BY <1>1, <1>3 DEF FetchIsStored
<1> QED BY <1>2, <1>3, <1>4 DEF f

\* The three reads of an answer, the row before the decisions.
LEMMA ReadTaskKeepsPage ==
    ASSUME StreamInv, PageInv, NEW s \in Sockets, ReadTask(s)
    PROVE  PageInv'
<1> DEFINE f == fetches[s]
<1>1. /\ f \in FetchStates /\ FetchIsStored(f) /\ history \in Seq(Events)
      /\ HistoryInOrder /\ task.over \in BOOLEAN
      /\ fetches \in [Sockets -> FetchStates]
  BY DEF StreamInv, PageInv, PageTypes, FetchesAreStored, TaskStates
<1>2. Elsewhere /\ page' = page /\ sockets' = sockets
  BY DEF ReadTask, Elsewhere
<1>3. \E g \in FetchStates : fetches' = [fetches EXCEPT ![s] = g] /\ FetchIsStored(g)
  <2>1. CASE /\ f.at = "asked"
             /\ fetches' = [fetches EXCEPT ![s].at = "row read", ![s].over = task.over]
    <3> DEFINE g == [f EXCEPT !.at = "row read", !.over = task.over]
    <3>1. /\ g \in FetchStates /\ g.at = "row read" /\ g.over = task.over
          /\ g.events = f.events /\ fetches' = [fetches EXCEPT ![s] = g]
      BY <1>1, <2>1 DEF FetchStates
    <3> HIDE DEF g
    <3>2. FetchIsStored(g)
      BY <1>1, <3>1 DEF FetchIsStored
    <3> QED BY <3>1, <3>2
  <2>2. CASE /\ f.at = "row read"
             /\ fetches' = [fetches EXCEPT ![s].at = "decisions read",
                                           ![s].events = Stored("decision")]
    <3> DEFINE e == Stored("decision")
               g == [f EXCEPT !.at = "decisions read", !.events = e]
    <3>1. e \in Seq(Events) /\ OnlyOnce(e) /\ ToSet(e) = Decisions
      BY <1>1, StoredElements
    <3>2. fetches' = [fetches EXCEPT ![s] = g]
      BY <1>1, <2>2
    <3> HIDE DEF e
    <3>3. /\ g \in FetchStates /\ g.at = "decisions read" /\ g.over = f.over /\ g.events = e
      BY <1>1, <3>1 DEF FetchStates
    <3> HIDE DEF g
    <3>4. FetchIsStored(g)
      BY <1>1, <3>1, <3>3 DEF FetchIsStored, Decisions
    <3> QED BY <3>2, <3>3, <3>4
  <2>3. CASE /\ f.at = "decisions read"
             /\ fetches' = [fetches EXCEPT ![s].at = "answered",
                                           ![s].events = @ \o Stored("outcome")]
    <3> DEFINE o == Stored("outcome")
               e == f.events \o o
               g == [f EXCEPT !.at = "answered", !.events = e]
    <3>1. /\ o \in Seq(Events) /\ OnlyOnce(o)
          /\ ToSet(o) = {x \in ToSet(history) : x.type # "node_end"}
      BY <1>1, StoredElements
    <3>2. fetches' = [fetches EXCEPT ![s] = g]
      BY <1>1, <2>3
    <3> HIDE DEF o
    <3>3. /\ f.events \in Seq(Events) /\ OnlyOnce(f.events)
          /\ ToSet(f.events) \subseteq ToSet(history)
          /\ \A x \in ToSet(f.events) : x.type = "node_end"
      BY <1>1, <2>3 DEF FetchStates, FetchIsStored
    <3>4. \A x \in ToSet(f.events), y \in ToSet(o) : x.span # y.span
      <4>1. \A x, y \in ToSet(history) : x.span = y.span => x = y
        BY <1>1, HistoryIds
      <4> QED BY <3>1, <3>3, <4>1
    <3>5. e \in Seq(Events) /\ ToSet(e) = ToSet(f.events) \cup ToSet(o)
      BY <3>1, <3>3, ConcatElements
    <3>6. OnlyOnce(e)
      BY <3>1, <3>3, <3>4, ConcatOnce
    <3> HIDE DEF e
    <3>7. /\ g \in FetchStates /\ g.at = "answered" /\ g.over = f.over /\ g.events = e
      BY <1>1, <3>5 DEF FetchStates
    <3> HIDE DEF g
    <3>8. FetchIsStored(g)
      BY <1>1, <2>3, <3>1, <3>3, <3>5, <3>6, <3>7 DEF FetchIsStored
    <3> QED BY <3>2, <3>7, <3>8
  <2> QED BY <2>1, <2>2, <2>3 DEF ReadTask
<1>4. fetches' \in [Sockets -> FetchStates] /\ FetchesAreStored'
  BY <1>2, <1>3, OneFetchKeeps
<1>5. OneSocket'
  BY <1>2 DEF PageInv, OneSocket
<1>6. PageShows'
  <2>1. \A e : Passed(e) => Passed(e)'
    BY <1>2 DEF Passed, Elsewhere
  <2> QED BY <1>2, <2>1, SameShown
<1>7. PageTypes'
  BY <1>2, <1>4 DEF PageInv, PageTypes, Elsewhere
<1> QED BY <1>2, <1>4, <1>5, <1>6, <1>7, ElsewhereKeeps DEF PageInv

\* A request that fails.
LEMMA FetchFailsKeepsPage ==
    ASSUME PageInv, NEW s \in Sockets, FetchFails(s)
    PROVE  PageInv'
<1>1. Elsewhere /\ page' = page /\ sockets' = sockets
      /\ fetches' = [fetches EXCEPT ![s] = [NoFetch EXCEPT !.at = "settled"]]
  BY DEF FetchFails, Elsewhere
<1>2. fetches' \in [Sockets -> FetchStates] /\ FetchesAreStored'
  BY <1>1, SettledFetch, OneFetchKeeps
<1>3. OneSocket'
  BY <1>1 DEF PageInv, OneSocket
<1>4. PageShows'
  <2>1. \A e : Passed(e) => Passed(e)'
    BY <1>1 DEF Passed, Elsewhere
  <2> QED BY <1>1, <2>1, SameShown
<1>5. PageTypes'
  BY <1>1, <1>2 DEF PageInv, PageTypes, Elsewhere
<1> QED BY <1>1, <1>2, <1>3, <1>4, <1>5, ElsewhereKeeps DEF PageInv

\* The merge: what is stored and not shown is added, and an answer that says the
\* task is over brings every decision that is not shown already.
LEMMA BackfillKeepsPage ==
    ASSUME StreamInv, PageInv, NEW s \in Sockets, Backfill(s)
    PROVE  PageInv'
<1> DEFINE f == fetches[s]
           merged == Merged(page.shown, f.events)
           seen == IF merged = page.shown THEN page.seen
                   ELSE page.seen \cup (Spans(merged) \ {0})
           terminal == page.terminal \cup {"row" : o \in {f.over} \ {FALSE}}
                       \cup {e.type : e \in {Completed} \cap ToSet(f.events)}
<1>1. /\ f \in FetchStates /\ FetchIsStored(f) /\ history \in Seq(Events)
      /\ HistoryInOrder /\ page \in PageStates /\ PageShows /\ f.at = "answered"
  BY DEF PageInv, PageTypes, FetchesAreStored, Backfill
<1>2. Elsewhere /\ sockets' = sockets
      /\ fetches' = [fetches EXCEPT ![s] = [NoFetch EXCEPT !.at = "settled"]]
      /\ page' = [page EXCEPT !.shown = merged, !.seen = seen, !.terminal = terminal]
  BY DEF Backfill, Elsewhere
<1>3. /\ page.shown \in Seq(Events) /\ f.events \in Seq(Events)
      /\ OnlyOnce(page.shown) /\ OnlyOnce(f.events)
      /\ ToSet(f.events) \subseteq ToSet(history)
      /\ page.seen \subseteq 1..(2 * Turns + 1) /\ page.terminal \subseteq Endings
  BY <1>1 DEF FetchStates, PageStates, FetchIsStored, PageShows
<1>4. /\ merged \in Seq(Events) /\ OnlyOnce(merged)
      /\ ToSet(merged) =
           ToSet(page.shown) \cup {e \in ToSet(f.events) : e.span \notin Spans(page.shown)}
  BY <1>3, MergedElements
<1> HIDE DEF merged
<1>5. seen \subseteq 1..(2 * Turns + 1)
  <2>1. \A e \in ToSet(merged) : e \in Events
    BY <1>4 DEF ToSet
  <2>2. ASSUME NEW e \in ToSet(merged), e.span # 0
        PROVE  e.span \in 1..(2 * Turns + 1)
    <3>1. e.span \in 0..(2 * Turns + 1) /\ Turns \in Nat
      BY <2>1, EventNumbers, TraceAssumption
    <3> QED BY <2>2, <3>1
  <2> QED BY <1>3, <2>2 DEF Spans
<1>6. \A e \in ToSet(merged) : e.span # 0 => e.span \in seen
  <2>1. CASE merged = page.shown
    BY <1>1, <2>1 DEF PageShows, ShownFrom
  <2>2. CASE merged # page.shown
    BY <2>2 DEF Spans
  <2> QED BY <2>1, <2>2
<1>7. page.seen \subseteq seen
  OBVIOUS
<1>8. /\ terminal \subseteq Endings
      /\ "row" \in terminal => "row" \in page.terminal \/ f.over
  <2>1. \A x \in terminal : x \in page.terminal \/ (x = "row" /\ f.over # FALSE)
                            \/ x = "task_complete"
    <3>1. Completed.type = "task_complete"
      BY DEF Completed
    <3>2. \A x \in {e.type : e \in {Completed} \cap ToSet(f.events)} : x = "task_complete"
      BY <3>1
    <3>3. \A x \in {"row" : o \in {f.over} \ {FALSE}} : x = "row" /\ f.over # FALSE
      OBVIOUS
    <3> QED BY <3>2, <3>3
  <2>2. f.over \in BOOLEAN
    BY <1>1 DEF FetchStates
  <2> HIDE DEF terminal
  <2> QED BY <1>3, <2>1, <2>2 DEF Endings
<1> HIDE DEF seen, terminal
<1>9. /\ page' \in PageStates /\ page'.shown = merged /\ page'.seen = seen
      /\ page'.terminal = terminal /\ page'.socket = page.socket /\ page'.waits = page.waits
  BY <1>1, <1>2, <1>4, <1>5, <1>8 DEF PageStates
<1>10. fetches' \in [Sockets -> FetchStates] /\ FetchesAreStored'
  BY <1>2, SettledFetch, OneFetchKeeps
<1>11. OneSocket'
  BY <1>2, <1>9 DEF PageInv, OneSocket
<1>12. ASSUME NEW e \in ToSet(merged)
       PROVE  ShownFrom(e)'
  <2>1. CASE e \in ToSet(page.shown)
    <3>1. ShownFrom(e)
      BY <1>1, <2>1 DEF PageShows
    <3>2. Passed(e) => Passed(e)'
      BY <1>2 DEF Passed, Elsewhere
    <3> QED BY <1>2, <1>7, <1>9, <3>1, <3>2 DEF ShownFrom, Elsewhere
  <2>2. CASE e \in ToSet(f.events)
    <3>1. e \in ToSet(history) /\ e.span # 0
      BY <1>1, <1>3, <2>2, HistoryIds
    <3> QED BY <1>2, <1>6, <1>9, <3>1 DEF ShownFrom, Elsewhere
  <2> QED BY <1>4, <2>1, <2>2
<1>13. ASSUME f.over
       PROVE  task.over /\ Decisions \subseteq ToSet(merged)
  <2>1. task.over /\ Decisions \subseteq ToSet(f.events)
    BY <1>1, <1>13 DEF FetchIsStored
  <2>2. ASSUME NEW d \in Decisions
        PROVE  d \in ToSet(merged)
    <3>1. d \in ToSet(f.events) /\ d \in ToSet(history) /\ d.span > Turns
      BY <1>1, <2>1, HistoryIds DEF Decisions
    <3>2. CASE d.span \notin Spans(page.shown)
      BY <1>4, <3>1, <3>2
    <3>3. CASE d.span \in Spans(page.shown)
      <4>1. PICK y \in ToSet(page.shown) : y.span = d.span
        BY <3>3 DEF Spans
      <4>2. y \in ToSet(history)
        BY <1>1, <3>1, <4>1 DEF PageShows, ShownFrom
      <4>3. y = d
        BY <1>1, <3>1, <4>1, <4>2, HistoryIds
      <4> QED BY <1>4, <4>1, <4>3
    <3> QED BY <3>2, <3>3
  <2> QED BY <2>1, <2>2
<1>14. "row" \in page'.terminal => task'.over /\ Decisions' \subseteq ToSet(page'.shown)
  <2>1. ToSet(page.shown) \subseteq ToSet(merged)
    BY <1>4
  <2>2. "row" \in terminal => task.over /\ Decisions \subseteq ToSet(merged)
    BY <1>1, <1>8, <1>13, <2>1 DEF PageShows
  <2>3. Decisions' = Decisions /\ task' = task
    BY <1>2, ElsewhereKeeps DEF Elsewhere
  <2> QED BY <1>9, <2>2, <2>3
<1>15. PageShows'
  BY <1>4, <1>9, <1>12, <1>14 DEF PageShows
<1>16. PageTypes'
  BY <1>2, <1>9, <1>10 DEF PageInv, PageTypes, Elsewhere
<1> QED BY <1>2, <1>10, <1>11, <1>15, <1>16, ElsewhereKeeps DEF PageInv

\* The invariant of the page.
LEMMA PageInvInit == Init => PageInv
<1> SUFFICES ASSUME Init
             PROVE  PageInv
  OBVIOUS
<1> DEFINE none == <<>>
<1>n. /\ none \in Seq(Events) /\ ToSet(none) = {} /\ DOMAIN none = {} /\ OnlyOnce(none)
      /\ Len(none) = 0
  BY DEF ToSet, OnlyOnce
<1>1. /\ traced \in BOOLEAN /\ history = none /\ published = none
      /\ task = [turn |-> 1, next |-> "start", over |-> FALSE]
      /\ page = [shown |-> none, seen |-> {}, terminal |-> {}, socket |-> 1, waits |-> FALSE]
      /\ sockets = [s \in Sockets |->
           IF s = 1 THEN [NoSocket EXCEPT !.at = "opening"] ELSE NoSocket]
      /\ fetches = [s \in Sockets |->
           IF s = 1 THEN [NoFetch EXCEPT !.at = "asked"] ELSE NoFetch]
  BY DEF Init
<1>2. NoFetch = [at |-> "none", over |-> FALSE, events |-> none]
  BY DEF NoFetch
<1>3. NoSocket = [at |-> "new", listed |-> FALSE, queue |-> none, from |-> 0, got |-> none]
  BY DEF NoSocket
<1> HIDE DEF none
<1>4. ASSUME NEW s \in Sockets
      PROVE  /\ fetches[s] \in FetchStates /\ ~ fetches[s].over
             /\ fetches[s].events = none /\ fetches[s].at # "decisions read"
  <2>1. CASE s = 1
    BY <1>1, <1>2, <1>n, <2>1 DEF FetchStates
  <2>2. CASE s # 1
    BY <1>1, <1>2, <1>n, <2>2 DEF FetchStates
  <2> QED BY <2>1, <2>2
<1>5. PageTypes
  <2>1. fetches \in [Sockets -> FetchStates]
    BY <1>1, <1>4
  <2>2. page \in PageStates
    <3>1. 1 \in 0..MaxSockets
      BY TraceAssumption
    <3> QED BY <1>1, <1>n, <3>1 DEF PageStates
  <2> QED BY <1>1, <1>n, <2>1, <2>2 DEF PageTypes
<1>6. PublishedInOrder
  BY <1>1, <1>n DEF PublishedInOrder
<1>7. HistoryInOrder
  BY <1>1, <1>n DEF HistoryInOrder
<1>8. FetchesAreStored
  BY <1>4, <1>n DEF FetchesAreStored, FetchIsStored
<1>9. OneSocket
  <2>1. QueueSize \in Nat
    BY TraceAssumption
  <2>2. page.socket = 1 /\ ~ page.waits
    BY <1>1
  <2>3. ASSUME NEW s \in Sockets
        PROVE  /\ sockets[s].at \in {"opening", "open"} <=> page.socket = s
               /\ ~ sockets[s].listed /\ sockets[s].queue = none
    <3>1. CASE s = 1
      BY <1>1, <1>3, <2>2, <3>1
    <3>2. CASE s # 1
      BY <1>1, <1>3, <2>2, <3>2
    <3> QED BY <3>1, <3>2
  <2>4. 0 <= QueueSize
    BY <2>1
  <2> QED BY <1>n, <2>2, <2>3, <2>4 DEF OneSocket
<1>10. PageShows
  BY <1>1, <1>n DEF PageShows
<1> QED BY <1>5, <1>6, <1>7, <1>8, <1>9, <1>10 DEF PageInv

\* Every step keeps the invariant of the page.
LEMMA PageInvStep == StreamInv /\ PageInv /\ [Next]_vars => PageInv'
<1> SUFFICES ASSUME StreamInv, PageInv, [Next]_vars
             PROVE  PageInv'
  OBVIOUS
<1>1. StreamInv'
  BY StreamInvStep
<1>2. CASE StartNode \/ Decide \/ EndNode \/ FailNode \/ Finish
  <2>1. TaskMoves
    BY <1>2, TaskStepsMove DEF PageInv
  <2> QED BY <1>1, <2>1, TaskMovesKeep
<1>3. CASE UNCHANGED vars
  BY <1>3 DEF vars, PageInv, PageTypes, PublishedInOrder, NextPlace, LiveSpan,
     HistoryInOrder, NextSpan, FetchesAreStored, FetchIsStored, Decisions, OneSocket,
     PageShows, ShownFrom, Passed
<1> QED BY <1>2, <1>3, SubscribeKeepsPage, DeliverKeepsPage, CutKeepsPage,
           UnsubscribeKeepsPage, ReconnectKeepsPage, ReadTaskKeepsPage,
           BackfillKeepsPage, FetchFailsKeepsPage DEF Next

\* The store, the answers and the page agree in every reachable state.
THEOREM PageInvariant == Spec => [](StreamInv /\ PageInv)
BY StreamInvInit, StreamInvStep, PageInvInit, PageInvStep, PTL DEF Spec

\* Everything of a page's stream is of its type, and no queue is over its bound.
THEOREM StreamsAreTyped == Spec => []TraceTypeOK
<1>1. ASSUME StreamInv, PageInv PROVE TraceTypeOK
  <2>1. /\ traced \in BOOLEAN /\ history \in Seq(Events) /\ published \in Seq(Events)
        /\ task \in TaskStates
    BY <1>1 DEF PageInv, PageTypes, StreamInv
  <2>2. ASSUME NEW s \in Sockets
        PROVE  /\ sockets[s].at \in {"new", "opening", "open", "cut", "closed"}
               /\ sockets[s].listed => sockets[s].at \in {"open", "cut"}
               /\ sockets[s].queue \in Seq(Events) /\ Len(sockets[s].queue) <= QueueSize
               /\ fetches[s].at \in {"none", "asked", "row read", "decisions read",
                                    "answered", "settled"}
    <3>1. sockets[s] \in SocketStates /\ fetches[s] \in FetchStates
      BY <1>1 DEF PageInv, PageTypes, StreamInv
    <3>2. /\ sockets[s].listed => sockets[s].at \in {"open", "cut"}
          /\ Len(sockets[s].queue) <= QueueSize
      BY <1>1 DEF PageInv, OneSocket
    <3>3. sockets[s].at \in {"new", "opening", "open", "cut", "closed"}
          /\ sockets[s].queue \in Seq(Events)
      BY <3>1 DEF SocketStates
    <3>4. fetches[s].at \in {"none", "asked", "row read", "decisions read", "answered",
                             "settled"}
      BY <3>1 DEF FetchStates
    <3> QED BY <3>2, <3>3, <3>4
  <2>3. /\ page.shown \in Seq(Events) /\ page.seen \subseteq 1..(2 * Turns + 1)
        /\ page.socket \in 0..MaxSockets /\ page.waits \in BOOLEAN
        /\ page.terminal \subseteq Endings
    BY <1>1 DEF PageInv, PageTypes, PageStates
  <2> QED BY <2>1, <2>2, <2>3 DEF TraceTypeOK, TaskStates
<1> QED BY <1>1, PageInvariant, PTL

\* A page shows no event twice and, when spans have ids, no span twice: whatever
\* comes both over a socket and with an answer, and however often it reconnects.
THEOREM EventsAreShownOnce == Spec => []ShownOnce
<1>1. ASSUME PageInv PROVE ShownOnce
  <2> SUFFICES ASSUME NEW i \in DOMAIN page.shown, NEW j \in DOMAIN page.shown, i # j
               PROVE  /\ page.shown[i] # page.shown[j]
                      /\ traced => page.shown[i].span # page.shown[j].span
    BY DEF ShownOnce
  <2>1. page.shown[i].span = page.shown[j].span =>
           page.shown[i].span = 0 /\ page.shown[i] # page.shown[j]
    BY <1>1 DEF PageInv, PageShows, OnlyOnce
  <2>2. ShownFrom(page.shown[i])
    BY <1>1 DEF PageInv, PageShows, ToSet
  <2>3. page.shown[i].span = 0 => ~ traced
    BY <2>2 DEF ShownFrom
  <2> QED BY <2>1, <2>3
<1> QED BY <1>1, PageInvariant, PTL

\* A page that was told by the row that the task is over shows every decision of
\* the task, wherever its sockets were cut and whatever order answers came in.
THEOREM StoppedPagesAreComplete == Spec => []StoppedPageShowsDecisions
<1>1. ASSUME PageInv PROVE StoppedPageShowsDecisions
  BY <1>1 DEF PageInv, PageShows, Decisions, StoppedPageShowsDecisions
<1> QED BY <1>1, PageInvariant, PTL

=============================================================================
