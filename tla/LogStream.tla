------------------------------ MODULE LogStream ------------------------------
(***************************************************************************)
(* One request for an app's logs: LogHandler.HandleGetLogs                 *)
(* (apiserver/handler/logs.go), which writes entries to the client, and    *)
(* the goroutine of K8sLogStreamer.StreamLogs                              *)
(* (apiserver/adapter/adapter.go), which reads one pod's log after the     *)
(* other.  A channel of fixed capacity joins them; the request's context   *)
(* is cancelled when the client goes away.                                 *)
(*                                                                         *)
(* The channel is kept as the sequence of everything sent to it and the    *)
(* number of entries received; what lies between is in the channel.        *)
(***************************************************************************)
EXTENDS Naturals, Sequences

CONSTANTS
  Pods,       \* pods that may carry the app's label
  System,     \* the source of entries that no pod wrote
  NoPod,
  Capacity,   \* of the channel (64 in the code)
  TailLines,  \* the client's tail parameter (100 by default)
  MaxLines,   \* bound on the lines that a pod writes
  MaxFaults   \* bound on failing calls and broken connections

ASSUME BoundsAssumption ==
  /\ Capacity \in Nat \ {0} /\ TailLines \in Nat \ {0}
  /\ MaxLines \in Nat /\ MaxFaults \in Nat

ASSUME NoneAssumption == System \notin Pods /\ NoPod \notin Pods

Line(p, n) == [source |-> p, line |-> n]
Notice(p) == [source |-> System, about |-> p]

LogEntry == [source : Pods, line : 1 .. MaxLines]
              \cup [source : {System}, about : Pods \cup {NoPod}]

VARIABLES
  pod,        \* pod[p]: its life, and how many lines it has written
  follow,     \* the follow parameter
  handler,    \* where HandleGetLogs is
  cancelled,  \* r.Context() is done
  producer,   \* the goroutine: where it is, and its local variables
  sent,       \* everything sent to the channel
  received,   \* how many entries the handler has received
  listed,     \* history: the pods that were found
  first, last,\* history: the lines of a pod that its stream stands for
  cut,        \* history: pods whose log was given up
  faults

stream == <<producer, sent, listed, first, last, cut>>
vars == <<pod, follow, handler, cancelled, stream, received, faults>>

PodState == [life : {"unborn", "running", "ended", "removed"}, lines : 0 .. MaxLines]

Waiting == {"resolve", "list"}
Over == {"done", "left", "refused"}

\* pod: whose log is being read; todo: the pods after it; next: the next line of
\* its log; upto: how long the log was when it was opened.
Producer == [step : {"none", "open", "report", "scan", "send", "notice",
                     "closing", "ended"},
             pod : Pods \cup {NoPod}, todo : SUBSET Pods,
             next : 1 .. MaxLines + 1, upto : 0 .. MaxLines]

NotStarted == [step |-> "none", pod |-> NoPod, todo |-> {}, next |-> 1, upto |-> 0]

Init ==
  /\ pod \in [Pods -> {s \in PodState : s.life # "removed"
                                        /\ (s.life = "unborn" => s.lines = 0)}]
  /\ follow \in BOOLEAN
  /\ handler = "resolve" /\ cancelled = FALSE
  /\ producer = NotStarted
  /\ sent = <<>> /\ received = 0
  /\ listed = {} /\ cut = {}
  /\ first = [p \in Pods |-> 0] /\ last = first
  /\ faults = 0

Closed == producer.step = "ended"
Full == Len(sent) - received >= Capacity
Room == ~Full

Fault == faults < MaxFaults /\ faults' = faults + 1
NoFault == UNCHANGED faults

\* A call fails for the reason given, or for one that is not modelled.
Fails(reason) == (reason /\ NoFault) \/ Fault

-----------------------------------------------------------------------------
(* The handler *)

\* AppResolverAdapter.ResolveApp: the app's row and its tenant's, either of
\* which may be missing.
Resolve ==
  /\ handler = "resolve"
  /\ handler' \in {"list", "refused"}
  /\ UNCHANGED <<pod, follow, cancelled, stream, received, faults>>

Existing == {p \in Pods : pod[p].life \in {"running", "ended"}}

\* StreamLogs lists the pods once; those that start later are not streamed.
List ==
  /\ handler = "list" /\ ~cancelled
  /\ handler' = "reading"
  /\ listed' = Existing
  /\ \/ /\ Existing = {}
        /\ producer' = [NotStarted EXCEPT !.step = "notice"]
     \/ \E p \in Existing :
          producer' = [NotStarted EXCEPT !.step = "open", !.pod = p,
                                         !.todo = Existing \ {p}]
  /\ UNCHANGED <<pod, follow, cancelled, sent, received, first, last, cut, faults>>

\* The call fails, or the context ends it.
ListFails ==
  /\ handler = "list"
  /\ handler' = "refused"
  /\ Fails(cancelled)
  /\ UNCHANGED <<pod, follow, cancelled, stream, received>>

\* DevLogStreamer, when the server has no cluster: one message, channel closed.
ListWithoutCluster ==
  /\ handler = "list"
  /\ handler' = "reading"
  /\ sent' = <<Notice(NoPod)>>
  /\ producer' = [NotStarted EXCEPT !.step = "ended"]
  /\ UNCHANGED <<pod, follow, cancelled, received, listed, first, last, cut, faults>>

\* One turn of the select loop that finds an entry: it is written and flushed.
Receive ==
  /\ handler = "reading" /\ received < Len(sent)
  /\ received' = received + 1
  /\ UNCHANGED <<pod, follow, handler, cancelled, stream, faults>>

\* The channel is closed and empty: the event "done" is written.
Finish ==
  /\ handler = "reading" /\ Closed /\ received = Len(sent)
  /\ handler' = "done"
  /\ UNCHANGED <<pod, follow, cancelled, stream, received, faults>>

Leave ==
  /\ handler = "reading" /\ cancelled
  /\ handler' = "left"
  /\ UNCHANGED <<pod, follow, cancelled, stream, received, faults>>

-----------------------------------------------------------------------------
(* The goroutine.  p is the pod whose log it is at. *)

\* for _, pod := range pods.Items: the list's order does not depend on the logs.
NextPod ==
  \/ /\ producer.todo = {}
     /\ producer' = [NotStarted EXCEPT !.step = "closing"]
  \/ \E q \in producer.todo :
       producer' = [NotStarted EXCEPT !.step = "open", !.pod = q,
                                      !.todo = producer.todo \ {q}]

\* return: the deferred close follows.
Return ==
  /\ producer' = [NotStarted EXCEPT !.step = "closing"]
  /\ cut' = cut \cup producer.todo \cup {producer.pod}

\* The first line shown of a log of n lines.
FirstLine(n) == IF n > TailLines THEN n - TailLines + 1 ELSE 1

Open(p) ==
  /\ producer.step = "open" /\ producer.pod = p
  /\ ~cancelled /\ pod[p].life # "removed"
  /\ producer' = [producer EXCEPT !.step = "scan", !.upto = pod[p].lines,
                                  !.next = FirstLine(pod[p].lines)]
  /\ first' = [first EXCEPT ![p] = FirstLine(pod[p].lines)]
  /\ UNCHANGED <<pod, follow, handler, cancelled, sent, received, listed, last,
                 cut, faults>>

\* A pod that cannot be streamed ends the loop.
MistakeOpenFails(p) ==
  /\ producer.step = "open" /\ producer.pod = p
  /\ Fails(cancelled \/ pod[p].life = "removed")
  /\ producer' = [producer EXCEPT !.step = "report", !.todo = {}]
  /\ UNCHANGED <<pod, follow, handler, cancelled, sent, received, listed, first,
                 last, cut>>

OpenFails(p) ==
  /\ producer.step = "open" /\ producer.pod = p
  /\ Fails(cancelled \/ pod[p].life = "removed")
  /\ producer' = [producer EXCEPT !.step = "report"]
  /\ UNCHANGED <<pod, follow, handler, cancelled, sent, received, listed, first,
                 last, cut>>

\* A send that does not wait for room.
MistakeReport(p) ==
  /\ producer.step = "report" /\ producer.pod = p
  /\ sent' = Append(sent, Notice(p))
  /\ NextPod
  /\ UNCHANGED <<pod, follow, handler, cancelled, received, listed, first, last,
                 cut, faults>>

\* This send has no alternative: it waits for room, whatever the context says.
Report(p) ==
  /\ producer.step = "report" /\ producer.pod = p
  /\ Room
  /\ sent' = Append(sent, Notice(p))
  /\ NextPod
  /\ UNCHANGED <<pod, follow, handler, cancelled, received, listed, first, last,
                 cut, faults>>

\* Where the stream of p ends, as far as is known.
Limit(p) == IF follow THEN pod[p].lines ELSE producer.upto

Scan(p) ==
  /\ producer.step = "scan" /\ producer.pod = p
  /\ producer.next <= Limit(p)
  /\ producer' = [producer EXCEPT !.step = "send"]
  /\ UNCHANGED <<pod, follow, handler, cancelled, sent, received, listed, first,
                 last, cut, faults>>

EndOfLog(p) == producer.next > Limit(p) /\ (follow => pod[p].life # "running")

\* scanner.Scan returns false at the end of the log ...
ScanEnds(p) ==
  /\ producer.step = "scan" /\ producer.pod = p
  /\ EndOfLog(p)
  /\ last' = [last EXCEPT ![p] = Limit(p)]
  /\ NextPod
  /\ UNCHANGED <<pod, follow, handler, cancelled, sent, received, listed, first,
                 cut, faults>>

\* A stream that broke is opened again.
MistakeScanBreaks(p) ==
  /\ producer.step = "scan" /\ producer.pod = p
  /\ Fails(cancelled \/ pod[p].life = "removed")
  /\ cut' = cut \cup {p}
  /\ producer' = [producer EXCEPT !.step = "open"]
  /\ UNCHANGED <<pod, follow, handler, cancelled, sent, received, listed, first,
                 last>>

\* ... and likewise when the stream ends early: the context is cancelled, the
\* pod is removed, the connection breaks.  Nobody asks for scanner.Err.
ScanBreaks(p) ==
  /\ producer.step = "scan" /\ producer.pod = p
  /\ Fails(cancelled \/ pod[p].life = "removed")
  /\ cut' = cut \cup {p}
  /\ NextPod
  /\ UNCHANGED <<pod, follow, handler, cancelled, sent, received, listed, first,
                 last>>

\* An entry that finds no room is dropped.
MistakeSend(p) ==
  /\ producer.step = "send" /\ producer.pod = p
  /\ sent' = IF Full THEN sent ELSE Append(sent, Line(p, producer.next))
  /\ producer' = [producer EXCEPT !.step = "scan", !.next = @ + 1]
  /\ UNCHANGED <<pod, follow, handler, cancelled, received, listed, first, last,
                 cut, faults>>

Send(p) ==
  /\ producer.step = "send" /\ producer.pod = p
  /\ Room
  /\ sent' = Append(sent, Line(p, producer.next))
  /\ producer' = [producer EXCEPT !.step = "scan", !.next = @ + 1]
  /\ UNCHANGED <<pod, follow, handler, cancelled, received, listed, first, last,
                 cut, faults>>

\* The context is asked only when an entry can be sent.
MistakeSendCancelled(p) ==
  /\ producer.step = "send" /\ producer.pod = p
  /\ cancelled /\ Room
  /\ Return
  /\ UNCHANGED <<pod, follow, handler, cancelled, sent, received, listed, first,
                 last, faults>>

SendCancelled(p) ==
  /\ producer.step = "send" /\ producer.pod = p
  /\ cancelled
  /\ Return
  /\ UNCHANGED <<pod, follow, handler, cancelled, sent, received, listed, first,
                 last, faults>>

\* "no running pods found": the channel is new, there is room.
SendNotice ==
  /\ producer.step = "notice"
  /\ Room
  /\ sent' = Append(sent, Notice(NoPod))
  /\ producer' = [producer EXCEPT !.step = "closing"]
  /\ UNCHANGED <<pod, follow, handler, cancelled, received, listed, first, last,
                 cut, faults>>

Close ==
  /\ producer.step = "closing"
  /\ producer' = [producer EXCEPT !.step = "ended"]
  /\ UNCHANGED <<pod, follow, handler, cancelled, sent, received, listed, first,
                 last, cut, faults>>

-----------------------------------------------------------------------------
(* The client, and the pods *)

\* The client goes away, or its timeout of 30 seconds ends the request.
Cancel ==
  /\ handler \notin Over /\ ~cancelled
  /\ cancelled' = TRUE
  /\ UNCHANGED <<pod, follow, handler, stream, received, faults>>

Write(p) == pod[p].life = "running" /\ pod[p].lines < MaxLines
            /\ pod' = [pod EXCEPT ![p].lines = @ + 1]

Live(p) ==
  \/ pod[p].life = "unborn" /\ pod' = [pod EXCEPT ![p].life = "running"]
  \/ pod[p].life = "running" /\ pod' = [pod EXCEPT ![p].life = "ended"]
  \/ /\ pod[p].life \in {"running", "ended"}
     /\ pod' = [pod EXCEPT ![p].life = "removed"]

PodActs ==
  /\ \E p \in Pods : Write(p) \/ Live(p)
  /\ UNCHANGED <<follow, handler, cancelled, stream, received, faults>>

-----------------------------------------------------------------------------

Handle == Resolve \/ List \/ ListFails \/ ListWithoutCluster
            \/ Receive \/ Finish \/ Leave

Produce(p) == Open(p) \/ OpenFails(p) \/ Report(p) \/ Scan(p) \/ ScanEnds(p)
                \/ ScanBreaks(p) \/ Send(p) \/ SendCancelled(p)

Next ==
  \/ Handle \/ Cancel \/ PodActs
  \/ \E p \in Pods : Produce(p)
  \/ SendNotice \/ Close

\* Both goroutines run.  A call that can go on without a fault does so in the
\* end; a reader of a live pod's log may wait for ever; the client reads what
\* it is sent, or goes away.  Nothing is assumed of clients, pods or faults.
ProducerRuns(p) ==
  /\ WF_vars(Open(p)) /\ WF_vars(OpenFails(p) /\ NoFault)
  /\ WF_vars(Report(p))
  /\ WF_vars(Scan(p) \/ ScanEnds(p) \/ (ScanBreaks(p) /\ NoFault))
  /\ WF_vars(Send(p) \/ SendCancelled(p))

Fairness ==
  /\ \A p \in Pods : ProducerRuns(p)
  /\ WF_vars(SendNotice) /\ WF_vars(Close)
  /\ WF_vars(Resolve) /\ WF_vars(List \/ (ListFails /\ NoFault))
  /\ WF_vars(Receive) /\ WF_vars(Finish) /\ WF_vars(Leave)

Spec == Init /\ [][Next]_vars /\ Fairness

-----------------------------------------------------------------------------
(* Properties *)

\* Types; in particular the channel never holds more than its capacity.
TypeOK ==
  /\ pod \in [Pods -> PodState]
  /\ follow \in BOOLEAN /\ cancelled \in BOOLEAN
  /\ handler \in Waiting \cup {"reading"} \cup Over
  /\ producer \in Producer
  /\ sent \in Seq(LogEntry)
  /\ received \in 0 .. Len(sent) /\ Len(sent) - received <= Capacity
  /\ listed \subseteq Pods /\ cut \subseteq Pods
  /\ first \in [Pods -> 0 .. MaxLines + 1] /\ last \in [Pods -> 0 .. MaxLines]
  /\ faults \in 0 .. MaxFaults

\* What a client is shown of a pod is one run of consecutive lines: nothing is
\* skipped when the channel is full, nothing comes twice, and no other pod's
\* lines are mixed in.
InOrder ==
  \A i, j \in 1 .. Len(sent) :
    /\ i < j /\ sent[i].source = sent[j].source /\ sent[i].source \in Pods
    => sent[j].line - sent[i].line = j - i

Shown(e) == \E i \in 1 .. received : sent[i] = e

\* The event "done" (logs.go:97) means that every pod that was found has been
\* shown: the lines its stream stood for, or the message that it failed, except
\* for a stream that ended early.
DoneMeansComplete ==
  handler = "done" =>
    \A p \in listed \ cut :
      \/ Shown(Notice(p))
      \/ first[p] > 0 /\ \A n \in first[p] .. last[p] : Shown(Line(p, n))

\* handler/logs.go on StreamLogs: "If follow is true the channel stays open until
\* the context is cancelled".  It should at least for as long as the app that is
\* followed, of which some pods were found, has one that is running.
FollowsUntilCancelled ==
  follow /\ Closed /\ listed # {} /\ (\E p \in Pods : pod[p].life = "running")
    => cancelled

\* The goroutine is waiting to report a pod to a handler that has left.
Stuck == producer.step = "report" /\ Full /\ handler = "left"

\* When the client is gone, or does not follow, the goroutine ends.  The one
\* exception is the send of OpenFails, which does not look at the context: with
\* the channel full and the handler gone it waits for ever.
Released ==
  (producer.step # "none" /\ (cancelled \/ ~follow)) ~> (Closed \/ Stuck)

\* A log that is followed has been read to its end, and its pod runs on.
AwaitsLine ==
  /\ producer.step = "scan" /\ follow /\ ~cancelled
  /\ pod[producer.pod].life = "running"
  /\ producer.next > pod[producer.pod].lines

\* The goroutine has a step to take that needs no fault.
ProducerReady ==
  \/ producer.step \in {"open", "closing"}
  \/ producer.step \in {"report", "notice"} /\ Room
  \/ producer.step = "send" /\ (Room \/ cancelled)
  \/ producer.step = "scan" /\ ~AwaitsLine

\* The two goroutines never wait for one another: one that has started and not
\* ended can go on, or the handler will make room for it, or a pod that is
\* followed is silent.  What is left is Stuck.
NeitherWaitsForEver ==
  producer.step \notin {"none", "ended"} =>
    \/ ProducerReady \/ AwaitsLine \/ Stuck
    \/ handler = "reading" /\ received < Len(sent)

Stages == <<{"none"}, {"open", "report", "scan", "send", "notice"},
            {"closing"}, {"ended"}>>

\* Every step of the goroutine is one on its way to its end: to a later stage, to
\* a pod that was ahead, or along the log of the pod it is at.  No failure makes
\* it start over.
StreamAdvances ==
  [][producer' # producer =>
       \/ \E i, j \in 1 .. 4 :
            i < j /\ producer.step \in Stages[i] /\ producer'.step \in Stages[j]
       \/ /\ producer'.pod \in producer.todo
          /\ producer'.todo = producer.todo \ {producer'.pod}
       \/ /\ producer'.pod = producer.pod /\ producer'.todo = producer.todo
          /\ \/ producer.step = "open" /\ producer'.step \in {"report", "scan"}
             \/ /\ producer.step = "scan" /\ producer'.step = "send"
                /\ producer'.next = producer.next
             \/ /\ producer.step = "send" /\ producer'.step = "scan"
                /\ producer'.next = producer.next + 1]_vars

InReach(p, n) ==
  /\ producer.pod = p /\ producer.step \in {"scan", "send"}
  /\ first[p] <= n /\ n <= Limit(p)

\* Every line that the pod being streamed has written, or goes on to write when
\* followed, is shown to the client, unless it leaves or the stream breaks.
Streamed ==
  \A p \in Pods, n \in 1 .. MaxLines :
    InReach(p, n) ~> (Shown(Line(p, n)) \/ cancelled \/ p \in cut)
=============================================================================
