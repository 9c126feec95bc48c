---------------------------- MODULE LogStreamProofs ----------------------------
(***************************************************************************)
(* Theorems about LogStream for any number of pods and lines, any capacity *)
(* of the channel and any number of faults.                                *)
(***************************************************************************)
EXTENDS LogStream, TLAPS

\* The goroutine is at a pod, or it is before its loop or past it.
AtPod == {"open", "report", "scan", "send"}

\* Before StreamLogs has returned there is nothing.
StartInv ==
  handler \in Waiting \cup {"refused"} =>
    producer = NotStarted /\ sent = <<>> /\ received = 0 /\ listed = {}

\* The goroutine's variables belong together.
ProducerInv ==
  /\ producer.step \in AtPod =>
       producer.pod \in Pods /\ producer.pod \notin producer.todo
  /\ producer.step \notin AtPod => producer.todo = {}
  /\ producer.step = "send" => producer.next <= MaxLines

\* Nothing has been sent of the pods to come; the last entries sent are the
\* lines of the current pod before the next one.
OrderAt(i) ==
  /\ sent[i].source \notin producer.todo
  /\ producer.step \in {"open", "report"} => sent[i].source # producer.pod
  /\ producer.step \in {"scan", "send"} /\ sent[i].source = producer.pod =>
       producer.next - sent[i].line = Len(sent) + 1 - i

OrderInv == \A i \in 1 .. Len(sent) : OrderAt(i)

Sent(e) == \E i \in 1 .. Len(sent) : sent[i] = e

\* What has been sent of the current pod.
CurrentInv ==
  producer.step \in {"scan", "send"} =>
    /\ first[producer.pod] \in 1 .. producer.next
    /\ \A n \in first[producer.pod] .. producer.next - 1 :
         Sent(Line(producer.pod, n))

Ahead(p) == p \in producer.todo \/ (producer.step \in AtPod /\ producer.pod = p)

Complete(p) ==
  \/ Sent(Notice(p))
  \/ first[p] > 0 /\ \A n \in first[p] .. last[p] : Sent(Line(p, n))

\* A pod that was found is to come, or everything of it has been sent.
CompleteInv == \A p \in listed \ cut : Ahead(p) \/ Complete(p)

DoneInv == handler = "done" => Closed /\ received = Len(sent)

IInv ==
  /\ TypeOK /\ StartInv /\ ProducerInv
  /\ OrderInv /\ InOrder
  /\ CurrentInv /\ CompleteInv /\ DoneInv

-----------------------------------------------------------------------------
(* Lemmas about sequences of entries and the goroutine's moves *)

\* Appending an entry leaves those before it in their places.
LEMMA AppendFacts ==
  ASSUME NEW S, NEW s \in Seq(S), NEW e \in S
  PROVE  /\ Append(s, e) \in Seq(S)
         /\ Len(s) \in Nat /\ Len(Append(s, e)) = Len(s) + 1
         /\ \A i \in 1 .. Len(s) : Append(s, e)[i] = s[i]
         /\ Append(s, e)[Len(s) + 1] = e
OBVIOUS

\* Lines and messages are entries.
LEMMA EntryType ==
  /\ \A p \in Pods, n \in 1 .. MaxLines : Line(p, n) \in LogEntry
  /\ \A p \in Pods \cup {NoPod} : Notice(p) \in LogEntry
BY DEF Line, Notice, LogEntry

\* An entry of a pod is one of its lines.
LEMMA EntryOfPod ==
  ASSUME NEW e \in LogEntry, e.source \in Pods
  PROVE  /\ e.line \in 1 .. MaxLines
         /\ e = Line(e.source, e.line)
<1>1. e \notin [source : {System}, about : Pods \cup {NoPod}]
  BY NoneAssumption
<1>2. e \in [source : Pods, line : 1 .. MaxLines]
  BY <1>1 DEF LogEntry
<1> QED BY <1>2 DEF Line

\* The goroutine's variables as the proofs need them.
LEMMA ProducerFacts ==
  ASSUME TypeOK
  PROVE  /\ producer.step \in {"none", "open", "report", "scan", "send", "notice",
                               "closing", "ended"}
         /\ producer.pod \in Pods \cup {NoPod} /\ producer.todo \in SUBSET Pods
         /\ producer.next \in 1 .. MaxLines + 1 /\ producer.upto \in 0 .. MaxLines
BY DEF TypeOK, Producer

\* The goroutine before it starts has its type.
LEMMA NotStartedType == NotStarted \in Producer
BY BoundsAssumption DEF NotStarted, Producer

\* The loop goes on: to a pod that was ahead, or to the end.
LEMMA NextPodFacts ==
  ASSUME TypeOK, NextPod
  PROVE  /\ producer' \in Producer
         /\ producer'.step \in {"open", "closing"}
         /\ producer'.step = "closing" => /\ producer.todo = {}
                                          /\ producer'.todo = {}
         /\ producer'.step = "open" =>
              /\ producer'.pod \in producer.todo
              /\ producer'.todo = producer.todo \ {producer'.pod}
<1>1. CASE /\ producer.todo = {}
           /\ producer' = [NotStarted EXCEPT !.step = "closing"]
  BY <1>1, NotStartedType DEF NotStarted, Producer
<1>2. ASSUME NEW q \in producer.todo,
             producer' = [NotStarted EXCEPT !.step = "open", !.pod = q,
                                            !.todo = producer.todo \ {q}]
      PROVE  /\ producer' \in Producer /\ producer'.step = "open"
             /\ producer'.pod = q /\ producer'.todo = producer.todo \ {q}
  <2>1. producer.todo \in SUBSET Pods
    BY ProducerFacts
  <2> QED BY <1>2, <2>1, NotStartedType DEF NotStarted, Producer
<1> QED BY <1>1, <1>2 DEF NextPod

\* A return gives up the current pod and those after it.
LEMMA ReturnFacts ==
  ASSUME TypeOK, Return, producer.pod \in Pods
  PROVE  /\ producer' \in Producer
         /\ producer'.step = "closing" /\ producer'.todo = {}
         /\ cut' = cut \cup producer.todo \cup {producer.pod}
         /\ cut' \subseteq Pods
<1>1. producer.todo \in SUBSET Pods /\ cut \subseteq Pods
  BY ProducerFacts DEF TypeOK
<1> QED BY <1>1, NotStartedType DEF Return, NotStarted, Producer

\* Faults stay within their bound.
LEMMA FaultType ==
  ASSUME TypeOK, Fault \/ NoFault
  PROVE  faults' \in 0 .. MaxFaults
BY BoundsAssumption DEF TypeOK, Fault, NoFault

\* Where a stream begins and ends, as far as lines are concerned.
LEMMA LineFacts ==
  ASSUME TypeOK, NEW p \in Pods
  PROVE  /\ pod[p].lines \in 0 .. MaxLines
         /\ FirstLine(pod[p].lines) \in 1 .. MaxLines + 1
         /\ Limit(p) \in 0 .. MaxLines
<1>1. pod[p].lines \in 0 .. MaxLines /\ MaxLines \in Nat
      /\ TailLines \in Nat \ {0}
  BY BoundsAssumption DEF TypeOK, PodState
<1>2. FirstLine(pod[p].lines) \in 1 .. MaxLines + 1
  BY <1>1 DEF FirstLine
<1>3. Limit(p) \in 0 .. MaxLines
  BY <1>1, ProducerFacts DEF Limit
<1> QED BY <1>1, <1>2, <1>3

-----------------------------------------------------------------------------
(* Types *)

\* The types hold when the request comes in.
LEMMA TypeInit == Init => TypeOK /\ StartInv /\ ProducerInv
<1> SUFFICES ASSUME Init PROVE TypeOK /\ StartInv /\ ProducerInv
  OBVIOUS
<1> USE BoundsAssumption
<1>1. pod \in [Pods -> PodState] /\ sent \in Seq(LogEntry) /\ Len(sent) = 0
  BY DEF Init
<1>2. producer \in Producer
  BY NotStartedType DEF Init
<1>3. /\ first \in [Pods -> 0 .. MaxLines + 1] /\ last \in [Pods -> 0 .. MaxLines]
  BY DEF Init
<1>4. follow \in BOOLEAN /\ cancelled \in BOOLEAN
  BY Zenon DEF Init
<1>5. TypeOK
  BY <1>1, <1>2, <1>3, <1>4 DEF Init, TypeOK, Waiting, Over
<1> QED BY <1>5 DEF Init, StartInv, ProducerInv, AtPod, NotStarted, Waiting

\* Types, action by action.
LEMMA TypeStep == TypeOK /\ StartInv /\ ProducerInv /\ [Next]_vars => TypeOK'
<1> SUFFICES ASSUME TypeOK, StartInv, ProducerInv, [Next]_vars PROVE TypeOK'
  OBVIOUS
<1> USE BoundsAssumption DEF stream
<1>0. follow \in BOOLEAN /\ cancelled \in BOOLEAN
  BY Zenon DEF TypeOK
<1>1. CASE Resolve
  BY <1>0, <1>1 DEF Resolve, TypeOK, Waiting, Over
<1>2. CASE List
  <2>1. producer' \in Producer
    <3>1. Existing \subseteq Pods
      BY DEF Existing
    <3> QED BY <1>2, <3>1, NotStartedType DEF List, NotStarted, Producer
  <2> QED BY <1>0, <1>2, <2>1 DEF List, TypeOK, Waiting, Over, Existing
<1>3. CASE ListFails
  BY <1>0, <1>3, FaultType DEF ListFails, Fails, TypeOK, Waiting, Over
<1>4. CASE ListWithoutCluster
  <2>1. producer' \in Producer
    BY <1>4, NotStartedType DEF ListWithoutCluster, NotStarted, Producer
  <2>2. sent' \in Seq(LogEntry) /\ Len(sent') = 1 /\ received = 0
    BY <1>4, EntryType DEF ListWithoutCluster, StartInv, Waiting
  <2> QED BY <1>0, <1>4, <2>1, <2>2 DEF ListWithoutCluster, TypeOK, Waiting, Over
<1>5. CASE Receive
  BY <1>0, <1>5 DEF Receive, TypeOK
<1>6. CASE Finish
  BY <1>0, <1>6 DEF Finish, TypeOK, Over
<1>7. CASE Leave
  BY <1>0, <1>7 DEF Leave, TypeOK, Over
<1>8. CASE Cancel
  BY <1>0, <1>8 DEF Cancel, TypeOK
<1>9. CASE PodActs
  <2>1. ASSUME NEW p \in Pods, Write(p) PROVE pod' \in [Pods -> PodState]
    BY <2>1 DEF Write, TypeOK, PodState
  <2>2. ASSUME NEW p \in Pods, Live(p) PROVE pod' \in [Pods -> PodState]
    BY <2>2 DEF Live, TypeOK, PodState
  <2> QED BY <1>0, <1>9, <2>1, <2>2 DEF PodActs, TypeOK
<1>10. ASSUME NEW p \in Pods, Open(p) PROVE TypeOK'
  <2>1. /\ FirstLine(pod[p].lines) \in 1 .. MaxLines + 1
        /\ FirstLine(pod[p].lines) \in 0 .. MaxLines + 1
        /\ pod[p].lines \in 0 .. MaxLines
    BY LineFacts
  <2>2. producer' \in Producer
    BY <1>10, <2>1 DEF Open, TypeOK, Producer
  <2>3. first' \in [Pods -> 0 .. MaxLines + 1]
    BY <1>10, <2>1 DEF Open, TypeOK
  <2> QED BY <1>0, <1>10, <2>2, <2>3 DEF Open, TypeOK
<1>11. ASSUME NEW p \in Pods, OpenFails(p) PROVE TypeOK'
  <2>1. producer' \in Producer /\ faults' \in 0 .. MaxFaults
    BY <1>11, FaultType DEF OpenFails, Fails, TypeOK, Producer
  <2> QED BY <1>0, <1>11, <2>1 DEF OpenFails, TypeOK
<1>12. ASSUME NEW p \in Pods, Report(p) PROVE TypeOK'
  <2>1. producer' \in Producer
    BY <1>12, NextPodFacts DEF Report
  <2>2. sent' \in Seq(LogEntry) /\ Len(sent') = Len(sent) + 1
    BY <1>12, EntryType, AppendFacts DEF Report, TypeOK
  <2> QED BY <1>0, <1>12, <2>1, <2>2 DEF Report, Room, Full, TypeOK
<1>13. ASSUME NEW p \in Pods, Scan(p) PROVE TypeOK'
  <2>1. producer' \in Producer
    BY <1>13 DEF Scan, TypeOK, Producer
  <2> QED BY <1>0, <1>13, <2>1 DEF Scan, TypeOK
<1>14. ASSUME NEW p \in Pods, ScanEnds(p) PROVE TypeOK'
  <2>1. producer' \in Producer /\ last' \in [Pods -> 0 .. MaxLines]
    BY <1>14, NextPodFacts, LineFacts DEF ScanEnds, TypeOK
  <2> QED BY <1>0, <1>14, <2>1 DEF ScanEnds, TypeOK
<1>15. ASSUME NEW p \in Pods, ScanBreaks(p) PROVE TypeOK'
  <2>1. producer' \in Producer /\ faults' \in 0 .. MaxFaults
    BY <1>15, NextPodFacts, FaultType DEF ScanBreaks, Fails
  <2> QED BY <1>0, <1>15, <2>1 DEF ScanBreaks, TypeOK
<1>16. ASSUME NEW p \in Pods, Send(p) PROVE TypeOK'
  <2>1. producer.next \in 1 .. MaxLines
    BY <1>16, ProducerFacts DEF Send, ProducerInv
  <2>2. producer' \in Producer
    <3>1. producer.next + 1 \in 1 .. MaxLines + 1
      BY <2>1
    <3> QED BY <1>16, <3>1 DEF Send, TypeOK, Producer
  <2>3. sent' \in Seq(LogEntry) /\ Len(sent') = Len(sent) + 1
    BY <1>16, <2>1, EntryType, AppendFacts DEF Send, TypeOK
  <2> QED BY <1>0, <1>16, <2>2, <2>3 DEF Send, Room, Full, TypeOK
<1>17. ASSUME NEW p \in Pods, SendCancelled(p) PROVE TypeOK'
  <2>1. producer' \in Producer /\ cut' \subseteq Pods
    BY <1>17, ReturnFacts DEF SendCancelled
  <2> QED BY <1>0, <1>17, <2>1 DEF SendCancelled, TypeOK
<1>18. CASE SendNotice
  <2>1. producer' \in Producer
    BY <1>18 DEF SendNotice, TypeOK, Producer
  <2>2. sent' \in Seq(LogEntry) /\ Len(sent') = Len(sent) + 1
    BY <1>18, EntryType, AppendFacts DEF SendNotice, TypeOK
  <2> QED BY <1>0, <1>18, <2>1, <2>2 DEF SendNotice, Room, Full, TypeOK
<1>19. CASE Close
  <2>1. producer' \in Producer
    BY <1>19 DEF Close, TypeOK, Producer
  <2> QED BY <1>0, <1>19, <2>1 DEF Close, TypeOK
<1>20. CASE UNCHANGED vars
  BY <1>0, <1>20 DEF vars, TypeOK
<1> QED BY <1>1, <1>2, <1>3, <1>4, <1>5, <1>6, <1>7, <1>8, <1>9, <1>10, <1>11,
           <1>12, <1>13, <1>14, <1>15, <1>16, <1>17, <1>18, <1>19, <1>20
        DEF Next, Handle, Produce

\* Where handler and goroutine are with respect to each other.
LEMMA ControlStep ==
  TypeOK /\ StartInv /\ ProducerInv /\ DoneInv /\ [Next]_vars
    => StartInv' /\ ProducerInv' /\ DoneInv'
<1> SUFFICES ASSUME TypeOK, StartInv, ProducerInv, DoneInv, [Next]_vars
             PROVE  StartInv' /\ ProducerInv' /\ DoneInv'
  OBVIOUS
<1> USE DEF stream, AtPod, Waiting, Closed
<1>a. producer.step # "none" => handler \notin Waiting \cup {"refused"}
  BY DEF StartInv, NotStarted
<1>b. producer.step # "ended" => handler # "done"
  BY DEF DoneInv
<1>1. CASE Resolve \/ ListFails \/ Leave \/ Cancel \/ PodActs
  BY <1>1 DEF Resolve, ListFails, Leave, Cancel, PodActs, StartInv, ProducerInv,
              DoneInv
<1>2. CASE List
  <2>1. \A p \in Existing : p \in Pods
    BY DEF Existing
  <2> QED BY <1>2, <2>1 DEF List, NotStarted, StartInv, ProducerInv, DoneInv
<1>3. CASE ListWithoutCluster
  BY <1>3 DEF ListWithoutCluster, NotStarted, StartInv, ProducerInv, DoneInv
<1>4. CASE Receive \/ Finish
  BY <1>4 DEF Receive, Finish, StartInv, ProducerInv, DoneInv
<1>5. ASSUME NEW p \in Pods, Open(p)
      PROVE  StartInv' /\ ProducerInv' /\ DoneInv'
  BY <1>a, <1>b, <1>5 DEF Open, TypeOK, Producer, StartInv, ProducerInv, DoneInv
<1>6. ASSUME NEW p \in Pods, OpenFails(p)
      PROVE  StartInv' /\ ProducerInv' /\ DoneInv'
  BY <1>a, <1>b, <1>6 DEF OpenFails, TypeOK, Producer, StartInv, ProducerInv,
                          DoneInv
<1>7. ASSUME NEW p \in Pods, Report(p) \/ ScanEnds(p) \/ ScanBreaks(p)
      PROVE  StartInv' /\ ProducerInv' /\ DoneInv'
  <2>1. NextPod /\ producer.step \in {"report", "scan"} /\ handler' = handler
    BY <1>7 DEF Report, ScanEnds, ScanBreaks
  <2>2. producer.todo \in SUBSET Pods
    BY ProducerFacts
  <2> QED BY <1>a, <1>b, <2>1, <2>2, NextPodFacts
          DEF StartInv, ProducerInv, DoneInv
<1>8. ASSUME NEW p \in Pods, Scan(p)
      PROVE  StartInv' /\ ProducerInv' /\ DoneInv'
  <2>1. producer.next <= MaxLines
    BY <1>8, LineFacts, ProducerFacts, BoundsAssumption DEF Scan
  <2> QED BY <1>a, <1>b, <1>8, <2>1
          DEF Scan, TypeOK, Producer, StartInv, ProducerInv, DoneInv
<1>9. ASSUME NEW p \in Pods, Send(p)
      PROVE  StartInv' /\ ProducerInv' /\ DoneInv'
  BY <1>a, <1>b, <1>9 DEF Send, TypeOK, Producer, StartInv, ProducerInv, DoneInv
<1>10. ASSUME NEW p \in Pods, SendCancelled(p)
       PROVE  StartInv' /\ ProducerInv' /\ DoneInv'
  <2>1. producer'.step = "closing" /\ producer'.todo = {}
    BY <1>10, ReturnFacts DEF SendCancelled
  <2> QED BY <1>a, <1>b, <1>10, <2>1
          DEF SendCancelled, StartInv, ProducerInv, DoneInv
<1>11. CASE SendNotice \/ Close
  BY <1>a, <1>b, <1>11 DEF SendNotice, Close, TypeOK, Producer, StartInv,
                           ProducerInv, DoneInv
<1>12. CASE UNCHANGED vars
  BY <1>12 DEF vars, StartInv, ProducerInv, DoneInv
<1> QED BY <1>1, <1>2, <1>3, <1>4, <1>5, <1>6, <1>7, <1>8, <1>9, <1>10, <1>11,
           <1>12 DEF Next, Handle, Produce

-----------------------------------------------------------------------------
(* The order of what is sent *)

\* When the loop goes on to the next pod, nothing has been sent of it.
LEMMA NextPodOrder ==
  ASSUME TypeOK, NextPod, NEW i \in 1 .. Len(sent), OrderAt(i),
         sent'[i] = sent[i]
  PROVE  OrderAt(i)'
BY NextPodFacts DEF OrderAt

\* One line more, and one entry more in the channel.
LEMMA ShiftFacts ==
  ASSUME NEW next \in Nat, NEW line \in Nat, NEW len \in Nat, NEW i \in Nat,
         next - line = len + 1 - i
  PROVE  (next + 1) - line = (len + 1) + 1 - i
OBVIOUS

\* Every step keeps the order of what was sent.
LEMMA OrderStep ==
  TypeOK /\ StartInv /\ ProducerInv /\ OrderInv /\ InOrder /\ [Next]_vars
    => OrderInv' /\ InOrder'
<1> SUFFICES ASSUME TypeOK, StartInv, ProducerInv, OrderInv, InOrder, [Next]_vars
             PROVE  OrderInv' /\ InOrder'
  OBVIOUS
<1> USE DEF stream
<1>a. sent' = sent => InOrder'
  BY DEF InOrder
<1>b. sent \in Seq(LogEntry) /\ Len(sent) \in Nat
  BY DEF TypeOK
<1>1. CASE sent' = sent /\ producer' = producer
  BY <1>a, <1>1 DEF OrderInv, OrderAt
<1>2. CASE List
  <2>1. Len(sent) = 0 /\ sent' = sent
    BY <1>2 DEF List, StartInv, Waiting
  <2> QED BY <1>a, <2>1 DEF OrderInv
<1>3. CASE ListWithoutCluster
  <2>1. /\ Len(sent') = 1 /\ producer'.todo = {} /\ producer'.step = "ended"
        /\ sent'[1].source = System
    BY <1>3 DEF ListWithoutCluster, NotStarted, Notice
  <2> QED BY <2>1, NoneAssumption DEF OrderInv, OrderAt, InOrder
<1>4. ASSUME NEW p \in Pods, Open(p) PROVE OrderInv' /\ InOrder'
  <2>1. /\ sent' = sent /\ producer'.todo = producer.todo
        /\ producer.step = "open" /\ producer'.step = "scan"
        /\ producer'.pod = producer.pod
    BY <1>4 DEF Open, TypeOK, Producer
  <2> QED BY <1>a, <2>1 DEF OrderInv, OrderAt
<1>5. ASSUME NEW p \in Pods, OpenFails(p) \/ Scan(p) PROVE OrderInv' /\ InOrder'
  <2>1. /\ sent' = sent /\ producer'.todo = producer.todo
        /\ producer'.pod = producer.pod /\ producer'.next = producer.next
        /\ \/ producer.step = "open" /\ producer'.step = "report"
           \/ producer.step = "scan" /\ producer'.step = "send"
    BY <1>5 DEF OpenFails, Scan, TypeOK, Producer
  <2> QED BY <1>a, <2>1 DEF OrderInv, OrderAt
<1>6. ASSUME NEW p \in Pods, ScanEnds(p) \/ ScanBreaks(p)
      PROVE  OrderInv' /\ InOrder'
  <2>1. sent' = sent /\ NextPod
    BY <1>6 DEF ScanEnds, ScanBreaks
  <2> QED BY <1>a, <2>1, NextPodOrder DEF OrderInv
<1>7. ASSUME NEW p \in Pods, Report(p) PROVE OrderInv' /\ InOrder'
  <2>1. /\ Len(sent') = Len(sent) + 1 /\ NextPod
        /\ \A i \in 1 .. Len(sent) : sent'[i] = sent[i]
        /\ sent'[Len(sent) + 1].source = System
    <3>1. sent' = Append(sent, Notice(p)) /\ Notice(p) \in LogEntry
      BY <1>7, EntryType DEF Report
    <3> QED BY <1>7, <1>b, <3>1, AppendFacts DEF Report, Notice
  <2>2. \A i \in 1 .. Len(sent) : OrderAt(i)'
    BY <2>1, NextPodOrder DEF OrderInv
  <2>3. ASSUME NEW i, i = Len(sent) + 1 PROVE OrderAt(i)'
    <3>1. /\ producer'.todo \in SUBSET Pods
          /\ producer'.step \in {"open", "closing"}
          /\ producer'.step = "open" => producer'.pod \in Pods
      BY <2>1, NextPodFacts, ProducerFacts DEF Producer
    <3> QED BY <2>1, <2>3, <3>1, NoneAssumption DEF OrderAt
  <2>4. InOrder'
    BY <1>b, <2>1, NoneAssumption DEF InOrder
  <2> QED BY <1>b, <2>1, <2>2, <2>3, <2>4 DEF OrderInv
<1>8. ASSUME NEW p \in Pods, Send(p) PROVE OrderInv' /\ InOrder'
  <2>1. /\ Len(sent') = Len(sent) + 1
        /\ \A i \in 1 .. Len(sent) : sent'[i] = sent[i]
        /\ sent'[Len(sent) + 1] = Line(p, producer.next)
    <3>1. Line(p, producer.next) \in LogEntry
      BY <1>8, EntryType, ProducerFacts DEF Send, ProducerInv
    <3> QED BY <1>8, <1>b, <3>1, AppendFacts DEF Send
  <2>2. /\ producer.step = "send" /\ producer.pod = p /\ p \notin producer.todo
        /\ producer'.step = "scan" /\ producer'.pod = p
        /\ producer'.todo = producer.todo
        /\ producer'.next = producer.next + 1 /\ producer.next \in Nat
    BY <1>8, ProducerFacts DEF Send, TypeOK, Producer, ProducerInv, AtPod
  <2>3. sent'[Len(sent) + 1].source = p /\ sent'[Len(sent) + 1].line = producer.next
    BY <2>1 DEF Line
  <2>4. ASSUME NEW i \in 1 .. Len(sent), sent[i].source = p
        PROVE  /\ sent[i].line \in Nat
               /\ producer.next - sent[i].line = Len(sent) + 1 - i
    <3>1. sent[i] \in LogEntry
      BY <1>b
    <3> QED BY <2>2, <2>4, <3>1, EntryOfPod DEF OrderInv, OrderAt
  <2>5. ASSUME NEW i \in 1 .. Len(sent) PROVE OrderAt(i)'
    <3>1. sent'[i] = sent[i] /\ sent[i].source \notin producer.todo
      BY <2>1 DEF OrderInv, OrderAt
    <3>2. ASSUME sent[i].source = p
          PROVE  producer'.next - sent[i].line = Len(sent') + 1 - i
      <4>1. /\ sent[i].line \in Nat
            /\ producer.next - sent[i].line = Len(sent) + 1 - i
        BY <2>4, <3>2
      <4>2. /\ Len(sent) \in Nat /\ Len(sent') = Len(sent) + 1
            /\ producer'.next = producer.next + 1 /\ producer.next \in Nat
        BY <1>b, <2>1, <2>2
      <4>3. i \in Nat
        BY <4>2
      <4>4. (producer.next + 1) - sent[i].line = (Len(sent) + 1) + 1 - i
        <5> HIDE DEF stream
        <5> QED BY <4>1, <4>2, <4>3, ShiftFacts
      <4> QED BY <4>2, <4>4
    <3> QED BY <2>2, <3>1, <3>2 DEF OrderAt
  <2>6. ASSUME NEW i, i = Len(sent) + 1 PROVE OrderAt(i)'
    BY <1>b, <2>1, <2>2, <2>3, <2>6 DEF OrderAt
  <2>7. InOrder'
    <3> SUFFICES ASSUME NEW i \in 1 .. Len(sent) + 1, NEW j \in 1 .. Len(sent) + 1,
                        i < j, sent'[i].source = sent'[j].source,
                        sent'[i].source \in Pods
                 PROVE  sent'[j].line - sent'[i].line = j - i
      BY <2>1 DEF InOrder
    <3>1. CASE j \in 1 .. Len(sent)
      BY <1>b, <2>1, <3>1 DEF InOrder
    <3>2. CASE j = Len(sent) + 1
      <4>1. i \in 1 .. Len(sent) /\ sent[i].source = p
        BY <1>b, <2>1, <2>3, <3>2
      <4> QED BY <1>b, <2>1, <2>2, <2>3, <2>4, <3>2, <4>1
    <3> QED BY <1>b, <3>1, <3>2
  <2> QED BY <1>b, <2>1, <2>5, <2>6, <2>7 DEF OrderInv
<1>9. ASSUME NEW p \in Pods, SendCancelled(p) PROVE OrderInv' /\ InOrder'
  <2>1. sent' = sent /\ producer'.step = "closing" /\ producer'.todo = {}
    BY <1>9, ReturnFacts DEF SendCancelled
  <2> QED BY <1>a, <2>1 DEF OrderInv, OrderAt
<1>10. CASE SendNotice
  <2>1. /\ Len(sent') = Len(sent) + 1
        /\ \A i \in 1 .. Len(sent) : sent'[i] = sent[i]
        /\ sent'[Len(sent) + 1].source = System
    <3>1. sent' = Append(sent, Notice(NoPod)) /\ Notice(NoPod) \in LogEntry
      BY <1>10, EntryType DEF SendNotice
    <3> QED BY <1>b, <3>1, AppendFacts DEF Notice
  <2>2. producer'.step = "closing" /\ producer'.todo = {}
    BY <1>10 DEF SendNotice, TypeOK, Producer, ProducerInv, AtPod
  <2>3. InOrder'
    BY <1>b, <2>1, NoneAssumption DEF InOrder
  <2> QED BY <2>2, <2>3 DEF OrderInv, OrderAt
<1>11. CASE Close
  <2>1. sent' = sent /\ producer'.step = "ended" /\ producer'.todo = {}
    BY <1>11 DEF Close, TypeOK, Producer, ProducerInv, AtPod
  <2> QED BY <1>a, <2>1 DEF OrderInv, OrderAt
<1>12. CASE Resolve \/ ListFails \/ Leave \/ Cancel \/ PodActs \/ Receive \/ Finish
  BY <1>1, <1>12 DEF Resolve, ListFails, Leave, Cancel, PodActs, Receive, Finish
<1>13. CASE UNCHANGED vars
  BY <1>1, <1>13 DEF vars
<1> QED BY <1>2, <1>3, <1>4, <1>5, <1>6, <1>7, <1>8, <1>9, <1>10, <1>11, <1>12,
           <1>13 DEF Next, Handle, Produce

-----------------------------------------------------------------------------
(* What has been sent when all is done *)

\* What is sent stays sent.
LEMMA SentGrows ==
  ASSUME TypeOK, NEW e \in LogEntry, sent' = sent \/ sent' = Append(sent, e)
  PROVE  /\ \A x : Sent(x) => Sent(x)'
         /\ sent' = Append(sent, e) => Sent(e)'
<1>1. sent \in Seq(LogEntry)
  BY DEF TypeOK
<1>2. CASE sent' = sent
  <2>1. \A x : Sent(x) => Sent(x)'
    BY <1>2 DEF Sent
  <2>2. sent' # Append(sent, e)
    BY <1>1, <1>2, AppendFacts
  <2> QED BY <2>1, <2>2
<1>3. CASE sent' = Append(sent, e)
  BY <1>1, <1>3, AppendFacts DEF Sent
<1> QED BY <1>2, <1>3

\* What is complete stays so, unless the pod's stream is opened or ended.
LEMMA CompleteKept ==
  ASSUME NEW p, Complete(p), \A x : Sent(x) => Sent(x)',
         first'[p] = first[p], last'[p] = last[p]
  PROVE  Complete(p)'
BY DEF Complete

\* Going on to the next pod, the loop leaves only the one it is at.
LEMMA NextPodAhead ==
  ASSUME TypeOK, ProducerInv, NextPod, producer.step \in AtPod,
         NEW q, Ahead(q), q # producer.pod
  PROVE  Ahead(q)'
BY NextPodFacts DEF Ahead, AtPod

\* Every step keeps what is known of the lines sent of each pod.
LEMMA CompleteStep == IInv /\ [Next]_vars => CurrentInv' /\ CompleteInv'
<1> SUFFICES ASSUME IInv, [Next]_vars PROVE CurrentInv' /\ CompleteInv'
  OBVIOUS
<1> USE DEF stream
<1>0. /\ TypeOK /\ StartInv /\ ProducerInv /\ CurrentInv /\ CompleteInv
      /\ listed \subseteq Pods /\ MaxLines \in Nat
  BY BoundsAssumption DEF IInv, TypeOK
<1>a. ASSUME sent' = sent PROVE \A x : Sent(x) => Sent(x)'
  BY <1>a DEF Sent
<1>1. CASE UNCHANGED <<producer, sent, listed, first, last, cut>>
  BY <1>0, <1>1 DEF CurrentInv, CompleteInv, Ahead, Complete, Sent
<1>2. CASE List
  <2>1. /\ listed' = Existing
        /\ \A p \in Existing :
             \/ p = producer'.pod /\ producer'.step = "open"
             \/ p \in producer'.todo
        /\ producer'.step \in {"notice", "open"}
    BY <1>2 DEF List, NotStarted
  <2> QED BY <2>1 DEF CurrentInv, CompleteInv, Ahead, AtPod
<1>3. CASE ListWithoutCluster
  <2>1. listed' = {} /\ producer'.step = "ended"
    BY <1>0, <1>3 DEF ListWithoutCluster, StartInv, Waiting, NotStarted
  <2> QED BY <2>1 DEF CurrentInv, CompleteInv
<1>4. ASSUME NEW p \in Pods, Open(p) PROVE CurrentInv' /\ CompleteInv'
  <2>1. /\ producer.step = "open" /\ producer.pod = p /\ producer'.step = "scan"
        /\ producer'.pod = p /\ producer'.todo = producer.todo
        /\ producer'.next = FirstLine(pod[p].lines)
        /\ sent' = sent /\ listed' = listed /\ cut' = cut /\ last' = last
        /\ first'[p] = FirstLine(pod[p].lines)
        /\ \A q \in Pods \ {p} : first'[q] = first[q]
        /\ FirstLine(pod[p].lines) \in 1 .. MaxLines + 1
    BY <1>0, <1>4, LineFacts DEF Open, TypeOK, Producer
  <2>2. CurrentInv'
    BY <1>0, <2>1 DEF CurrentInv
  <2>3. ASSUME NEW q \in listed \ cut PROVE Ahead(q)' \/ Complete(q)'
    <3>1. CASE Ahead(q)
      BY <2>1, <3>1 DEF Ahead, AtPod
    <3>2. CASE Complete(q) /\ q # p
      BY <1>0, <1>a, <2>1, <3>2, CompleteKept
    <3>3. CASE q = p
      BY <2>1, <3>3 DEF Ahead, AtPod
    <3> QED BY <1>0, <3>1, <3>2, <3>3 DEF CompleteInv
  <2> QED BY <2>1, <2>2, <2>3 DEF CompleteInv
<1>5. ASSUME NEW p \in Pods, OpenFails(p) \/ Scan(p)
      PROVE  CurrentInv' /\ CompleteInv'
  <2>1. /\ producer'.todo = producer.todo /\ producer'.pod = producer.pod
        /\ producer'.next = producer.next
        /\ \/ producer.step = "open" /\ producer'.step = "report"
           \/ producer.step = "scan" /\ producer'.step = "send"
        /\ sent' = sent /\ listed' = listed /\ cut' = cut
        /\ last' = last /\ first' = first
    BY <1>0, <1>5 DEF OpenFails, Scan, TypeOK, Producer
  <2> QED BY <1>0, <2>1 DEF CurrentInv, CompleteInv, Ahead, AtPod, Complete, Sent
<1>6. ASSUME NEW p \in Pods, Report(p) PROVE CurrentInv' /\ CompleteInv'
  <2>1. /\ NextPod /\ producer.step = "report" /\ producer.pod = p
        /\ sent' = Append(sent, Notice(p)) /\ Notice(p) \in LogEntry
        /\ listed' = listed /\ cut' = cut /\ last' = last /\ first' = first
    BY <1>6, EntryType DEF Report
  <2>2. Sent(Notice(p))' /\ \A x : Sent(x) => Sent(x)'
    BY <1>0, <2>1, SentGrows
  <2>3. CurrentInv'
    BY <1>0, <2>1, NextPodFacts DEF CurrentInv
  <2>4. ASSUME NEW q \in listed \ cut PROVE Ahead(q)' \/ Complete(q)'
    <3>1. CASE q = p
      BY <2>2, <3>1 DEF Complete, Notice
    <3>2. CASE q # p /\ Ahead(q)
      BY <1>0, <2>1, <3>2, NextPodAhead DEF AtPod
    <3>3. CASE Complete(q)
      BY <2>1, <2>2, <3>3, CompleteKept
    <3> QED BY <1>0, <3>1, <3>2, <3>3 DEF CompleteInv
  <2> QED BY <2>1, <2>3, <2>4 DEF CompleteInv
<1>7. ASSUME NEW p \in Pods, ScanEnds(p) PROVE CurrentInv' /\ CompleteInv'
  <2>1. /\ NextPod /\ producer.step = "scan" /\ producer.pod = p
        /\ producer.next > Limit(p)
        /\ sent' = sent /\ listed' = listed /\ cut' = cut /\ first' = first
        /\ last'[p] = Limit(p)
        /\ \A q \in Pods \ {p} : last'[q] = last[q]
    BY <1>0, <1>7 DEF ScanEnds, EndOfLog, TypeOK
  <2>2. CurrentInv'
    BY <1>0, <2>1, NextPodFacts DEF CurrentInv
  <2>3. Complete(p)'
    <3>1. Limit(p) \in 0 .. MaxLines /\ producer.next \in 1 .. MaxLines + 1
      BY <1>0, LineFacts, ProducerFacts
    <3>2. \A n \in first[p] .. producer.next - 1 : Sent(Line(p, n))
      BY <1>0, <2>1 DEF CurrentInv
    <3>3. first[p] > 0 /\ first[p] \in Nat
      BY <1>0, <2>1 DEF CurrentInv, TypeOK
    <3>4. \A n \in first[p] .. Limit(p) : Sent(Line(p, n))'
      <4>1. \A n \in first[p] .. Limit(p) : n \in first[p] .. producer.next - 1
        BY <1>0, <2>1, <3>1, <3>3
      <4>2. \A n : Sent(Line(p, n)) => Sent(Line(p, n))'
        BY <2>1 DEF Sent, Line
      <4> QED BY <3>2, <4>1, <4>2
    <3> QED BY <2>1, <3>3, <3>4 DEF Complete
  <2>4. ASSUME NEW q \in listed \ cut PROVE Ahead(q)' \/ Complete(q)'
    <3>1. CASE q = p
      BY <2>3, <3>1
    <3>2. CASE q # p /\ Ahead(q)
      BY <1>0, <2>1, <3>2, NextPodAhead DEF AtPod
    <3>3. CASE q # p /\ Complete(q)
      BY <1>0, <1>a, <2>1, <3>3, CompleteKept
    <3> QED BY <1>0, <3>1, <3>2, <3>3 DEF CompleteInv
  <2> QED BY <2>1, <2>2, <2>4 DEF CompleteInv
<1>8. ASSUME NEW p \in Pods, ScanBreaks(p) PROVE CurrentInv' /\ CompleteInv'
  <2>1. /\ NextPod /\ producer.step = "scan" /\ producer.pod = p
        /\ sent' = sent /\ listed' = listed /\ cut' = cut \cup {p}
        /\ first' = first /\ last' = last
    BY <1>8 DEF ScanBreaks
  <2>2. CurrentInv'
    BY <1>0, <2>1, NextPodFacts DEF CurrentInv
  <2>3. ASSUME NEW q \in listed' \ cut' PROVE Ahead(q)' \/ Complete(q)'
    <3>1. q \in listed \ cut /\ q # p
      BY <2>1, <2>3
    <3>2. CASE Ahead(q)
      BY <1>0, <2>1, <3>1, <3>2, NextPodAhead DEF AtPod
    <3>3. CASE Complete(q)
      BY <1>a, <2>1, <3>3, CompleteKept
    <3> QED BY <1>0, <3>1, <3>2, <3>3 DEF CompleteInv
  <2> QED BY <2>2, <2>3 DEF CompleteInv
<1>9. ASSUME NEW p \in Pods, Send(p) PROVE CurrentInv' /\ CompleteInv'
  <2>0. PICK m \in 1 .. MaxLines : m = producer.next
    BY <1>0, <1>9, ProducerFacts DEF Send, ProducerInv
  <2>1. /\ producer.step = "send" /\ producer.pod = p /\ producer'.step = "scan"
        /\ producer'.pod = p /\ producer'.todo = producer.todo
        /\ producer'.next = m + 1
        /\ sent' = Append(sent, Line(p, m)) /\ Line(p, m) \in LogEntry
        /\ listed' = listed /\ cut' = cut /\ first' = first /\ last' = last
    BY <1>0, <1>9, <2>0, EntryType DEF Send, TypeOK, Producer
  <2>2. Sent(Line(p, m))' /\ \A x : Sent(x) => Sent(x)'
    BY <1>0, <2>1, SentGrows
  <2>3. CurrentInv'
    <3>1. first[p] \in 1 .. m /\ \A n \in first[p] .. m - 1 : Sent(Line(p, n))
      BY <1>0, <2>0, <2>1 DEF CurrentInv
    <3>2. ASSUME NEW n \in first[p] .. m PROVE Sent(Line(p, n))'
      <4>1. CASE n = m
        BY <2>2, <4>1
      <4>2. CASE n # m
        <5>1. n \in first[p] .. m - 1
          BY <2>0, <3>1, <4>2
        <5> QED BY <2>2, <3>1, <5>1
      <4> QED BY <4>1, <4>2
    <3>3. first'[p] \in 1 .. producer'.next
      BY <2>1, <3>1
    <3> QED BY <2>1, <3>2, <3>3 DEF CurrentInv
  <2>4. ASSUME NEW q \in listed \ cut PROVE Ahead(q)' \/ Complete(q)'
    <3>1. CASE Ahead(q)
      BY <2>1, <3>1 DEF Ahead, AtPod
    <3>2. CASE Complete(q)
      BY <2>1, <2>2, <3>2, CompleteKept
    <3> QED BY <1>0, <3>1, <3>2 DEF CompleteInv
  <2> QED BY <2>1, <2>3, <2>4 DEF CompleteInv
<1>10. ASSUME NEW p \in Pods, SendCancelled(p) PROVE CurrentInv' /\ CompleteInv'
  <2>1. /\ producer.step = "send" /\ producer.pod = p
        /\ producer'.step = "closing"
        /\ cut' = cut \cup producer.todo \cup {p}
        /\ sent' = sent /\ listed' = listed /\ first' = first /\ last' = last
    BY <1>0, <1>10, ReturnFacts DEF SendCancelled
  <2>2. ASSUME NEW q \in listed' \ cut' PROVE Complete(q)'
    <3>1. q \in listed \ cut /\ ~Ahead(q)
      BY <2>1, <2>2 DEF Ahead
    <3> QED BY <1>0, <1>a, <2>1, <3>1, CompleteKept DEF CompleteInv
  <2> QED BY <2>1, <2>2 DEF CurrentInv, CompleteInv
<1>11. CASE SendNotice \/ Close
  <2>1. /\ producer.step \notin AtPod /\ producer'.step \in {"closing", "ended"}
        /\ producer.todo = {} /\ producer'.todo = {}
        /\ listed' = listed /\ cut' = cut /\ first' = first /\ last' = last
        /\ sent' = sent \/ sent' = Append(sent, Notice(NoPod))
    BY <1>0, <1>11 DEF SendNotice, Close, TypeOK, Producer, ProducerInv, AtPod
  <2>2. \A x : Sent(x) => Sent(x)'
    BY <1>0, <2>1, EntryType, SentGrows
  <2>3. ASSUME NEW q \in listed \ cut PROVE Complete(q)'
    BY <1>0, <2>1, <2>2, CompleteKept DEF CompleteInv, Ahead
  <2> QED BY <2>1, <2>3 DEF CurrentInv, CompleteInv
<1>12. CASE Resolve \/ ListFails \/ Leave \/ Cancel \/ PodActs \/ Receive \/ Finish
  BY <1>1, <1>12 DEF Resolve, ListFails, Leave, Cancel, PodActs, Receive, Finish
<1>13. CASE UNCHANGED vars
  BY <1>1, <1>13 DEF vars
<1> QED BY <1>2, <1>3, <1>4, <1>5, <1>6, <1>7, <1>8, <1>9, <1>10, <1>11, <1>12,
           <1>13 DEF Next, Handle, Produce

-----------------------------------------------------------------------------
(* Theorems *)

\* The inductive invariant: where handler and goroutine are, and what has been
\* sent of the pods behind, of the one being read and of those ahead.
THEOREM Invariance == Spec => []IInv
<1>1. Init => IInv
  <2> SUFFICES ASSUME Init PROVE IInv
    OBVIOUS
  <2>1. TypeOK /\ StartInv /\ ProducerInv
    BY TypeInit
  <2>2. /\ Len(sent) = 0 /\ producer.step = "none" /\ listed = {}
        /\ handler = "resolve"
    BY DEF Init, NotStarted
  <2>3. OrderInv /\ InOrder
    BY <2>2 DEF OrderInv, InOrder
  <2>4. CurrentInv /\ CompleteInv /\ DoneInv
    BY <2>2 DEF CurrentInv, CompleteInv, DoneInv
  <2> QED BY <2>1, <2>3, <2>4 DEF IInv
<1>2. IInv /\ [Next]_vars => IInv'
  BY TypeStep, ControlStep, OrderStep, CompleteStep DEF IInv
<1> QED BY <1>1, <1>2, PTL DEF Spec

\* Every variable keeps its type, and the channel never holds more than its
\* capacity, whatever the number of pods and lines.
THEOREM TypeCorrect == Spec => []TypeOK
<1>1. IInv => TypeOK
  BY DEF IInv
<1> QED BY <1>1, Invariance, PTL

\* What is sent of a pod is one run of consecutive lines (adapter.go:699-710).
THEOREM InOrderSafe == Spec => []InOrder
<1>1. IInv => InOrder
  BY DEF IInv
<1> QED BY <1>1, Invariance, PTL

\* "done" (logs.go:97) means that everything has been shown, but for streams
\* that ended early.
THEOREM DoneMeansCompleteSafe == Spec => []DoneMeansComplete
<1>1. IInv => DoneMeansComplete
  <2> SUFFICES ASSUME IInv, handler = "done", NEW p \in listed \ cut
               PROVE  \/ Shown(Notice(p))
                      \/ /\ first[p] > 0
                         /\ \A n \in first[p] .. last[p] : Shown(Line(p, n))
    BY DEF DoneMeansComplete
  <2>1. producer.step = "ended" /\ received = Len(sent) /\ producer.todo = {}
    BY DEF IInv, DoneInv, Closed, ProducerInv, AtPod
  <2>2. Complete(p)
    BY <2>1 DEF IInv, CompleteInv, Ahead, AtPod
  <2>3. \A e : Sent(e) => Shown(e)
    BY <2>1 DEF Sent, Shown
  <2> QED BY <2>2, <2>3 DEF Complete
<1> QED BY <1>1, Invariance, PTL

-----------------------------------------------------------------------------
(* Progress, as far as it is a matter of safety *)

\* The handler leaves only a request that is cancelled; the message that there
\* are no pods is the first entry.
LeaveInv ==
  /\ handler = "left" => cancelled
  /\ producer.step = "notice" => Len(sent) = 0

\* Every step keeps LeaveInv.
LEMMA LeaveStep == IInv /\ LeaveInv /\ [Next]_vars => LeaveInv'
<1> SUFFICES ASSUME IInv, LeaveInv, [Next]_vars PROVE LeaveInv'
  OBVIOUS
<1> USE DEF stream, LeaveInv
<1>0. TypeOK /\ StartInv
  BY DEF IInv
<1>1. CASE Resolve \/ ListFails \/ Receive \/ Finish \/ Leave \/ Cancel \/ PodActs
  BY <1>1 DEF Resolve, ListFails, Receive, Finish, Leave, Cancel, PodActs
<1>2. CASE List
  <2>1. Len(sent) = 0
    BY <1>0, <1>2 DEF List, StartInv, Waiting
  <2> QED BY <1>2, <2>1 DEF List
<1>3. CASE ListWithoutCluster
  BY <1>3 DEF ListWithoutCluster, NotStarted
<1>4. ASSUME NEW p \in Pods, Open(p) \/ OpenFails(p) \/ Scan(p) \/ Send(p)
      PROVE  LeaveInv'
  BY <1>0, <1>4 DEF Open, OpenFails, Scan, Send, TypeOK, Producer
<1>5. ASSUME NEW p \in Pods, Report(p) \/ ScanEnds(p) \/ ScanBreaks(p)
      PROVE  LeaveInv'
  BY <1>0, <1>5, NextPodFacts DEF Report, ScanEnds, ScanBreaks
<1>6. ASSUME NEW p \in Pods, SendCancelled(p) PROVE LeaveInv'
  BY <1>0, <1>6, ReturnFacts DEF SendCancelled
<1>7. CASE SendNotice \/ Close
  BY <1>0, <1>7 DEF SendNotice, Close, TypeOK, Producer
<1>8. CASE UNCHANGED vars
  BY <1>8 DEF vars
<1> QED BY <1>1, <1>2, <1>3, <1>4, <1>5, <1>6, <1>7, <1>8 DEF Next, Handle, Produce

\* Whatever the capacity: who waits for room waits for a handler that reads,
\* except for the send that adapter.go:691 makes to one that has left.
THEOREM NeitherWaitsForEverSafe == Spec => []NeitherWaitsForEver
<1>1. IInv /\ LeaveInv => NeitherWaitsForEver
  <2> SUFFICES ASSUME IInv, LeaveInv, producer.step \notin {"none", "ended"},
                      ~ProducerReady, ~AwaitsLine, ~Stuck
               PROVE  handler = "reading" /\ received < Len(sent)
    BY DEF NeitherWaitsForEver
  <2>0. TypeOK /\ StartInv /\ DoneInv
    BY DEF IInv
  <2>1. handler \in {"reading", "left"}
    BY <2>0 DEF TypeOK, StartInv, DoneInv, Closed, NotStarted, Waiting, Over
  <2>2. producer.step \in {"report", "notice", "send"}
    BY <2>0, ProducerFacts DEF ProducerReady
  <2>3. Full /\ (producer.step = "send" => ~cancelled)
    BY <2>2 DEF ProducerReady, Room
  <2>4. received < Len(sent)
    BY <2>0, <2>3, BoundsAssumption DEF Full, TypeOK
  <2>5. producer.step # "notice"
    BY <2>0, <2>4 DEF LeaveInv, TypeOK
  <2> QED BY <2>1, <2>2, <2>3, <2>4, <2>5 DEF LeaveInv, Stuck
<1>2. Init => LeaveInv
  BY DEF Init, LeaveInv, NotStarted
<1> QED BY <1>1, <1>2, LeaveStep, Invariance, PTL DEF Spec

\* A step to another stage.
LEMMA LaterStage ==
  ASSUME NEW s, NEW t,
         \/ s = "none" /\ t \in {"open", "notice", "ended"}
         \/ s \in {"open", "report", "scan", "send", "notice"} /\ t = "closing"
         \/ s = "closing" /\ t = "ended"
  PROVE  \E i, j \in 1 .. 4 : i < j /\ s \in Stages[i] /\ t \in Stages[j]
<1>1. CASE s = "none" /\ t \in {"open", "notice"}
  BY <1>1, 1 \in 1 .. 4, 2 \in 1 .. 4, 1 < 2 DEF Stages
<1>2. CASE s = "none" /\ t = "ended"
  BY <1>2, 1 \in 1 .. 4, 4 \in 1 .. 4, 1 < 4 DEF Stages
<1>3. CASE s \in {"open", "report", "scan", "send", "notice"} /\ t = "closing"
  BY <1>3, 2 \in 1 .. 4, 3 \in 1 .. 4, 2 < 3 DEF Stages
<1>4. CASE s = "closing" /\ t = "ended"
  BY <1>4, 3 \in 1 .. 4, 4 \in 1 .. 4, 3 < 4 DEF Stages
<1> QED BY <1>1, <1>2, <1>3, <1>4

\* Every step of the goroutine is one on its way to its end, so that it can take
\* only as many as there are pods and lines.
THEOREM StreamAdvancesSafe == Spec => StreamAdvances
<1> DEFINE Later == \E i, j \in 1 .. 4 :
             i < j /\ producer.step \in Stages[i] /\ producer'.step \in Stages[j]
           Turn == /\ producer'.pod \in producer.todo
                   /\ producer'.todo = producer.todo \ {producer'.pod}
           Along == /\ producer'.pod = producer.pod /\ producer'.todo = producer.todo
                    /\ \/ producer.step = "open" /\ producer'.step \in {"report", "scan"}
                       \/ /\ producer.step = "scan" /\ producer'.step = "send"
                          /\ producer'.next = producer.next
                       \/ /\ producer.step = "send" /\ producer'.step = "scan"
                          /\ producer'.next = producer.next + 1
<1>1. ASSUME IInv, Next, producer' # producer PROVE Later \/ Turn \/ Along
  <2>0. TypeOK /\ StartInv /\ ProducerInv
    BY <1>1 DEF IInv
  <2>1. CASE Resolve \/ ListFails \/ Receive \/ Finish \/ Leave \/ Cancel \/ PodActs
    BY <1>1, <2>1 DEF Resolve, ListFails, Receive, Finish, Leave, Cancel, PodActs, stream
  <2>2. CASE List \/ ListWithoutCluster
    <3>1. producer.step = "none"
      <4>1. handler = "list"
        BY <2>2 DEF List, ListWithoutCluster
      <4> QED BY <2>0, <4>1 DEF StartInv, Waiting, NotStarted
    <3>2. producer'.step \in {"open", "notice", "ended"}
      BY <2>2 DEF List, ListWithoutCluster, NotStarted
    <3> QED BY <3>1, <3>2, LaterStage
  <2>3. ASSUME NEW p \in Pods, Open(p) \/ OpenFails(p) \/ Scan(p) \/ Send(p)
        PROVE  Along
    BY <2>0, <2>3 DEF Open, OpenFails, Scan, Send, TypeOK, Producer
  <2>4. ASSUME NEW p \in Pods, Report(p) \/ ScanEnds(p) \/ ScanBreaks(p)
        PROVE  Later \/ Turn
    <3>1. NextPod /\ producer.step \in {"report", "scan"}
      BY <2>4 DEF Report, ScanEnds, ScanBreaks
    <3> HIDE DEF Later, Turn
    <3>2. CASE producer'.step = "closing"
      BY <3>1, <3>2, LaterStage DEF Later
    <3>3. CASE producer'.step = "open"
      BY <2>0, <3>1, <3>3, NextPodFacts DEF Turn
    <3> QED BY <2>0, <3>1, <3>2, <3>3, NextPodFacts
  <2>5. ASSUME NEW p \in Pods, SendCancelled(p) PROVE Later
    <3>1. producer.step = "send" /\ producer'.step = "closing"
      BY <2>0, <2>5, ReturnFacts DEF SendCancelled
    <3> QED BY <3>1, LaterStage
  <2>6. CASE SendNotice \/ Close
    <3>1. /\ producer.step \in {"notice", "closing"}
          /\ producer'.step = IF producer.step = "notice" THEN "closing" ELSE "ended"
      BY <2>0, <2>6 DEF SendNotice, Close, TypeOK, Producer
    <3> QED BY <3>1, LaterStage
  <2> HIDE DEF Later, Turn, Along
  <2> QED BY <1>1, <2>1, <2>2, <2>3, <2>4, <2>5, <2>6 DEF Next, Handle, Produce
<1>2. IInv /\ [Next]_vars => [producer' # producer => Later \/ Turn \/ Along]_vars
  <2> HIDE DEF Later, Turn, Along
  <2> QED BY <1>1
<1> QED BY <1>2, Invariance, PTL DEF Spec, StreamAdvances
=============================================================================
