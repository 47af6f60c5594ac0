--------------------------- MODULE DesktopProofs ----------------------------
(***************************************************************************)
(* Proofs about three parts of the main process.  Of TaskProtocol: no task *)
(* is stranded, each has one last message, a start finds the worker        *)
(* without traces of its task, and what the coordinator publishes follows  *)
(* TaskLife, for every set of tasks, every capacity and whichever sends    *)
(* throw.  Of Ocr: a completed recognition has seen each wanted page once, *)
(* and a finished one leaves nothing behind, for any number of runs and    *)
(* pages.  Of Shell: at most one desktop at a time, and what a released    *)
(* one leaves behind, for every number of launches.                        *)
(***************************************************************************)
EXTENDS TaskProtocol, Ocr, Shell, SequenceTheorems, TLAPS

-----------------------------------------------------------------------------
(* Utility tasks *)

Turns == turn \in [DOMAIN turn -> {"waiting", "aborted"}]

\* What a process that is gone leaves on the channel
Quiet ==
    /\ disposed => ~port
    /\ ~port => ~child /\ responses = <<>>
    /\ ~child => requests = <<>> /\ DOMAIN turn = {}

\* A task whose start was never posted is known to nobody.
Unknown ==
    \A t \in Tasks \ posted :
        /\ t \notin active /\ published[t] = <<>>
        /\ t \notin DOMAIN turn /\ t \notin Range(terminal)
        /\ t \notin Range(pendingCancellation)
        /\ \A i \in DOMAIN requests : requests[i].task # t
        /\ \A i \in DOMAIN responses : responses[i].task # t

\* A start is the first request of its task, and it finds no trace of the task.
StartFirst ==
    \A i, j \in DOMAIN requests :
        requests[i].type = "start" /\ j < i => requests[j].task # requests[i].task

StartFindsNothing ==
    \A i \in DOMAIN requests : requests[i].type = "start" =>
        /\ requests[i].task \notin DOMAIN turn
        /\ requests[i].task \notin Range(terminal)
        /\ requests[i].task \notin Range(pendingCancellation)
        /\ published[requests[i].task] = <<>>
        /\ \A k \in DOMAIN responses : responses[k].task # requests[i].task

\* "running" is the first a worker says of a task.
RunningFirst ==
    \A i \in DOMAIN responses : responses[i].type = "running" =>
        /\ published[responses[i].task] = <<>>
        /\ \A j \in DOMAIN responses : j < i => responses[j].task # responses[i].task

\* Before the message at i, nothing but "running" is under way or was shown of t.
Running(t, i) ==
    /\ \A j \in DOMAIN responses : j < i /\ responses[j].task = t => responses[j].type = "running"
    /\ t \in active =>
          \/ published[t] = <<"running">>
          \/ /\ published[t] = <<>>
             /\ \E j \in DOMAIN responses : j < i /\ responses[j] = Message("running", t)

PhaseAfterRunning ==
    \A i \in DOMAIN responses :
        responses[i].type \in {"completed", "cancelled"} => Running(responses[i].task, i)

TurnAfterRunning == \A t \in DOMAIN turn : Running(t, Len(responses) + 1)

\* Nobody but the user cancels.
CancelAsked == \A i \in DOMAIN requests :
    requests[i].type = "cancel" /\ requests[i].task \in active
        => requests[i].task \in cancellationRequested

AbortAsked == \A t \in DOMAIN turn :
    turn[t] = "aborted" /\ t \in active => t \in cancellationRequested

CancelledAsked == \A i \in DOMAIN responses :
    responses[i].type = "cancelled" /\ responses[i].task \in active
        => responses[i].task \in cancellationRequested

Asked == CancelAsked /\ AbortAsked /\ CancelledAsked

TypeInv == TypeOK /\ Turns /\ Quiet

TaskInv ==
    /\ TypeInv
    /\ Unknown /\ StartFirst /\ StartFindsNothing
    /\ RunningFirst /\ PhaseAfterRunning /\ TurnAfterRunning /\ OneTerminal
    /\ Asked /\ NoTaskStranded

-----------------------------------------------------------------------------
(* Queues and remembered ids *)

LEMMA TailAt ==
    ASSUME NEW S, NEW q \in Seq(S), q # <<>>
    PROVE  /\ Tail(q) \in Seq(S) /\ Head(q) = q[1] /\ 1 \in DOMAIN q
           /\ Len(q) \in Nat \ {0} /\ DOMAIN q = 1..Len(q)
           /\ Len(Tail(q)) = Len(q) - 1 /\ DOMAIN Tail(q) = 1..(Len(q) - 1)
           /\ \A i \in DOMAIN Tail(q) : i + 1 \in DOMAIN q /\ Tail(q)[i] = q[i + 1]
OBVIOUS

LEMMA AppendAt ==
    ASSUME NEW S, NEW q \in Seq(S), NEW m \in S
    PROVE  /\ Append(q, m) \in Seq(S)
           /\ Len(q) \in Nat /\ DOMAIN q = 1..Len(q)
           /\ Len(Append(q, m)) = Len(q) + 1 /\ DOMAIN Append(q, m) = 1..(Len(q) + 1)
           /\ \A i \in DOMAIN q : i \in DOMAIN Append(q, m) /\ Append(q, m)[i] = q[i]
           /\ Append(q, m)[Len(q) + 1] = m
OBVIOUS

\* The ids that are remembered keep within the capacity, and only t is new among them.
LEMMA RememberBounded ==
    ASSUME NEW S, NEW ids \in Seq(S), NEW t \in S,
           NEW capacity \in Nat \ {0}, Len(ids) <= capacity
    PROVE  /\ Remember(ids, t, capacity) \in Seq(S)
           /\ Len(Remember(ids, t, capacity)) <= capacity
           /\ Range(Remember(ids, t, capacity)) \subseteq Range(ids) \cup {t}
<1> DEFINE more == IF t \in Range(ids) THEN ids ELSE Append(ids, t)
<1>1. /\ more \in Seq(S) /\ Len(more) <= capacity + 1
      /\ Range(more) \subseteq Range(ids) \cup {t}
    BY DEF Range
<1>2. CASE Len(more) > capacity
    <2>1. more # <<>>
        BY <1>2, <1>1
    <2>2. /\ Tail(more) \in Seq(S) /\ Len(Tail(more)) = Len(more) - 1
          /\ \A i \in DOMAIN Tail(more) : i + 1 \in DOMAIN more /\ Tail(more)[i] = more[i + 1]
        BY <1>1, <2>1, TailAt
    <2>3. Range(Tail(more)) \subseteq Range(more)
        BY <2>2 DEF Range
    <2>4. Remember(ids, t, capacity) = Tail(more)
        BY <1>2 DEF Remember
    <2> QED
        BY <1>1, <2>2, <2>3, <2>4
<1>3. CASE ~(Len(more) > capacity)
    <2>1. Remember(ids, t, capacity) = more
        BY <1>3 DEF Remember
    <2> QED
        BY <1>1, <1>3, <2>1
<1> QED
    BY <1>2, <1>3

LEMMA CutBefore ==
    ASSUME NEW t, NEW messages, NEW said \in Cut(t, messages)
    PROVE  \E i \in 0..(Len(messages) - 1) :
               said = Before(messages, i) \o <<Message("worker-failure", t)>>
BY DEF Cut

\* When a send throws, worker-failure stands in the place of the rest.
LEMMA CutMessages ==
    ASSUME NEW t \in Tasks, NEW a \in Response, NEW b \in Response
    PROVE  /\ \A said \in Cut(t, <<a>>) : said = <<Message("worker-failure", t)>>
           /\ \A said \in Cut(t, <<a, b>>) :
                 \/ said = <<Message("worker-failure", t)>>
                 \/ said = <<a, Message("worker-failure", t)>>
<1>1. PICK m : m = Message("worker-failure", t)
    OBVIOUS
<1>2. m \in Response
    BY <1>1 DEF Message, Response
<1>3. /\ <<m>> \in Seq(Response) /\ <<a>> \in Seq(Response) /\ <<a, b>> \in Seq(Response)
      /\ Len(<<a>>) = 1 /\ Len(<<a, b>>) = 2 /\ <<a, b>>[1] = a
    BY <1>2
<1>4. Before(<<a>>, 0) = <<>> /\ Before(<<a, b>>, 0) = <<>>
    BY <1>3, SubSeqEmpty DEF Before
<1>5. Before(<<a, b>>, 1) = <<a>>
    <2>1. \A i \in 1..1 : <<a, b>>[i] \in Response
        BY <1>3
    <2>2. /\ SubSeq(<<a, b>>, 1, 1) \in Seq(Response) /\ Len(SubSeq(<<a, b>>, 1, 1)) = 1
          /\ \A i \in 1..1 : SubSeq(<<a, b>>, 1, 1)[i] = <<a, b>>[1 + i - 1]
        BY <2>1, SubSeqProperties
    <2>3. \A i \in 1..1 : SubSeq(<<a, b>>, 1, 1)[i] = <<a>>[i]
        BY <2>2
    <2> QED
        BY <1>3, <2>2, <2>3, SeqEqual DEF Before
<1>6. <<>> \o <<m>> = <<m>>
    BY <1>3, ConcatEmptySeq
<1>7. <<a>> \o <<m>> = <<a, m>>
    <2>1. /\ <<a>> \o <<m>> \in Seq(Response) /\ Len(<<a>> \o <<m>>) = 2
          /\ \A i \in 1..2 : (<<a>> \o <<m>>)[i] = IF i <= 1 THEN <<a>>[i] ELSE <<m>>[i - 1]
        BY <1>3, <1>2, ConcatProperties
    <2>2. <<a, m>> \in Seq(Response) /\ Len(<<a, m>>) = 2
        BY <1>2
    <2>3. \A i \in 1..2 : (<<a>> \o <<m>>)[i] = <<a, m>>[i]
        BY <2>1
    <2> QED
        BY <2>1, <2>2, <2>3, SeqEqual
<1>8. ASSUME NEW said \in Cut(t, <<a>>)
      PROVE  said = <<m>>
    <2>1. PICK i \in 0..(Len(<<a>>) - 1) : said = Before(<<a>>, i) \o <<m>>
        BY <1>1, <1>8, CutBefore
    <2>2. i = 0
        BY <1>3
    <2> QED
        BY <2>1, <2>2, <1>4, <1>6
<1>9. ASSUME NEW said \in Cut(t, <<a, b>>)
      PROVE  said = <<m>> \/ said = <<a, m>>
    <2>1. PICK i \in 0..(Len(<<a, b>>) - 1) : said = Before(<<a, b>>, i) \o <<m>>
        BY <1>1, <1>9, CutBefore
    <2>2. i = 0 \/ i = 1
        BY <1>3
    <2> QED
        BY <2>1, <2>2, <1>4, <1>5, <1>6, <1>7
<1> QED
    BY <1>1, <1>8, <1>9

\* One message after the others, or two
LEMMA SaysOne ==
    ASSUME NEW S, NEW q \in Seq(S), NEW a \in S
    PROVE  q \o <<a>> = Append(q, a)
BY AppendIsConcat

LEMMA SaysTwo ==
    ASSUME NEW S, NEW q \in Seq(S), NEW a \in S, NEW b \in S
    PROVE  q \o <<a, b>> = Append(Append(q, a), b)
<1>1. /\ <<a, b>> \in Seq(S) /\ Len(<<a, b>>) = 2
      /\ <<a, b>>[1] = a /\ <<a, b>>[2] = b
    OBVIOUS
<1>2. /\ q \o <<a, b>> \in Seq(S) /\ Len(q) \in Nat /\ Len(q \o <<a, b>>) = Len(q) + 2
      /\ \A i \in 1..(Len(q) + 2) :
            (q \o <<a, b>>)[i] = IF i <= Len(q) THEN q[i] ELSE <<a, b>>[i - Len(q)]
    BY <1>1, ConcatProperties, LenProperties
<1>3. PICK p : p = Append(q, a)
    OBVIOUS
<1>4. /\ p \in Seq(S) /\ Len(p) = Len(q) + 1
      /\ \A i \in 1..Len(q) : p[i] = q[i]
      /\ p[Len(q) + 1] = a
    BY <1>3, AppendProperties
<1>5. /\ Append(p, b) \in Seq(S) /\ Len(Append(p, b)) = Len(p) + 1
      /\ \A i \in 1..Len(p) : Append(p, b)[i] = p[i]
      /\ Append(p, b)[Len(p) + 1] = b
    BY <1>4, AppendProperties
<1>6. ASSUME NEW i \in 1..(Len(q) + 2)
      PROVE  (q \o <<a, b>>)[i] = Append(p, b)[i]
    <2>1. CASE i \in 1..Len(q)
        BY <2>1, <1>2, <1>4, <1>5
    <2>2. CASE i = Len(q) + 1
        BY <2>2, <1>1, <1>2, <1>4, <1>5
    <2>3. CASE i = Len(q) + 2
        BY <2>3, <1>1, <1>2, <1>4, <1>5
    <2>4. i \in 1..Len(q) \/ i = Len(q) + 1 \/ i = Len(q) + 2
        BY <1>2
    <2> QED
        BY <2>1, <2>2, <2>3, <2>4
<1> QED
    BY <1>2, <1>3, <1>4, <1>5, <1>6, SeqEqual

-----------------------------------------------------------------------------
(* What the worker says when a task ends *)

\* The new messages are t's, an end stands last, and "cancelled" answers an abort.
EndSaid(t) ==
    /\ responses' \in Seq(Response)
    /\ Len(responses') \in {Len(responses) + 1, Len(responses) + 2}
    /\ \A i \in DOMAIN responses : i \in DOMAIN responses' /\ responses'[i] = responses[i]
    /\ \A i \in DOMAIN responses' : i > Len(responses) =>
          /\ responses'[i].task = t /\ responses'[i].type # "running"
          /\ responses'[i].type \in Ends <=> i = Len(responses')
          /\ responses'[i].type \in {"completed", "cancelled"} =>
                i = Len(responses) + 1 /\ t \in DOMAIN turn
          /\ responses'[i].type = "cancelled" => turn[t] = "aborted"

LEMMA EndSaysOne ==
    ASSUME NEW t \in Tasks, NEW type \in Ends, responses \in Seq(Response),
           responses' = responses \o <<Message(type, t)>>,
           type = "cancelled" => t \in DOMAIN turn /\ turn[t] = "aborted"
    PROVE  EndSaid(t)
<1>1. PICK m : m = Message(type, t)
    OBVIOUS
<1>2. m \in Response /\ m.task = t /\ m.type = type
    BY <1>1 DEF Message, Response, Ends
<1>3. responses' = Append(responses, m)
    BY <1>1, <1>2, SaysOne
<1> QED
    BY <1>2, <1>3, AppendAt DEF EndSaid, Ends

LEMMA EndSaysTwo ==
    ASSUME NEW t \in DOMAIN turn, t \in Tasks,
           NEW type \in Ends \ {"cancelled"}, responses \in Seq(Response),
           responses' = responses \o <<Message("completed", t), Message(type, t)>>
    PROVE  EndSaid(t)
<1>1. PICK a : a = Message("completed", t)
    OBVIOUS
<1>2. PICK m : m = Message(type, t)
    OBVIOUS
<1>3. /\ m \in Response /\ m.task = t /\ m.type = type
      /\ a \in Response /\ a.task = t /\ a.type = "completed"
    BY <1>1, <1>2 DEF Message, Response, Ends
<1>4. PICK p : p = Append(responses, a)
    OBVIOUS
<1>5. /\ p \in Seq(Response) /\ Len(responses) \in Nat /\ DOMAIN responses = 1..Len(responses)
      /\ Len(p) = Len(responses) + 1 /\ DOMAIN p = 1..(Len(responses) + 1)
      /\ \A i \in DOMAIN responses : i \in DOMAIN p /\ p[i] = responses[i]
      /\ p[Len(responses) + 1] = a
    BY <1>3, <1>4, AppendAt
<1>6. responses' = Append(p, m)
    BY <1>1, <1>2, <1>3, <1>4, SaysTwo
<1>7. /\ responses' \in Seq(Response)
      /\ Len(responses') = Len(p) + 1 /\ DOMAIN responses' = 1..(Len(p) + 1)
      /\ \A i \in DOMAIN p : i \in DOMAIN responses' /\ responses'[i] = p[i]
      /\ responses'[Len(p) + 1] = m
    BY <1>3, <1>5, <1>6, AppendAt
<1>8. ASSUME NEW i \in DOMAIN responses', i > Len(responses)
      PROVE  /\ i = Len(responses) + 1 => responses'[i] = a
             /\ i # Len(responses) + 1 => i = Len(responses') /\ responses'[i] = m
    BY <1>5, <1>7, <1>8
<1> QED
    BY <1>3, <1>5, <1>7, <1>8 DEF EndSaid, Ends

LEMMA StartFailsSays ==
    ASSUME NEW t \in Tasks, responses \in Seq(Response),
           EndTask(t, Cut(t, <<Message("running", t)>>))
    PROVE  EndSaid(t)
<1>1. Message("running", t) \in Response
    BY DEF Message, Response
<1>2. PICK said \in Cut(t, <<Message("running", t)>>) : responses' = responses \o said
    BY DEF EndTask
<1>3. said = <<Message("worker-failure", t)>>
    BY <1>1, <1>2, CutMessages
<1>4. "worker-failure" \in Ends /\ "worker-failure" # "cancelled"
    BY DEF Ends
<1> QED
    BY <1>2, <1>3, <1>4, EndSaysOne

LEMMA TurnSays ==
    ASSUME NEW t \in Tasks, responses \in Seq(Response), TakeTurn(t)
    PROVE  EndSaid(t)
<1>1. PICK a, b, c : /\ a = Message("completed", t) /\ b = Message("result", t)
                     /\ c = Message("cancelled", t)
    OBVIOUS
<1>2. a \in Response /\ b \in Response /\ c \in Response
    BY <1>1 DEF Message, Response
<1>3. /\ "worker-failure" \in Ends \ {"cancelled"} /\ "result" \in Ends \ {"cancelled"}
      /\ "cancelled" \in Ends
    BY DEF Ends
<1>4. t \in DOMAIN turn
    BY DEF TakeTurn
<1>5. CASE turn[t] = "aborted"
    <2>1. EndTask(t, {<<c>>} \cup Cut(t, <<c>>))
        BY <1>1, <1>5 DEF TakeTurn
    <2>2. PICK said \in {<<c>>} \cup Cut(t, <<c>>) : responses' = responses \o said
        BY <2>1 DEF EndTask
    <2>3. said = <<c>> \/ said = <<Message("worker-failure", t)>>
        BY <1>2, <2>2, CutMessages
    <2> QED
        BY <1>1, <1>3, <1>4, <1>5, <2>2, <2>3, EndSaysOne
<1>6. CASE turn[t] # "aborted"
    <2>1. EndTask(t, {<<a, b>>} \cup Cut(t, <<a, b>>))
        BY <1>1, <1>6 DEF TakeTurn
    <2>2. PICK said \in {<<a, b>>} \cup Cut(t, <<a, b>>) : responses' = responses \o said
        BY <2>1 DEF EndTask
    <2>3. \/ said = <<a, b>> \/ said = <<Message("worker-failure", t)>>
          \/ said = <<a, Message("worker-failure", t)>>
        BY <1>2, <2>2, CutMessages
    <2> QED
        BY <1>1, <1>3, <1>4, <2>2, <2>3, EndSaysOne, EndSaysTwo
<1> QED
    BY <1>5, <1>6

-----------------------------------------------------------------------------
(* Types *)

LEMMA MessageTyped ==
    ASSUME NEW t \in Tasks
    PROVE  /\ \A type \in {"start", "cancel"} :
                 /\ Message(type, t) \in Request
                 /\ Message(type, t).type = type /\ Message(type, t).task = t
           /\ \A type \in {"running", "completed", "result", "cancelled", "worker-failure"} :
                 /\ Message(type, t) \in Response
                 /\ Message(type, t).type = type /\ Message(type, t).task = t
BY DEF Message, Request, Response

\* What the worker takes is the first of the requests.
LEMMA RequestTaken ==
    ASSUME TypeInv, NEW t \in Tasks, NEW type \in {"start", "cancel"}, Requested(type, t)
    PROVE  /\ child /\ port /\ ~disposed
           /\ requests' \in Seq(Request)
           /\ requests[1].type = type /\ requests[1].task = t /\ 1 \in DOMAIN requests
           /\ Len(requests) \in Nat \ {0}
           /\ DOMAIN requests = 1..Len(requests) /\ DOMAIN requests' = 1..(Len(requests) - 1)
           /\ \A i \in DOMAIN requests' : i + 1 \in DOMAIN requests /\ requests'[i] = requests[i + 1]
           /\ UNCHANGED <<active, issued, cancellationRequested, disposed, port, child,
                          published, posted>>
BY TailAt, MessageTyped DEF TypeInv, TypeOK, Quiet, Requested, coordinator, history

\* The task has left the worker's turns, and the worker remembers it.
LEMMA TaskEnded ==
    ASSUME TypeInv, NEW t \in Tasks, NEW sayings, EndTask(t, sayings)
    PROVE  /\ DOMAIN turn' = DOMAIN turn \ {t} /\ \A u \in DOMAIN turn' : turn'[u] = turn[u]
           /\ terminal' \in Seq(Tasks) /\ Len(terminal') <= TerminalCapacity
           /\ Range(terminal') \subseteq Range(terminal) \cup {t}
           /\ Turns'
<1>1. TerminalCapacity \in Nat \ {0}
    BY CapacityAssumption
<1> QED
    BY <1>1, RememberBounded DEF TypeInv, TypeOK, Turns, EndTask

LEMMA InitialTypes == Init => TypeInv
<1>1. 0 <= IssuedCapacity /\ 0 <= TerminalCapacity /\ 0 <= PendingCapacity
    BY CapacityAssumption
<1>2. /\ <<>> \in Seq(Tasks) /\ <<>> \in Seq(Request) /\ <<>> \in Seq(Response)
      /\ Len(<<>>) = 0
    OBVIOUS
<1> SUFFICES ASSUME Init PROVE TypeInv
    OBVIOUS
<1>3. published \in [Tasks -> Seq({"running", "completed", "cancelled"})]
    <2>1. <<>> \in Seq({"running", "completed", "cancelled"})
        OBVIOUS
    <2> QED
        BY <2>1 DEF Init
<1>4. DOMAIN turn = {} /\ Range(turn) = {} /\ Turns
    BY DEF Init, Range, Turns
<1> QED
    BY <1>1, <1>2, <1>3, <1>4 DEF Init, TypeInv, TypeOK, Quiet

LEMMA SeveredTypes ==
    ASSUME TypeInv, Severed, active' = {}, cancellationRequested' = {}, issued' = issued,
           disposed' \in BOOLEAN, UNCHANGED history
    PROVE  TypeInv'
<1>1. 0 <= IssuedCapacity /\ 0 <= TerminalCapacity /\ 0 <= PendingCapacity
    BY CapacityAssumption
<1>2. /\ <<>> \in Seq(Tasks) /\ <<>> \in Seq(Request) /\ <<>> \in Seq(Response)
      /\ Len(<<>>) = 0
    OBVIOUS
<1>3. DOMAIN turn' = {} /\ Range(turn') = {} /\ Turns'
    BY DEF Severed, Range, Turns
<1> QED
    BY <1>1, <1>2, <1>3 DEF Severed, TypeInv, TypeOK, Quiet, history

LEMMA TypeStep == TypeInv /\ [Next]_vars => TypeInv'
<1> SUFFICES ASSUME TypeInv, [Next]_vars PROVE TypeInv'
    OBVIOUS
<1>0. {IssuedCapacity, TerminalCapacity, PendingCapacity} \subseteq Nat \ {0}
    BY CapacityAssumption
<1>1. ASSUME NEW t \in Tasks, Start(t) PROVE TypeInv'
    <2>1. issued' \in Seq(Tasks) /\ Len(issued') <= IssuedCapacity
        BY <1>0, <1>1, RememberBounded DEF TypeInv, TypeOK, Start
    <2>2. requests' \in Seq(Request) /\ (~child => requests' = requests)
        BY <1>1, MessageTyped DEF TypeInv, TypeOK, Start
    <2> QED
        BY <1>1, <2>1, <2>2 DEF Start, TypeInv, TypeOK, Turns, Quiet, worker
<1>2. ASSUME NEW t \in Tasks, Cancel(t) PROVE TypeInv'
    <2>1. requests' \in Seq(Request) /\ (~child => requests' = requests)
        BY <1>2, MessageTyped DEF TypeInv, TypeOK, Cancel
    <2> QED
        BY <1>2, <2>1 DEF Cancel, TypeInv, TypeOK, Turns, Quiet, worker, history
<1>3. ASSUME NEW t \in Tasks, ReceiveStart(t) PROVE TypeInv'
    <2>1. /\ UNCHANGED pendingCancellation
          /\ child /\ port /\ ~disposed /\ requests' \in Seq(Request)
          /\ UNCHANGED <<active, issued, cancellationRequested, disposed, port, child,
                          published, posted>>
        BY <1>3, RequestTaken DEF ReceiveStart
    <2>2. CASE /\ responses' = Append(responses, Message("running", t))
               /\ turn' = [u \in DOMAIN turn \cup {t} |-> IF u = t THEN "waiting" ELSE turn[u]]
               /\ UNCHANGED terminal
        <3>1. responses' \in Seq(Response)
            BY <2>2, MessageTyped DEF TypeInv, TypeOK
        <3>2. Turns' /\ DOMAIN turn' \subseteq Tasks /\ Range(turn') \subseteq {"waiting", "aborted"}
            BY <2>2 DEF TypeInv, TypeOK, Turns, Range
        <3>3. UNCHANGED terminal
            BY <2>2
        <3> QED
            BY <2>1, <3>1, <3>2, <3>3 DEF TypeInv, TypeOK, Quiet
    <2>3. CASE EndTask(t, Cut(t, <<Message("running", t)>>))
        <3>1. responses' \in Seq(Response)
            BY <2>3, StartFailsSays DEF TypeInv, TypeOK, EndSaid
        <3>2. /\ Turns' /\ DOMAIN turn' = DOMAIN turn \ {t}
              /\ terminal' \in Seq(Tasks) /\ Len(terminal') <= TerminalCapacity
            BY <2>3, TaskEnded
        <3>3. DOMAIN turn' \subseteq Tasks /\ Range(turn') \subseteq {"waiting", "aborted"}
            BY <3>2 DEF TypeInv, TypeOK, Turns, Range
        <3> QED
            BY <2>1, <3>1, <3>2, <3>3 DEF TypeInv, TypeOK, Quiet
    <2> QED
        BY <1>3, <2>2, <2>3 DEF ReceiveStart
<1>4. ASSUME NEW t \in Tasks, AbortTurn(t) PROVE TypeInv'
    <2>1. Requested("cancel", t)
        BY <1>4 DEF AbortTurn
    <2>2. Turns' /\ DOMAIN turn' = DOMAIN turn /\ Range(turn') \subseteq {"waiting", "aborted"}
        BY <1>4 DEF AbortTurn, TypeInv, TypeOK, Turns, Range
    <2> QED
        BY <1>4, <2>1, <2>2, RequestTaken DEF AbortTurn, TypeInv, TypeOK, Quiet
<1>5. ASSUME NEW t \in Tasks, ReceiveLateCancel(t) PROVE TypeInv'
    <2>1. Requested("cancel", t)
        BY <1>5 DEF ReceiveLateCancel
    <2>2. pendingCancellation' \in Seq(Tasks) /\ Len(pendingCancellation') <= PendingCapacity
        BY <1>0, <1>5, RememberBounded DEF ReceiveLateCancel, TypeInv, TypeOK
    <2> QED
        BY <1>5, <2>1, <2>2, RequestTaken DEF ReceiveLateCancel, TypeInv, TypeOK, Turns, Quiet
<1>6. ASSUME NEW t \in Tasks, TakeTurn(t) PROVE TypeInv'
    <2>1. PICK sayings : EndTask(t, sayings)
        BY <1>6 DEF TakeTurn
    <2>2. responses' \in Seq(Response)
        BY <1>6, TurnSays DEF TypeInv, TypeOK, EndSaid
    <2>3. /\ Turns' /\ DOMAIN turn' = DOMAIN turn \ {t}
          /\ terminal' \in Seq(Tasks) /\ Len(terminal') <= TerminalCapacity
        BY <2>1, TaskEnded
    <2>4. DOMAIN turn' \subseteq Tasks /\ Range(turn') \subseteq {"waiting", "aborted"}
        BY <2>3 DEF TypeInv, TypeOK, Turns, Range
    <2>5. /\ UNCHANGED <<active, issued, cancellationRequested, disposed, port, child, requests,
                         pendingCancellation, published, posted>>
          /\ child
        BY <1>6 DEF TakeTurn, coordinator, history
    <2> QED
        BY <2>2, <2>3, <2>4, <2>5 DEF TypeInv, TypeOK, Quiet
<1>7. ASSUME ReceiveResponse PROVE TypeInv'
    <2>1. responses' \in Seq(Response) /\ Head(responses) \in Response
        BY <1>7, HeadTailProperties DEF ReceiveResponse, TypeInv, TypeOK
    <2>2. /\ published' \in [Tasks -> Seq({"running", "completed", "cancelled"})]
          /\ active' \subseteq Tasks /\ cancellationRequested' \subseteq active'
        <3>1. PICK r : r = Head(responses)
            OBVIOUS
        <3>2. CASE r.task \in active /\ r.type \in {"running", "completed", "cancelled"}
            <4>1. Publish(r.task, r.type)
                BY <1>7, <3>1, <3>2 DEF ReceiveResponse
            <4>2. published' \in [Tasks -> Seq({"running", "completed", "cancelled"})]
                BY <3>2, <4>1, AppendAt DEF Publish, TypeInv, TypeOK
            <4> QED
                BY <1>7, <3>1, <4>2 DEF ReceiveResponse, Forget, TypeInv, TypeOK
        <3>3. CASE ~(r.task \in active /\ r.type \in {"running", "completed", "cancelled"})
            BY <1>7, <3>1, <3>3 DEF ReceiveResponse, Forget, TypeInv, TypeOK
        <3> QED
            BY <3>2, <3>3
    <2>3. /\ UNCHANGED <<issued, disposed, port, child, requests, turn, terminal,
                         pendingCancellation, posted>>
          /\ ~disposed /\ port
        BY <1>7 DEF ReceiveResponse, worker
    <2> QED
        BY <2>1, <2>2, <2>3 DEF TypeInv, TypeOK, Turns, Quiet
<1>8. ASSUME Disconnect PROVE TypeInv'
    BY <1>8, SeveredTypes DEF Disconnect, TypeInv, TypeOK
<1>9. ASSUME Dispose PROVE TypeInv'
    BY <1>9, SeveredTypes DEF Dispose
<1>10. ASSUME ChildExits PROVE TypeInv'
    <2>1. DOMAIN turn' = {} /\ Range(turn') = {} /\ Turns'
        BY <1>10 DEF ChildExits, Range, Turns
    <2>2. /\ requests' \in Seq(Request) /\ terminal' \in Seq(Tasks) /\ Len(terminal') = 0
          /\ pendingCancellation' \in Seq(Tasks) /\ Len(pendingCancellation') = 0
          /\ 0 <= TerminalCapacity /\ 0 <= PendingCapacity
        BY <1>0, <1>10 DEF ChildExits
    <2> QED
        BY <1>10, <2>1, <2>2 DEF ChildExits, TypeInv, TypeOK, Quiet, coordinator, history
<1>11. CASE UNCHANGED vars
    BY <1>11 DEF vars, coordinator, worker, history, TypeInv, TypeOK, Turns, Quiet
<1> QED
    BY <1>1, <1>2, <1>3, <1>4, <1>5, <1>6, <1>7, <1>8, <1>9, <1>10, <1>11
    DEF Next, WorkerReceives

-----------------------------------------------------------------------------
(* The main process's steps *)

LEMMA RequestPosted ==
    ASSUME TypeInv, NEW t \in Tasks, NEW type \in {"start", "cancel"},
           requests' = IF child THEN Append(requests, Message(type, t)) ELSE requests
    PROVE  /\ Len(requests) \in Nat /\ DOMAIN requests = 1..Len(requests)
           /\ \A i \in DOMAIN requests : i \in DOMAIN requests' /\ requests'[i] = requests[i]
           /\ \A i \in DOMAIN requests' \ DOMAIN requests :
                 /\ i = Len(requests) + 1 /\ child
                 /\ requests'[i].type = type /\ requests'[i].task = t
           /\ child => \E i \in DOMAIN requests' : requests'[i] = Message(type, t)
<1>1. Message(type, t) \in Request /\ Message(type, t).type = type /\ Message(type, t).task = t
    BY MessageTyped
<1>2. requests \in Seq(Request)
    BY DEF TypeInv, TypeOK
<1> QED
    BY <1>1, <1>2, AppendAt

\* The coordinator's step leaves the worker and its answers alone.
LEMMA StartKeeps ==
    ASSUME TaskInv, NEW t \in Tasks, Start(t), TypeInv'
    PROVE  TaskInv'
<1>0. /\ TypeInv /\ Unknown /\ StartFirst /\ StartFindsNothing /\ RunningFirst
      /\ PhaseAfterRunning /\ TurnAfterRunning /\ OneTerminal /\ Asked /\ NoTaskStranded
    BY DEF TaskInv
<1>1. /\ Len(requests) \in Nat /\ DOMAIN requests = 1..Len(requests)
      /\ \A i \in DOMAIN requests : i \in DOMAIN requests' /\ requests'[i] = requests[i]
      /\ \A i \in DOMAIN requests' \ DOMAIN requests :
            /\ i = Len(requests) + 1 /\ child
            /\ requests'[i].type = "start" /\ requests'[i].task = t
      /\ child => \E i \in DOMAIN requests' : requests'[i] = Message("start", t)
    <2>1. requests' = IF child THEN Append(requests, Message("start", t)) ELSE requests
        BY DEF Start
    <2> QED
        BY <1>0, <2>1, RequestPosted
<1>2. /\ t \notin posted /\ t \notin active
      /\ active' = active \cup {t} /\ posted' = posted \cup {t}
      /\ UNCHANGED <<cancellationRequested, child, responses, turn, terminal,
                     pendingCancellation, published>>
    BY DEF Start, worker
<1>3. /\ t \notin DOMAIN turn /\ t \notin Range(terminal) /\ t \notin Range(pendingCancellation)
      /\ published[t] = <<>>
      /\ \A i \in DOMAIN requests : requests[i].task # t
      /\ \A i \in DOMAIN responses : responses[i].task # t
    BY <1>0, <1>2 DEF Unknown
<1>4. Unknown'
    BY <1>0, <1>1, <1>2 DEF Unknown
<1>5. StartFirst'
    BY <1>0, <1>1, <1>3 DEF StartFirst
<1>6. StartFindsNothing'
    BY <1>0, <1>1, <1>2, <1>3 DEF StartFindsNothing
<1>7. RunningFirst'
    BY <1>0, <1>2 DEF RunningFirst
<1>8. PhaseAfterRunning' /\ TurnAfterRunning'
    BY <1>0, <1>2, <1>3 DEF PhaseAfterRunning, TurnAfterRunning, Running
<1>9. OneTerminal'
    BY <1>0, <1>2 DEF OneTerminal
<1>10. Asked'
    BY <1>0, <1>1, <1>2, <1>3 DEF Asked, CancelAsked, AbortAsked, CancelledAsked
<1>11. NoTaskStranded'
    BY <1>0, <1>1, <1>2 DEF NoTaskStranded, InFlight, Range
<1> QED
    BY <1>4, <1>5, <1>6, <1>7, <1>8, <1>9, <1>10, <1>11 DEF TaskInv

LEMMA CancelKeeps ==
    ASSUME TaskInv, NEW t \in Tasks, Cancel(t), TypeInv'
    PROVE  TaskInv'
<1>0. /\ TypeInv /\ Unknown /\ StartFirst /\ StartFindsNothing /\ RunningFirst
      /\ PhaseAfterRunning /\ TurnAfterRunning /\ OneTerminal /\ Asked /\ NoTaskStranded
    BY DEF TaskInv
<1>1. /\ Len(requests) \in Nat /\ DOMAIN requests = 1..Len(requests)
      /\ \A i \in DOMAIN requests : i \in DOMAIN requests' /\ requests'[i] = requests[i]
      /\ \A i \in DOMAIN requests' \ DOMAIN requests :
            /\ i = Len(requests) + 1 /\ child
            /\ requests'[i].type = "cancel" /\ requests'[i].task = t
    <2>1. requests' = IF child THEN Append(requests, Message("cancel", t)) ELSE requests
        BY DEF Cancel
    <2> QED
        BY <1>0, <2>1, RequestPosted
<1>2. /\ t \in active /\ cancellationRequested' = cancellationRequested \cup {t}
      /\ UNCHANGED <<active, child, responses, turn, terminal, pendingCancellation,
                     published, posted>>
    BY DEF Cancel, worker, history
<1>4. Unknown'
    BY <1>0, <1>1, <1>2 DEF Unknown
<1>5. StartFirst'
    BY <1>0, <1>1 DEF StartFirst
<1>6. StartFindsNothing'
    BY <1>0, <1>1, <1>2 DEF StartFindsNothing
<1>7. RunningFirst'
    BY <1>0, <1>2 DEF RunningFirst
<1>8. PhaseAfterRunning' /\ TurnAfterRunning'
    BY <1>0, <1>2 DEF PhaseAfterRunning, TurnAfterRunning, Running
<1>9. OneTerminal'
    BY <1>0, <1>2 DEF OneTerminal
<1>10. Asked'
    BY <1>0, <1>1, <1>2 DEF Asked, CancelAsked, AbortAsked, CancelledAsked
<1>11. NoTaskStranded'
    BY <1>0, <1>1, <1>2 DEF NoTaskStranded, InFlight, Range
<1> QED
    BY <1>4, <1>5, <1>6, <1>7, <1>8, <1>9, <1>10, <1>11 DEF TaskInv

\* The first answer leaves the queue, and counts if its task is active.
LEMMA ResponseTaken ==
    ASSUME TypeInv, ReceiveResponse
    PROVE  LET r == responses[1] IN
           /\ 1 \in DOMAIN responses /\ r \in Response /\ responses # <<>>
           /\ Len(responses) \in Nat \ {0} /\ Len(responses') = Len(responses) - 1
           /\ DOMAIN responses = 1..Len(responses) /\ DOMAIN responses' = 1..Len(responses')
           /\ \A i \in DOMAIN responses' :
                 i + 1 \in DOMAIN responses /\ responses'[i] = responses[i + 1]
           /\ \A i \in DOMAIN responses : i > 1 =>
                 i - 1 \in DOMAIN responses' /\ responses'[i - 1] = responses[i]
           /\ \/ /\ r.task \in active /\ r.type \in {"running", "completed"}
                 /\ Publish(r.task, r.type)
                 /\ UNCHANGED <<active, cancellationRequested>>
              \/ /\ r.task \in active /\ r.type = "cancelled"
                 /\ Publish(r.task, "cancelled") /\ Forget(r.task)
              \/ /\ r.task \in active /\ r.type \in {"result", "worker-failure"}
                 /\ Forget(r.task) /\ UNCHANGED published
              \/ r.task \notin active /\ UNCHANGED <<active, cancellationRequested, published>>
           /\ UNCHANGED <<child, requests, turn, terminal, pendingCancellation, posted>>
<1>1. responses \in Seq(Response) /\ responses # <<>> /\ responses' = Tail(responses)
    BY DEF TypeInv, TypeOK, ReceiveResponse
<1>2. /\ Head(responses) = responses[1] /\ 1 \in DOMAIN responses
      /\ Len(responses) \in Nat \ {0} /\ DOMAIN responses = 1..Len(responses)
      /\ Len(responses') = Len(responses) - 1 /\ DOMAIN responses' = 1..(Len(responses) - 1)
      /\ \A i \in DOMAIN responses' :
            i + 1 \in DOMAIN responses /\ responses'[i] = responses[i + 1]
    BY <1>1, TailAt
<1>3. responses[1] \in Response
    BY <1>1, <1>2
<1>4. \A i \in DOMAIN responses : i > 1 =>
          i - 1 \in DOMAIN responses' /\ responses'[i - 1] = responses[i]
    BY <1>2
<1> QED
    BY <1>1, <1>2, <1>3, <1>4 DEF ReceiveResponse, worker

LEMMA RunningShifts ==
    ASSUME TaskInv, ReceiveResponse, NEW u \in Tasks, NEW i \in Nat \ {0}, Running(u, i + 1)
    PROVE  Running(u, i)'
<1>1. PICK r : r = responses[1]
    OBVIOUS
<1>2. TypeInv /\ RunningFirst
    BY DEF TaskInv
<1>3. /\ 1 \in DOMAIN responses /\ Len(responses) \in Nat \ {0}
      /\ Len(responses') = Len(responses) - 1
      /\ DOMAIN responses = 1..Len(responses) /\ DOMAIN responses' = 1..Len(responses')
      /\ \A k \in DOMAIN responses' : k + 1 \in DOMAIN responses /\ responses'[k] = responses[k + 1]
      /\ \A k \in DOMAIN responses : k > 1 =>
            k - 1 \in DOMAIN responses' /\ responses'[k - 1] = responses[k]
    BY <1>2, ResponseTaken
<1>4. \/ /\ r.task \in active /\ r.type \in {"running", "completed"}
         /\ Publish(r.task, r.type)
         /\ UNCHANGED <<active, cancellationRequested>>
      \/ /\ r.task \in active /\ r.type = "cancelled"
         /\ Publish(r.task, "cancelled") /\ Forget(r.task)
      \/ /\ r.task \in active /\ r.type \in {"result", "worker-failure"}
         /\ Forget(r.task) /\ UNCHANGED published
      \/ r.task \notin active /\ UNCHANGED <<active, cancellationRequested, published>>
    BY <1>1, <1>2, ResponseTaken
<1>5. ASSUME NEW k \in DOMAIN responses', k < i, responses'[k].task = u
      PROVE  responses'[k].type = "running"
    BY <1>3, <1>5 DEF Running
<1>6. ASSUME u \in active'
      PROVE  \/ published'[u] = <<"running">>
             \/ /\ published'[u] = <<>>
                /\ \E k \in DOMAIN responses' : k < i /\ responses'[k] = Message("running", u)
    <2>1. u \in active
        BY <1>4, <1>6 DEF Forget
    <2>2. CASE r.task = u
        <3>1. r.type = "running"
            BY <1>1, <1>3, <2>2 DEF Running
        <3>2. published[u] = <<>>
            BY <1>1, <1>2, <1>3, <2>2, <3>1 DEF RunningFirst
        <3>3. published' = [published EXCEPT ![u] = Append(@, "running")]
            BY <1>4, <2>1, <2>2, <3>1 DEF Publish
        <3>4. Append(<<>>, "running") = <<"running">>
            OBVIOUS
        <3> QED
            BY <1>2, <3>2, <3>3, <3>4 DEF TypeInv, TypeOK
    <2>3. CASE r.task # u
        <3>1. published'[u] = published[u]
            BY <1>2, <1>4, <2>3 DEF Publish, TypeInv, TypeOK
        <3>2. ASSUME NEW k \in DOMAIN responses, k < i + 1, responses[k] = Message("running", u)
              PROVE  \E n \in DOMAIN responses' : n < i /\ responses'[n] = Message("running", u)
            <4>1. k # 1
                BY <1>1, <2>3, <3>2, MessageTyped
            <4> QED
                BY <1>3, <3>2, <4>1
        <3> QED
            BY <2>1, <3>1, <3>2 DEF Running
    <2> QED
        BY <2>2, <2>3
<1> QED
    BY <1>5, <1>6 DEF Running

LEMMA ResponseKeeps ==
    ASSUME TaskInv, ReceiveResponse, TypeInv'
    PROVE  TaskInv'
<1>0. /\ TypeInv /\ Unknown /\ StartFirst /\ StartFindsNothing /\ RunningFirst
      /\ PhaseAfterRunning /\ TurnAfterRunning /\ OneTerminal /\ Asked /\ NoTaskStranded
    BY DEF TaskInv
<1>1. PICK r : r = responses[1]
    OBVIOUS
<1>2. /\ 1 \in DOMAIN responses /\ r \in Response /\ Len(responses) \in Nat \ {0}
      /\ Len(responses') = Len(responses) - 1
      /\ DOMAIN responses = 1..Len(responses) /\ DOMAIN responses' = 1..Len(responses')
      /\ \A i \in DOMAIN responses' : i + 1 \in DOMAIN responses /\ responses'[i] = responses[i + 1]
      /\ \A i \in DOMAIN responses : i > 1 =>
            i - 1 \in DOMAIN responses' /\ responses'[i - 1] = responses[i]
      /\ UNCHANGED <<child, requests, turn, terminal, pendingCancellation, posted>>
    BY <1>0, <1>1, ResponseTaken
<1>3. \/ /\ r.task \in active /\ r.type \in {"running", "completed"}
         /\ Publish(r.task, r.type)
         /\ UNCHANGED <<active, cancellationRequested>>
      \/ /\ r.task \in active /\ r.type = "cancelled"
         /\ Publish(r.task, "cancelled") /\ Forget(r.task)
      \/ /\ r.task \in active /\ r.type \in {"result", "worker-failure"}
         /\ Forget(r.task) /\ UNCHANGED published
      \/ r.task \notin active /\ UNCHANGED <<active, cancellationRequested, published>>
    BY <1>0, <1>1, ResponseTaken
<1>4. /\ active' \subseteq active /\ active \subseteq active' \cup {r.task}
      /\ \A u \in active' : u \in cancellationRequested => u \in cancellationRequested'
      /\ \A u \in Tasks : u # r.task => published'[u] = published[u]
      /\ r.type \notin Ends => active' = active
    BY <1>0, <1>3 DEF Publish, Forget, Ends, TypeInv, TypeOK
<1>5. Unknown'
    BY <1>0, <1>1, <1>2, <1>4 DEF Unknown, Response
<1>6. StartFirst'
    BY <1>0, <1>2 DEF StartFirst
<1>7. StartFindsNothing'
    <2>1. \A i \in DOMAIN requests : requests[i].type = "start" => r.task # requests[i].task
        BY <1>0, <1>1, <1>2 DEF StartFindsNothing
    <2>2. \A i \in DOMAIN requests : requests[i].task \in Tasks
        <3>1. \A i \in DOMAIN requests : requests[i] \in Request
            BY <1>0 DEF TypeInv, TypeOK
        <3> QED
            BY <3>1 DEF Request
    <2> QED
        BY <1>0, <1>2, <1>4, <2>1, <2>2 DEF StartFindsNothing
<1>8. RunningFirst'
    <2>1. ASSUME NEW i \in DOMAIN responses', responses'[i].type = "running"
          PROVE  /\ published'[responses'[i].task] = <<>>
                 /\ \A k \in DOMAIN responses' : k < i => responses'[k].task # responses'[i].task
        <3>1. /\ i + 1 \in DOMAIN responses /\ responses'[i] = responses[i + 1]
              /\ responses[i + 1] \in Response
            BY <1>0, <1>2 DEF TypeInv, TypeOK
        <3>2. /\ published[responses[i + 1].task] = <<>>
              /\ \A k \in DOMAIN responses : k < i + 1 => responses[k].task # responses[i + 1].task
            BY <1>0, <2>1, <3>1 DEF RunningFirst
        <3>3. r.task # responses[i + 1].task
            BY <1>1, <1>2, <3>1, <3>2
        <3>4. responses[i + 1].task \in Tasks
            BY <3>1 DEF Response
        <3> QED
            BY <1>2, <1>4, <3>1, <3>2, <3>3, <3>4
    <2> QED
        BY <2>1 DEF RunningFirst
<1>9. PhaseAfterRunning'
    <2>1. ASSUME NEW i \in DOMAIN responses', responses'[i].type \in {"completed", "cancelled"}
          PROVE  \A u : u = responses'[i].task => Running(u, i)'
        <3>1. /\ i + 1 \in DOMAIN responses /\ responses'[i] = responses[i + 1]
              /\ responses[i + 1] \in Response /\ i \in Nat \ {0}
            BY <1>0, <1>2 DEF TypeInv, TypeOK
        <3>2. PICK u \in Tasks : u = responses[i + 1].task
            BY <3>1 DEF Response
        <3>3. Running(u, i + 1)
            BY <1>0, <2>1, <3>1, <3>2 DEF PhaseAfterRunning
        <3>4. Running(u, i)'
            BY <3>1, <3>3, RunningShifts
        <3> QED
            BY <3>1, <3>2, <3>4
    <2> QED
        BY <2>1 DEF PhaseAfterRunning, Running
<1>10. TurnAfterRunning'
    <2>1. ASSUME NEW u \in DOMAIN turn
          PROVE  Running(u, Len(responses) + 1)'
        <3>1. u \in Tasks
            BY <1>0 DEF TypeInv, TypeOK
        <3>2. Running(u, Len(responses) + 1)
            BY <1>0 DEF TurnAfterRunning
        <3>3. PICK n : n = Len(responses)
            OBVIOUS
        <3>4. n \in Nat \ {0} /\ Len(responses') + 1 = n
            BY <1>2, <3>3
        <3>5. Running(u, n)'
            BY <3>1, <3>2, <3>3, <3>4, RunningShifts
        <3> QED
            BY <3>4, <3>5
    <2> QED
        BY <1>2, <2>1 DEF TurnAfterRunning
<1>11. OneTerminal'
    BY <1>0, <1>2 DEF OneTerminal
<1>12. Asked'
    BY <1>0, <1>2, <1>4 DEF Asked, CancelAsked, AbortAsked, CancelledAsked
<1>13. NoTaskStranded'
    <2> SUFFICES ASSUME child', NEW u \in active'
                 PROVE  \/ Message("start", u) \in Range(requests') \/ u \in DOMAIN turn'
                        \/ InFlight(u)'
        BY DEF NoTaskStranded
    <2>1. Message("start", u) \in Range(requests) \/ u \in DOMAIN turn \/ InFlight(u)
        BY <1>0, <1>2, <1>4 DEF NoTaskStranded
    <2>2. ASSUME InFlight(u)
          PROVE  InFlight(u)'
        <3>1. PICK i \in DOMAIN responses : responses[i].task = u /\ responses[i].type \in Ends
            BY <2>2 DEF InFlight
        <3>2. CASE i = 1
            \* It was the end of u: u is not active after it.
            BY <1>1, <1>3, <3>1, <3>2 DEF Ends, Forget
        <3>3. CASE i # 1
            BY <1>2, <3>1, <3>3 DEF InFlight
        <3> QED
            BY <3>2, <3>3
    <2> QED
        BY <1>2, <2>1, <2>2
<1> QED
    BY <1>5, <1>6, <1>7, <1>8, <1>9, <1>10, <1>11, <1>12, <1>13 DEF TaskInv

\* What survives of the worker is nothing, and no task is active.
LEMMA SeveredKeeps ==
    ASSUME TaskInv, Severed, active' = {}, UNCHANGED history, TypeInv'
    PROVE  TaskInv'
<1>0. Unknown
    BY DEF TaskInv
<1>1. /\ DOMAIN requests' = {} /\ DOMAIN responses' = {} /\ DOMAIN turn' = {}
      /\ DOMAIN terminal' = {} /\ DOMAIN pendingCancellation' = {}
      /\ ~child' /\ active' = {} /\ UNCHANGED <<published, posted>>
    BY DEF Severed, history
<1>2. Unknown'
    BY <1>0, <1>1 DEF Unknown, Range
<1>3. StartFirst' /\ StartFindsNothing' /\ NoTaskStranded'
    BY <1>1 DEF StartFirst, StartFindsNothing, NoTaskStranded
<1>4. RunningFirst' /\ PhaseAfterRunning' /\ TurnAfterRunning' /\ OneTerminal'
    BY <1>1 DEF RunningFirst, PhaseAfterRunning, TurnAfterRunning, OneTerminal
<1>5. Asked'
    BY <1>1 DEF Asked, CancelAsked, AbortAsked, CancelledAsked
<1> QED
    BY <1>2, <1>3, <1>4, <1>5 DEF TaskInv

LEMMA ExitKeeps ==
    ASSUME TaskInv, ChildExits, TypeInv'
    PROVE  TaskInv'
<1>0. /\ Unknown /\ RunningFirst /\ PhaseAfterRunning /\ OneTerminal /\ Asked
    BY DEF TaskInv
<1>1. /\ DOMAIN requests' = {} /\ DOMAIN turn' = {}
      /\ DOMAIN terminal' = {} /\ DOMAIN pendingCancellation' = {} /\ ~child'
      /\ UNCHANGED <<active, cancellationRequested, responses, published, posted>>
    BY DEF ChildExits, coordinator, history
<1>2. Unknown'
    BY <1>0, <1>1 DEF Unknown, Range
<1>3. StartFirst' /\ StartFindsNothing' /\ NoTaskStranded'
    BY <1>1 DEF StartFirst, StartFindsNothing, NoTaskStranded
<1>4. RunningFirst' /\ OneTerminal'
    BY <1>0, <1>1 DEF RunningFirst, OneTerminal
<1>5. PhaseAfterRunning' /\ TurnAfterRunning'
    BY <1>0, <1>1 DEF PhaseAfterRunning, TurnAfterRunning, Running
<1>6. Asked'
    BY <1>0, <1>1 DEF Asked, CancelAsked, AbortAsked, CancelledAsked
<1> QED
    BY <1>2, <1>3, <1>4, <1>5, <1>6 DEF TaskInv

-----------------------------------------------------------------------------
(* The worker's steps *)

\* What remains of the requests was there, and only the first is gone.
LEMMA RequestLeaves ==
    ASSUME TaskInv, NEW t \in Tasks, NEW type \in {"start", "cancel"}, Requested(type, t)
    PROVE  /\ StartFirst' /\ CancelAsked'
           /\ \A i \in DOMAIN requests' : i + 1 \in DOMAIN requests /\ requests'[i] = requests[i + 1]
           /\ t \in posted
           /\ \A i \in DOMAIN requests' : requests'[i].type = "start" => requests'[i].task # t
           /\ \A u \in Tasks : (type = "start" => u # t) /\ Message("start", u) \in Range(requests)
                 => Message("start", u) \in Range(requests')
<1>0. TypeInv /\ StartFirst /\ CancelAsked /\ Unknown
    BY DEF TaskInv, Asked
<1>1. /\ requests[1].type = type /\ requests[1].task = t /\ 1 \in DOMAIN requests
      /\ Len(requests) \in Nat \ {0}
      /\ DOMAIN requests = 1..Len(requests) /\ DOMAIN requests' = 1..(Len(requests) - 1)
      /\ \A i \in DOMAIN requests' : i + 1 \in DOMAIN requests /\ requests'[i] = requests[i + 1]
      /\ UNCHANGED <<active, cancellationRequested>>
    BY <1>0, RequestTaken
<1>2. StartFirst'
    BY <1>0, <1>1 DEF StartFirst
<1>3. CancelAsked'
    BY <1>0, <1>1 DEF CancelAsked
<1>4. t \in posted
    BY <1>0, <1>1 DEF Unknown
<1>5. ASSUME NEW i \in DOMAIN requests', requests'[i].type = "start"
      PROVE  requests'[i].task # t
    BY <1>0, <1>1, <1>5 DEF StartFirst
<1>6. ASSUME NEW u \in Tasks, type = "start" => u # t, Message("start", u) \in Range(requests)
      PROVE  Message("start", u) \in Range(requests')
    <2>1. PICK i \in DOMAIN requests : requests[i] = Message("start", u)
        BY <1>6 DEF Range
    <2>2. requests[i].type = "start" /\ requests[i].task = u
        BY <2>1, MessageTyped
    <2>3. i # 1
        BY <1>1, <1>6, <2>2
    <2>4. i - 1 \in DOMAIN requests' /\ requests'[i - 1] = requests[i]
        BY <1>1, <2>3
    <2> QED
        BY <2>1, <2>4 DEF Range
<1> QED
    BY <1>1, <1>2, <1>3, <1>4, <1>5, <1>6

\* The answers that were there keep their places, and the new ones are t's.
Grown(t) ==
    /\ Len(responses) \in Nat /\ Len(responses') \in Nat /\ Len(responses) < Len(responses')
    /\ DOMAIN responses = 1..Len(responses) /\ DOMAIN responses' = 1..Len(responses')
    /\ \A i \in DOMAIN responses : i \in DOMAIN responses' /\ responses'[i] = responses[i]
    /\ \A i \in DOMAIN responses' : i > Len(responses) => responses'[i].task = t

LEMMA EndGrows ==
    ASSUME NEW t, responses \in Seq(Response), EndSaid(t)
    PROVE  Grown(t)
<1>1. /\ Len(responses) \in Nat /\ DOMAIN responses = 1..Len(responses)
      /\ Len(responses') \in Nat /\ DOMAIN responses' = 1..Len(responses')
    BY LenProperties DEF EndSaid
<1>2. Len(responses') \in {Len(responses) + 1, Len(responses) + 2}
    BY DEF EndSaid
<1>3. Len(responses) < Len(responses')
    <2>1. PICK n \in Nat : n = Len(responses)
        BY <1>1
    <2>2. Len(responses') = n + 1 \/ Len(responses') = n + 2
        BY <1>2, <2>1
    <2> QED
        BY <2>1, <2>2
<1>4. /\ \A i \in DOMAIN responses : i \in DOMAIN responses' /\ responses'[i] = responses[i]
      /\ \A i \in DOMAIN responses' : i > Len(responses) => responses'[i].task = t
    BY DEF EndSaid
<1> QED
    BY <1>1, <1>3, <1>4 DEF Grown

LEMMA RunningStays ==
    ASSUME NEW t, Grown(t), UNCHANGED <<active, published>>, NEW u
    PROVE  /\ \A i \in 1..(Len(responses) + 1) : Running(u, i) => Running(u, i)'
           /\ u # t /\ Running(u, Len(responses) + 1) => Running(u, Len(responses) + 1)'
<1>1. ASSUME NEW i \in 1..(Len(responses) + 1), Running(u, i)
      PROVE  Running(u, i)'
    BY <1>1 DEF Grown, Running
<1>2. ASSUME u # t, Running(u, Len(responses) + 1)
      PROVE  Running(u, Len(responses) + 1)'
    <2>1. \A j \in DOMAIN responses' : responses'[j].task = u => j \in DOMAIN responses
        BY <1>2 DEF Grown
    <2>2. \A j \in DOMAIN responses : j < Len(responses) + 1 /\ j < Len(responses') + 1
        BY DEF Grown
    <2> QED
        BY <1>2, <2>1, <2>2 DEF Grown, Running
<1> QED
    BY <1>1, <1>2

\* A task ends: what was said of it before was "running", or nothing if it only began.
LEMMA EndKeeps ==
    ASSUME TaskInv, TypeInv', NEW t \in Tasks, t \in posted, EndSaid(t), NEW sayings,
           EndTask(t, sayings),
           UNCHANGED <<active, cancellationRequested, child, pendingCancellation,
                       published, posted>>,
           StartFirst', CancelAsked',
           \A i \in DOMAIN requests' : \E k \in DOMAIN requests : requests'[i] = requests[k],
           \A i \in DOMAIN requests' : requests'[i].type = "start" => requests'[i].task # t,
           \A u \in Tasks \ {t} : Message("start", u) \in Range(requests)
               => Message("start", u) \in Range(requests'),
           \A i \in DOMAIN responses : responses[i].task = t => responses[i].type = "running"
    PROVE  TaskInv'
<1>0. /\ TypeInv /\ Unknown /\ StartFindsNothing /\ RunningFirst
      /\ PhaseAfterRunning /\ TurnAfterRunning /\ OneTerminal /\ Asked /\ NoTaskStranded
    BY DEF TaskInv
<1>1. Grown(t)
    BY <1>0, EndGrows DEF TypeInv, TypeOK
<1>2. /\ DOMAIN turn' = DOMAIN turn \ {t} /\ \A u \in DOMAIN turn' : turn'[u] = turn[u]
      /\ Range(terminal') \subseteq Range(terminal) \cup {t}
    BY <1>0, TaskEnded
<1>3. Len(responses') \in {Len(responses) + 1, Len(responses) + 2}
    BY DEF EndSaid
<1>4. ASSUME NEW i \in DOMAIN responses', i > Len(responses)
      PROVE  /\ responses'[i].task = t /\ responses'[i].type # "running"
             /\ responses'[i].type \in Ends <=> i = Len(responses')
             /\ responses'[i].type \in {"completed", "cancelled"} =>
                   i = Len(responses) + 1 /\ t \in DOMAIN turn
             /\ responses'[i].type = "cancelled" => turn[t] = "aborted"
    BY <1>4 DEF EndSaid
<1>5. Unknown'
    BY <1>0, <1>1, <1>2 DEF Unknown, Grown
<1>6. StartFindsNothing'
    BY <1>0, <1>1, <1>2 DEF StartFindsNothing, Grown
<1>7. RunningFirst'
    BY <1>0, <1>1, <1>4 DEF RunningFirst, Grown
<1>8. PhaseAfterRunning'
    <2>1. ASSUME NEW i \in DOMAIN responses, responses[i].type \in {"completed", "cancelled"}
          PROVE  \A u : u = responses[i].task => Running(u, i)'
        <3>1. Running(responses[i].task, i)
            BY <1>0, <2>1 DEF PhaseAfterRunning
        <3>2. i \in 1..(Len(responses) + 1)
            BY <1>1 DEF Grown
        <3> QED
            BY <1>1, <3>1, <3>2, RunningStays
    <2>2. ASSUME NEW i \in DOMAIN responses', i > Len(responses),
                 responses'[i].type \in {"completed", "cancelled"}
          PROVE  Running(t, i)'
        <3>1. i = Len(responses) + 1 /\ t \in DOMAIN turn
            BY <1>4, <2>2
        <3>2. Running(t, i)
            BY <1>0, <3>1 DEF TurnAfterRunning
        <3>3. i \in 1..(Len(responses) + 1)
            BY <1>1, <3>1 DEF Grown
        <3> QED
            BY <1>1, <3>2, <3>3, RunningStays
    <2>3. ASSUME NEW i \in DOMAIN responses', responses'[i].type \in {"completed", "cancelled"}
          PROVE  \A u : u = responses'[i].task => Running(u, i)'
        <3>1. CASE i \in DOMAIN responses
            BY <1>1, <2>1, <2>3, <3>1 DEF Grown
        <3>2. CASE i > Len(responses)
            BY <1>4, <2>2, <2>3, <3>2
        <3> QED
            BY <1>1, <3>1, <3>2 DEF Grown
    <2> QED
        BY <2>3 DEF PhaseAfterRunning, Running
<1>9. TurnAfterRunning'
    <2>1. ASSUME NEW u \in DOMAIN turn'
          PROVE  Running(u, Len(responses) + 1)'
        <3>1. u # t /\ Running(u, Len(responses) + 1)
            BY <1>0, <1>2, <2>1 DEF TurnAfterRunning
        <3> QED
            BY <1>1, <3>1, RunningStays
    <2> QED
        BY <2>1 DEF TurnAfterRunning
<1>10. OneTerminal'
    <2>1. ASSUME NEW i \in DOMAIN responses', responses'[i].type \in Ends
          PROVE  /\ responses'[i].task \notin DOMAIN turn'
                 /\ \A j \in DOMAIN responses' : j > i => responses'[j].task # responses'[i].task
        <3>1. CASE i \in DOMAIN responses
            <4>1. responses'[i] = responses[i] /\ responses[i].task # t
                BY <1>1, <2>1, <3>1 DEF Grown, Ends
            <4>2. /\ responses[i].task \notin DOMAIN turn
                  /\ \A j \in DOMAIN responses : j > i => responses[j].task # responses[i].task
                BY <1>0, <2>1, <3>1, <4>1 DEF OneTerminal
            <4> QED
                BY <1>1, <1>2, <4>1, <4>2 DEF Grown
        <3>2. CASE i > Len(responses)
            BY <1>1, <1>2, <1>4, <2>1, <3>2 DEF Grown
        <3> QED
            BY <1>1, <3>1, <3>2 DEF Grown
    <2> QED
        BY <2>1 DEF OneTerminal
<1>11. Asked'
    <2>1. AbortAsked'
        BY <1>0, <1>2 DEF Asked, AbortAsked
    <2>2. CancelledAsked'
        BY <1>0, <1>1, <1>4 DEF Asked, AbortAsked, CancelledAsked, Grown
    <2> QED
        BY <2>1, <2>2 DEF Asked
<1>12. NoTaskStranded'
    <2> SUFFICES ASSUME child', NEW u \in active'
                 PROVE  \/ Message("start", u) \in Range(requests') \/ u \in DOMAIN turn'
                        \/ InFlight(u)'
        BY DEF NoTaskStranded
    <2>1. /\ u \in Tasks
          /\ Message("start", u) \in Range(requests) \/ u \in DOMAIN turn \/ InFlight(u)
        BY <1>0 DEF NoTaskStranded, TypeInv, TypeOK
    <2>2. CASE u = t
        <3>1. Len(responses') \in DOMAIN responses' /\ Len(responses') > Len(responses)
            BY <1>1 DEF Grown
        <3> QED
            BY <1>4, <2>2, <3>1 DEF InFlight
    <2>3. CASE u # t
        BY <1>1, <1>2, <2>1, <2>3 DEF Grown, InFlight
    <2> QED
        BY <2>2, <2>3
<1> QED
    BY <1>5, <1>6, <1>7, <1>8, <1>9, <1>10, <1>11, <1>12 DEF TaskInv

\* The task takes its turn: it waits, and all that was said of it is "running".
LEMMA BeginKeeps ==
    ASSUME TaskInv, TypeInv', NEW t \in Tasks, t \in posted, t \notin DOMAIN turn,
           responses' = Append(responses, Message("running", t)),
           turn' = [u \in DOMAIN turn \cup {t} |-> IF u = t THEN "waiting" ELSE turn[u]],
           UNCHANGED <<active, cancellationRequested, child, terminal, pendingCancellation,
                       published, posted>>,
           StartFirst', CancelAsked',
           \A i \in DOMAIN requests' : \E k \in DOMAIN requests : requests'[i] = requests[k],
           \A i \in DOMAIN requests' : requests'[i].type = "start" => requests'[i].task # t,
           \A u \in Tasks \ {t} : Message("start", u) \in Range(requests)
               => Message("start", u) \in Range(requests'),
           \A i \in DOMAIN responses : responses[i].task # t,
           published[t] = <<>>
    PROVE  TaskInv'
<1>0. /\ TypeInv /\ Unknown /\ StartFindsNothing /\ RunningFirst
      /\ PhaseAfterRunning /\ TurnAfterRunning /\ OneTerminal /\ Asked /\ NoTaskStranded
    BY DEF TaskInv
<1>1. PICK m : m = Message("running", t)
    OBVIOUS
<1>2. m \in Response /\ m.type = "running" /\ m.task = t
    BY <1>1, MessageTyped
<1>3. /\ Len(responses) \in Nat /\ Len(responses') = Len(responses) + 1
      /\ DOMAIN responses = 1..Len(responses) /\ DOMAIN responses' = 1..(Len(responses) + 1)
      /\ \A i \in DOMAIN responses : i \in DOMAIN responses' /\ responses'[i] = responses[i]
      /\ responses'[Len(responses) + 1] = m
    BY <1>0, <1>1, <1>2, AppendAt DEF TypeInv, TypeOK
<1>4. \A i \in DOMAIN responses' : i \in DOMAIN responses \/ i = Len(responses) + 1
    BY <1>3
<1>5. Grown(t)
    BY <1>2, <1>3, <1>4 DEF Grown
<1>6. /\ DOMAIN turn' = DOMAIN turn \cup {t} /\ turn'[t] = "waiting"
      /\ \A u \in DOMAIN turn : turn'[u] = turn[u]
    OBVIOUS
<1>7. Unknown'
    BY <1>0, <1>2, <1>3, <1>4, <1>6 DEF Unknown
<1>8. StartFindsNothing'
    BY <1>0, <1>2, <1>3, <1>4, <1>6 DEF StartFindsNothing
<1>9. RunningFirst'
    BY <1>0, <1>2, <1>3, <1>4 DEF RunningFirst
<1>10. PhaseAfterRunning'
    <2>1. ASSUME NEW i \in DOMAIN responses', responses'[i].type \in {"completed", "cancelled"}
          PROVE  \A u : u = responses'[i].task => Running(u, i)'
        <3>1. i \in DOMAIN responses /\ responses'[i] = responses[i]
            BY <1>2, <1>3, <1>4, <2>1
        <3>2. Running(responses[i].task, i)
            BY <1>0, <2>1, <3>1 DEF PhaseAfterRunning
        <3>3. i \in 1..(Len(responses) + 1)
            BY <1>3, <3>1
        <3> QED
            BY <1>5, <3>1, <3>2, <3>3, RunningStays
    <2> QED
        BY <2>1 DEF PhaseAfterRunning, Running
<1>11. TurnAfterRunning'
    <2>1. ASSUME NEW u \in DOMAIN turn'
          PROVE  Running(u, Len(responses) + 1)'
        <3>1. CASE u = t
            BY <1>1, <1>2, <1>3, <1>4, <3>1 DEF Running
        <3>2. CASE u # t
            <4>1. Running(u, Len(responses) + 1)
                BY <1>0, <1>6, <2>1, <3>2 DEF TurnAfterRunning
            <4> QED
                BY <1>5, <3>2, <4>1, RunningStays
        <3> QED
            BY <3>1, <3>2
    <2> QED
        BY <2>1 DEF TurnAfterRunning
<1>12. OneTerminal'
    BY <1>0, <1>2, <1>3, <1>4, <1>6 DEF OneTerminal, Ends
<1>13. Asked'
    BY <1>0, <1>2, <1>3, <1>4, <1>6 DEF Asked, AbortAsked, CancelledAsked
<1>14. NoTaskStranded'
    <2>1. active \subseteq Tasks
        BY <1>0 DEF TypeInv, TypeOK
    <2> QED
        BY <1>0, <1>3, <1>6, <2>1 DEF NoTaskStranded, InFlight
<1> QED
    BY <1>7, <1>8, <1>9, <1>10, <1>11, <1>12, <1>13, <1>14 DEF TaskInv

LEMMA ReceiveStartKeeps ==
    ASSUME TaskInv, TypeInv', NEW t \in Tasks, ReceiveStart(t)
    PROVE  TaskInv'
<1>0. TypeInv /\ StartFindsNothing /\ Requested("start", t)
    BY DEF TaskInv, ReceiveStart
<1>1. /\ requests[1].type = "start" /\ requests[1].task = t /\ 1 \in DOMAIN requests
      /\ UNCHANGED <<active, cancellationRequested, child, pendingCancellation, published, posted>>
    BY <1>0, RequestTaken DEF ReceiveStart
<1>2. /\ t \notin DOMAIN turn /\ published[t] = <<>>
      /\ \A i \in DOMAIN responses : responses[i].task # t
    BY <1>0, <1>1 DEF StartFindsNothing
<1>3. /\ StartFirst' /\ CancelAsked' /\ t \in posted
      /\ \A i \in DOMAIN requests' : \E k \in DOMAIN requests : requests'[i] = requests[k]
      /\ \A i \in DOMAIN requests' : requests'[i].type = "start" => requests'[i].task # t
      /\ \A u \in Tasks \ {t} : Message("start", u) \in Range(requests)
            => Message("start", u) \in Range(requests')
    BY <1>0, RequestLeaves
<1>4. CASE /\ responses' = Append(responses, Message("running", t))
           /\ turn' = [u \in DOMAIN turn \cup {t} |-> IF u = t THEN "waiting" ELSE turn[u]]
           /\ UNCHANGED terminal
    BY <1>1, <1>2, <1>3, <1>4, BeginKeeps
<1>5. CASE EndTask(t, Cut(t, <<Message("running", t)>>))
    <2>1. EndSaid(t)
        BY <1>0, <1>5, StartFailsSays DEF TypeInv, TypeOK
    <2> QED
        BY <1>1, <1>2, <1>3, <1>5, <2>1, EndKeeps
<1> QED
    BY <1>4, <1>5 DEF ReceiveStart

LEMMA TurnKeeps ==
    ASSUME TaskInv, TypeInv', NEW t \in Tasks, TakeTurn(t)
    PROVE  TaskInv'
<1>0. /\ TypeInv /\ Unknown /\ StartFirst /\ StartFindsNothing /\ TurnAfterRunning /\ CancelAsked
    BY DEF TaskInv, Asked
<1>1. PICK sayings : EndTask(t, sayings)
    BY DEF TakeTurn
<1>2. EndSaid(t)
    BY <1>0, TurnSays DEF TypeInv, TypeOK
<1>3. /\ t \in DOMAIN turn
      /\ UNCHANGED <<active, cancellationRequested, child, pendingCancellation,
                     published, posted, requests>>
    BY DEF TakeTurn, coordinator, history
<1>4. t \in posted
    BY <1>0, <1>3 DEF Unknown
<1>5. StartFirst' /\ CancelAsked'
    BY <1>0, <1>3 DEF StartFirst, CancelAsked
<1>6. \A i \in DOMAIN requests' : requests'[i].type = "start" => requests'[i].task # t
    BY <1>0, <1>3 DEF StartFindsNothing
<1>7. \A i \in DOMAIN responses : responses[i].task = t => responses[i].type = "running"
    <2>1. Running(t, Len(responses) + 1)
        BY <1>0, <1>3 DEF TurnAfterRunning
    <2>2. \A i \in DOMAIN responses : i < Len(responses) + 1
        BY <1>0, LenProperties DEF TypeInv, TypeOK
    <2> QED
        BY <2>1, <2>2 DEF Running
<1> QED
    BY <1>1, <1>2, <1>3, <1>4, <1>5, <1>6, <1>7, EndKeeps

LEMMA AbortKeeps ==
    ASSUME TaskInv, TypeInv', NEW t \in Tasks, AbortTurn(t)
    PROVE  TaskInv'
<1>0. /\ TypeInv /\ Unknown /\ StartFindsNothing /\ RunningFirst /\ Requested("cancel", t)
      /\ PhaseAfterRunning /\ TurnAfterRunning /\ OneTerminal /\ Asked /\ NoTaskStranded
    BY DEF TaskInv, AbortTurn
<1>1. /\ requests[1].type = "cancel" /\ requests[1].task = t /\ 1 \in DOMAIN requests
      /\ UNCHANGED <<active, cancellationRequested, child, published, posted>>
    BY <1>0, RequestTaken
<1>2. /\ StartFirst' /\ CancelAsked'
      /\ \A i \in DOMAIN requests' : i + 1 \in DOMAIN requests /\ requests'[i] = requests[i + 1]
      /\ \A u \in Tasks : Message("start", u) \in Range(requests)
            => Message("start", u) \in Range(requests')
    BY <1>0, RequestLeaves
<1>3. /\ DOMAIN turn' = DOMAIN turn /\ t \in DOMAIN turn
      /\ \A u \in DOMAIN turn : u # t => turn'[u] = turn[u]
      /\ UNCHANGED <<responses, terminal, pendingCancellation>>
    BY DEF AbortTurn
<1>4. Unknown' /\ StartFindsNothing'
    BY <1>0, <1>1, <1>2, <1>3 DEF Unknown, StartFindsNothing
<1>5. RunningFirst' /\ OneTerminal'
    BY <1>0, <1>1, <1>3 DEF RunningFirst, OneTerminal
<1>6. PhaseAfterRunning' /\ TurnAfterRunning'
    BY <1>0, <1>1, <1>3 DEF PhaseAfterRunning, TurnAfterRunning, Running
<1>7. Asked'
    <2>1. t \in active => t \in cancellationRequested
        BY <1>0, <1>1 DEF Asked, CancelAsked
    <2> QED
        BY <1>0, <1>1, <1>2, <1>3, <2>1 DEF Asked, AbortAsked, CancelledAsked
<1>8. NoTaskStranded'
    <2>1. active \subseteq Tasks
        BY <1>0 DEF TypeInv, TypeOK
    <2> QED
        BY <1>0, <1>1, <1>2, <1>3, <2>1 DEF NoTaskStranded, InFlight
<1> QED
    BY <1>2, <1>4, <1>5, <1>6, <1>7, <1>8 DEF TaskInv

LEMMA LateCancelKeeps ==
    ASSUME TaskInv, TypeInv', NEW t \in Tasks, ReceiveLateCancel(t)
    PROVE  TaskInv'
<1>0. /\ TypeInv /\ Unknown /\ StartFindsNothing /\ RunningFirst /\ Requested("cancel", t)
      /\ PhaseAfterRunning /\ TurnAfterRunning /\ OneTerminal /\ Asked /\ NoTaskStranded
    BY DEF TaskInv, ReceiveLateCancel
<1>1. UNCHANGED <<active, cancellationRequested, child, published, posted>>
    BY <1>0, RequestTaken
<1>2. /\ StartFirst' /\ CancelAsked' /\ t \in posted
      /\ \A i \in DOMAIN requests' : i + 1 \in DOMAIN requests /\ requests'[i] = requests[i + 1]
      /\ \A i \in DOMAIN requests' : requests'[i].type = "start" => requests'[i].task # t
      /\ \A u \in Tasks : Message("start", u) \in Range(requests)
            => Message("start", u) \in Range(requests')
    BY <1>0, RequestLeaves
<1>3. /\ Range(pendingCancellation') \subseteq Range(pendingCancellation) \cup {t}
      /\ UNCHANGED <<responses, turn, terminal>>
    <2>1. PendingCapacity \in Nat \ {0}
        BY CapacityAssumption
    <2> QED
        BY <1>0, <2>1, RememberBounded DEF ReceiveLateCancel, TypeInv, TypeOK
<1>4. Unknown' /\ StartFindsNothing'
    BY <1>0, <1>1, <1>2, <1>3 DEF Unknown, StartFindsNothing
<1>5. RunningFirst' /\ OneTerminal'
    BY <1>0, <1>1, <1>3 DEF RunningFirst, OneTerminal
<1>6. PhaseAfterRunning' /\ TurnAfterRunning'
    BY <1>0, <1>1, <1>3 DEF PhaseAfterRunning, TurnAfterRunning, Running
<1>7. Asked'
    BY <1>0, <1>1, <1>2, <1>3 DEF Asked, AbortAsked, CancelledAsked
<1>8. NoTaskStranded'
    <2>1. active \subseteq Tasks
        BY <1>0 DEF TypeInv, TypeOK
    <2> QED
        BY <1>0, <1>1, <1>2, <1>3, <2>1 DEF NoTaskStranded, InFlight
<1> QED
    BY <1>2, <1>4, <1>5, <1>6, <1>7, <1>8 DEF TaskInv

-----------------------------------------------------------------------------
(* The invariant *)

LEMMA InitialTasks == Init => TaskInv
<1> SUFFICES ASSUME Init PROVE TaskInv
    OBVIOUS
<1>1. /\ DOMAIN requests = {} /\ DOMAIN responses = {} /\ DOMAIN turn = {}
      /\ DOMAIN terminal = {} /\ DOMAIN pendingCancellation = {}
      /\ active = {} /\ published = [t \in Tasks |-> <<>>]
    BY DEF Init
<1>2. Unknown
    BY <1>1 DEF Unknown, Range
<1>3. StartFirst /\ StartFindsNothing /\ NoTaskStranded
    BY <1>1 DEF StartFirst, StartFindsNothing, NoTaskStranded
<1>4. RunningFirst /\ PhaseAfterRunning /\ TurnAfterRunning /\ OneTerminal
    BY <1>1 DEF RunningFirst, PhaseAfterRunning, TurnAfterRunning, OneTerminal
<1>5. Asked
    BY <1>1 DEF Asked, CancelAsked, AbortAsked, CancelledAsked
<1> QED
    BY <1>2, <1>3, <1>4, <1>5, InitialTypes DEF TaskInv

LEMMA InvStep == TaskInv /\ [Next]_vars => TaskInv'
<1> SUFFICES ASSUME TaskInv, [Next]_vars PROVE TaskInv'
    OBVIOUS
<1>0. TypeInv'
    BY TypeStep DEF TaskInv
<1>1. ASSUME NEW t \in Tasks, Start(t) PROVE TaskInv'
    BY <1>0, <1>1, StartKeeps
<1>2. ASSUME NEW t \in Tasks, Cancel(t) PROVE TaskInv'
    BY <1>0, <1>2, CancelKeeps
<1>3. ASSUME NEW t \in Tasks, ReceiveStart(t) PROVE TaskInv'
    BY <1>0, <1>3, ReceiveStartKeeps
<1>4. ASSUME NEW t \in Tasks, AbortTurn(t) PROVE TaskInv'
    BY <1>0, <1>4, AbortKeeps
<1>5. ASSUME NEW t \in Tasks, ReceiveLateCancel(t) PROVE TaskInv'
    BY <1>0, <1>5, LateCancelKeeps
<1>6. ASSUME NEW t \in Tasks, TakeTurn(t) PROVE TaskInv'
    BY <1>0, <1>6, TurnKeeps
<1>7. CASE ReceiveResponse
    BY <1>0, <1>7, ResponseKeeps
<1>8. CASE Disconnect \/ Dispose
    BY <1>0, <1>8, SeveredKeeps DEF Disconnect, Dispose
<1>9. CASE ChildExits
    BY <1>0, <1>9, ExitKeeps
<1>10. CASE UNCHANGED vars
    BY <1>10 DEF vars, coordinator, worker, history, TaskInv, TypeInv, TypeOK, Turns, Quiet,
        Unknown, StartFirst, StartFindsNothing, RunningFirst, PhaseAfterRunning,
        TurnAfterRunning, Running, OneTerminal, Asked, CancelAsked, AbortAsked,
        CancelledAsked, NoTaskStranded, InFlight
<1> QED
    BY <1>1, <1>2, <1>3, <1>4, <1>5, <1>6, <1>7, <1>8, <1>9, <1>10 DEF Next, WorkerReceives

\* The inductive invariant: what coordinator, channel and worker know of a task agrees, and no
\* start meets traces of its task.
THEOREM TaskInvariant == Spec => []TaskInv
BY InitialTasks, InvStep, PTL DEF Spec

\* Every variable of the protocol keeps its type, and what either side remembers keeps
\* within its capacity, whatever the capacities are.
THEOREM TaskTypes == Spec => []TypeOK
<1>1. TaskInv => TypeOK
    BY DEF TaskInv, TypeInv
<1> QED
    BY <1>1, TaskInvariant, PTL

\* receiveWorkerMessage and the runtime's catch: no task is forgotten by both sides.
THEOREM TasksNotStranded == Spec => []NoTaskStranded
<1>1. TaskInv => NoTaskStranded
    BY DEF TaskInv
<1> QED
    BY <1>1, TaskInvariant, PTL

\* createTaskRuntime says one last thing of a task, and nothing after it.
THEOREM TasksEndOnce == Spec => []OneTerminal
<1>1. TaskInv => OneTerminal
    BY DEF TaskInv
<1> QED
    BY <1>1, TaskInvariant, PTL

\* rememberBounded: ids that are evicted never let a start be taken for an old task.
THEOREM TaskStartsAreNew == Spec => []StartsAreNew
<1>1. TaskInv => StartsAreNew
    <2> SUFFICES ASSUME TaskInv, NEW t \in Tasks, Message("start", t) \in Range(requests)
                 PROVE  /\ ~Known(t) /\ t \notin Range(pendingCancellation)
                        /\ \E i \in DOMAIN requests :
                              /\ requests[i] = Message("start", t)
                              /\ \A j \in DOMAIN requests : j # i => j > i \/ requests[j].task # t
        BY DEF StartsAreNew
    <2>1. StartFirst /\ StartFindsNothing /\ requests \in Seq(Request)
        BY DEF TaskInv, TypeInv, TypeOK
    <2>2. PICK i \in DOMAIN requests : requests[i] = Message("start", t)
        BY DEF Range
    <2>3. requests[i].type = "start" /\ requests[i].task = t
        BY <2>2, MessageTyped
    <2>4. DOMAIN requests \subseteq Nat
        BY <2>1, LenProperties
    <2>5. \A j \in DOMAIN requests : j # i => j > i \/ requests[j].task # t
        BY <2>1, <2>3, <2>4 DEF StartFirst
    <2> QED
        BY <2>1, <2>2, <2>3, <2>5 DEF StartFindsNothing, Known
<1> QED
    BY <1>1, TaskInvariant, PTL

-----------------------------------------------------------------------------
(* The protocol implements TaskLife *)

LEMMA PairAppends ==
    ASSUME NEW a, NEW b
    PROVE  Append(<<a>>, b) = <<a, b>>
<1>1. /\ <<a>> \in Seq({a, b}) /\ Len(<<a>>) = 1 /\ <<a>>[1] = a
      /\ <<a, b>> \in Seq({a, b}) /\ Len(<<a, b>>) = 2
      /\ <<a, b>>[1] = a /\ <<a, b>>[2] = b
    OBVIOUS
<1>2. /\ Append(<<a>>, b) \in Seq({a, b}) /\ Len(Append(<<a>>, b)) = 2
      /\ Append(<<a>>, b)[1] = a /\ Append(<<a>>, b)[2] = b
    BY <1>1, AppendProperties
<1>3. \A i \in 1..2 : Append(<<a>>, b)[i] = <<a, b>>[i]
    BY <1>1, <1>2
<1> QED
    BY <1>1, <1>2, <1>3, SeqEqual

LEMMA LifeBegins == Init => Life!Init
BY DEF Init, Life!Init

\* What is received shows the next phase of a story, ends a task or is of no account.
LEMMA ResponseIsLife ==
    ASSUME TaskInv, ReceiveResponse
    PROVE  [Life!Next]_(Life!vars)
<1>0. TypeInv /\ RunningFirst /\ PhaseAfterRunning /\ CancelledAsked
    BY DEF TaskInv, Asked
<1>1. PICK r : r = responses[1]
    OBVIOUS
<1>2. /\ 1 \in DOMAIN responses /\ r \in Response
      /\ DOMAIN responses = 1..Len(responses) /\ Len(responses) \in Nat
      /\ UNCHANGED posted
    BY <1>0, <1>1, ResponseTaken
<1>3. UNCHANGED disposed
    BY DEF ReceiveResponse
<1>4. r.task \in Tasks
    BY <1>2 DEF Response
<1>5. CASE /\ r.task \in active /\ r.type \in {"running", "completed"}
           /\ Publish(r.task, r.type) /\ UNCHANGED <<active, cancellationRequested>>
    <2>1. Append(published[r.task], r.type) \in Life!Stories
        <3>1. CASE r.type = "running"
            <4>1. published[r.task] = <<>>
                BY <1>0, <1>1, <1>2, <3>1 DEF RunningFirst
            <4> QED
                BY <3>1, <4>1 DEF Life!Stories
        <3>2. CASE r.type = "completed"
            <4>1. Running(r.task, 1)
                BY <1>0, <1>1, <1>2, <3>2 DEF PhaseAfterRunning
            <4>2. published[r.task] = <<"running">>
                BY <1>2, <1>5, <4>1 DEF Running
            <4> QED
                BY <3>2, <4>2, PairAppends DEF Life!Stories
        <3> QED
            BY <1>5, <3>1, <3>2
    <2>2. Life!Show(r.task, r.type)
        BY <1>5, <2>1 DEF Life!Show, Publish
    <2>3. Life!Progress(r.task)
        BY <1>2, <1>3, <1>5, <2>2 DEF Life!Progress
    <2> QED
        BY <1>4, <2>3 DEF Life!Next
<1>6. CASE /\ r.task \in active /\ r.type = "cancelled"
           /\ Publish(r.task, "cancelled") /\ Forget(r.task)
    <2>1. Running(r.task, 1)
        BY <1>0, <1>1, <1>2, <1>6 DEF PhaseAfterRunning
    <2>2. published[r.task] = <<"running">>
        BY <1>2, <1>6, <2>1 DEF Running
    <2>3. Append(published[r.task], "cancelled") \in Life!Stories
        BY <2>2, PairAppends DEF Life!Stories
    <2>4. Life!Show(r.task, "cancelled")
        BY <1>6, <2>3 DEF Life!Show, Publish
    <2>5. r.task \in cancellationRequested
        BY <1>0, <1>1, <1>2, <1>6 DEF CancelledAsked
    <2>6. Life!Cancelled(r.task)
        BY <1>2, <1>3, <1>6, <2>4, <2>5 DEF Life!Cancelled, Life!LetGo, Forget
    <2> QED
        BY <1>4, <2>6 DEF Life!Next
<1>7. CASE r.task \in active /\ Forget(r.task) /\ UNCHANGED published
    <2>1. Life!End(r.task)
        BY <1>2, <1>3, <1>7 DEF Life!End, Life!LetGo, Forget
    <2> QED
        BY <1>4, <2>1 DEF Life!Next
<1>8. CASE UNCHANGED <<active, cancellationRequested, published>>
    BY <1>2, <1>3, <1>8 DEF Life!vars
<1> QED
    BY <1>0, <1>1, <1>5, <1>6, <1>7, <1>8, ResponseTaken

LEMMA StepIsLife == TaskInv /\ [Next]_vars => [Life!Next]_(Life!vars)
<1> SUFFICES ASSUME TaskInv, [Next]_vars PROVE [Life!Next]_(Life!vars)
    OBVIOUS
<1>1. ASSUME NEW t \in Tasks, Start(t) PROVE [Life!Next]_(Life!vars)
    <2>1. Life!Begin(t)
        BY <1>1 DEF Start, Life!Begin
    <2> QED
        BY <2>1 DEF Life!Next
<1>2. ASSUME NEW t \in Tasks, Cancel(t) PROVE [Life!Next]_(Life!vars)
    <2>1. Life!Ask(t)
        BY <1>2 DEF Cancel, Life!Ask, history
    <2> QED
        BY <2>1 DEF Life!Next
<1>3. CASE ReceiveResponse
    BY <1>3, ResponseIsLife
<1>4. CASE Disconnect \/ Dispose
    <2>1. Life!EndAll
        BY <1>4 DEF Disconnect, Dispose, Life!EndAll, history
    <2> QED
        BY <2>1 DEF Life!Next
<1>5. ASSUME NEW t \in Tasks, WorkerReceives(t) \/ TakeTurn(t)
      PROVE  UNCHANGED Life!vars
    BY <1>5 DEF WorkerReceives, ReceiveStart, AbortTurn, ReceiveLateCancel, Requested,
        TakeTurn, coordinator, history, Life!vars
<1>6. CASE ChildExits
    BY <1>6 DEF ChildExits, coordinator, history, Life!vars
<1>7. CASE UNCHANGED vars
    BY <1>7 DEF vars, coordinator, history, Life!vars
<1> QED
    BY <1>1, <1>2, <1>3, <1>4, <1>5, <1>6, <1>7 DEF Next

\* TaskCoordinator: whatever the worker does and whichever messages are lost, what the
\* coordinator shows of a task is a story TaskLife allows.
THEOREM TasksFollowLife == Spec => Life!Init /\ [][Life!Next]_(Life!vars)
BY LifeBegins, TaskInvariant, StepIsLife, PTL DEF Spec

-----------------------------------------------------------------------------
(* The recognition of text *)

\* Threads and renderers live only while their run waits for them, the map has a run only
\* while it races, and no page comes twice.
RunSound(r) ==
    /\ stage[r] = "idle" => outcome[r] = "none"
    /\ thread[r] = "live" => stage[r] \in {"racing", "stopping"}
    /\ mapped[r] => stage[r] = "racing"
    /\ renderer[r] => stage[r] = "rendering"
    /\ recogniser[r] => job[r] # 0
    /\ \A p \in AllPages : pages[r][p] \in {0, 1}
    /\ outcome[r] = "completed" => Seen(r) = wanted[r]
    /\ stage[r] = "done" /\ outcome[r] = "completed" => dir[r] = {}

RunsSound == \A r \in Runs : RunSound(r)

RecognitionInv == OcrTypeOK /\ RunsSound

-----------------------------------------------------------------------------
(* Types *)

LEMMA RecognitionInitial == OcrInit => RecognitionInv
<1> SUFFICES ASSUME OcrInit PROVE RecognitionInv
    OBVIOUS
<1>1. OcrTypeOK
    BY OcrAssumption DEF OcrInit, OcrTypeOK, Stages, Ended, AllPages
<1>2. RunsSound
    BY DEF OcrInit, RunsSound, RunSound, Seen
<1> QED
    BY <1>1, <1>2 DEF RecognitionInv

LEMMA DirectoriesTyped ==
    ASSUME OcrTypeOK, NEW r \in Runs, NEW files \in SUBSET Files, MakeDirectory(r, files)
    PROVE  /\ dir' \in [Runs -> SUBSET Files]
           /\ \A s \in Runs \ {r} : dir'[s] = dir[s] \/ (Leftover(s) /\ dir'[s] = {})
<1>1. PICK stale \in SUBSET {s \in Runs : Leftover(s)} :
         dir' = [s \in Runs |-> IF s = r THEN files ELSE IF s \in stale THEN {} ELSE dir[s]]
    BY DEF MakeDirectory
<1> QED
    BY <1>1 DEF OcrTypeOK

LEMMA PostTyped ==
    ASSUME OcrTypeOK, NEW r \in Runs, NEW news \in Seq(Event), NEW p \in 1..Ended,
           Post(r, news, p)
    PROVE  OcrTypeOK'
<1>1. events[r] \o news \in Seq(Event)
    BY ConcatProperties DEF OcrTypeOK
<1>2. events' \in [Runs -> Seq(Event)]
    BY <1>1 DEF Post, OcrTypeOK
<1>3. job' \in [Runs -> 0..Ended] /\ recogniser' \in [Runs -> BOOLEAN]
    BY OcrAssumption DEF Post, OcrTypeOK, Ended
<1> QED
    BY <1>2, <1>3 DEF Post, OcrTypeOK

LEMMA EventsTyped ==
    /\ <<>> \in Seq(Event) /\ <<Failed>> \in Seq(Event)
    /\ \A p \in AllPages \cup {Ended} :
          <<Page(p)>> \in Seq(Event) /\ <<Page(p), Completed>> \in Seq(Event)
<1>1. Failed \in Event /\ Completed \in Event
    BY DEF Event, Failed, Completed
<1>2. \A p \in AllPages \cup {Ended} : Page(p) \in Event
    BY DEF Event, Page
<1> QED
    BY <1>1, <1>2

\* The thread's own steps, which leave the run alone
ThreadPosts(r) ==
    WorkerBegins(r) \/ Recognized(r) \/ RecogniserFails(r) \/ WorkerFails(r)

LEMMA ThreadPostsTyped ==
    ASSUME RecognitionInv, NEW r \in Runs, ThreadPosts(r)
    PROVE  OcrTypeOK'
<1>0. MaxPages \in Nat \ {0} /\ Ended = MaxPages + 1 /\ AllPages = 1..MaxPages
    BY OcrAssumption DEF Ended, AllPages
<1>1. 1 \in 1..Ended /\ Ended \in 1..Ended
    BY <1>0
<1>2. OcrTypeOK /\ job[r] \in 0..Ended /\ wanted[r] \subseteq AllPages
    BY DEF RecognitionInv, OcrTypeOK
<1>3. CASE WorkerBegins(r)
    BY <1>1, <1>2, <1>3, EventsTyped, PostTyped DEF WorkerBegins
<1>4. CASE RecogniserFails(r) \/ WorkerFails(r)
    BY <1>1, <1>2, <1>4, EventsTyped, PostTyped DEF RecogniserFails, WorkerFails
<1>5. CASE Recognized(r)
    <2>0. job[r] # 0
        BY <1>5 DEF RecognitionInv, RunsSound, RunSound, Recognized
    <2>1. job[r] \in AllPages \cup {Ended}
        BY <1>0, <1>2, <2>0
    <2>2. <<Page(job[r])>> \in Seq(Event) /\ <<Page(job[r]), Completed>> \in Seq(Event)
        BY <2>1, EventsTyped
    <2>3. CASE job[r] + 1 \in wanted[r]
        <3>1. job[r] + 1 \in 1..Ended
            BY <1>0, <1>2, <2>3
        <3> QED
            BY <1>2, <1>5, <2>2, <2>3, <3>1, PostTyped DEF Recognized
    <2>4. CASE job[r] + 1 \notin wanted[r]
        BY <1>1, <1>2, <1>5, <2>2, <2>4, PostTyped DEF Recognized
    <2> QED
        BY <2>3, <2>4
<1> QED
    BY <1>3, <1>4, <1>5 DEF ThreadPosts

LEMMA EventHandled ==
    ASSUME OcrTypeOK, NEW r \in Runs, HandleEvent(r)
    PROVE  \E e \in Event :
              LET accepted == e.type = "page" /\ AcceptsPage(r, e.page) IN
              /\ events' \in [Runs -> Seq(Event)]
              /\ pages' = IF accepted
                          THEN [pages EXCEPT ![r] = [pages[r] EXCEPT ![e.page] = @ + 1]]
                          ELSE pages
              /\ IF stage[r] = "racing" /\ ~accepted
                 THEN EndRace(r, IF e.type = "completed" THEN Verdict(r) ELSE "failed")
                 ELSE UNCHANGED <<outcome, stage, mapped>>
              /\ UNCHANGED <<wanted, dir, renderer, thread, job, recogniser>>
<1>1. events[r] \in Seq(Event) /\ events[r] # <<>>
    BY DEF OcrTypeOK, HandleEvent
<1>2. Head(events[r]) \in Event /\ Tail(events[r]) \in Seq(Event)
    BY <1>1, HeadTailProperties
<1>3. events' \in [Runs -> Seq(Event)]
    BY <1>2 DEF OcrTypeOK, HandleEvent
<1> QED
    BY <1>2, <1>3 DEF HandleEvent

LEMMA RecognitionTyped == RecognitionInv /\ [OcrNext]_ocrVars => OcrTypeOK'
<1> SUFFICES ASSUME RecognitionInv, [OcrNext]_ocrVars PROVE OcrTypeOK'
    OBVIOUS
<1>0. OcrTypeOK /\ MaxPages \in Nat \ {0}
    BY OcrAssumption DEF RecognitionInv
<1>1. ASSUME NEW r \in Runs, Begin(r) PROVE OcrTypeOK'
    <2>1. dir' \in [Runs -> SUBSET Files]
        <3>1. {Folder} \in SUBSET Files
            BY <1>0 DEF Folder, Files
        <3> QED
            BY <1>0, <1>1, <3>1, DirectoriesTyped DEF Begin
    <2>2. wanted' \in [Runs -> SUBSET AllPages]
        BY <1>0, <1>1 DEF Begin, OcrTypeOK, AllPages
    <2> QED
        BY <1>0, <1>1, <2>1, <2>2 DEF Begin, OcrTypeOK, Stages
<1>2. ASSUME NEW r \in Runs, BeginFails(r) PROVE OcrTypeOK'
    <2>1. dir' \in [Runs -> SUBSET Files]
        <3>1. \A made \in {{}, {Folder}} : made \in SUBSET Files
            BY <1>0 DEF Folder, Files
        <3> QED
            BY <1>0, <1>2, <3>1, DirectoriesTyped DEF BeginFails
    <2> QED
        BY <1>0, <1>2, <2>1 DEF BeginFails, OcrTypeOK, Stages
<1>3. ASSUME NEW r \in Runs, Render(r) PROVE OcrTypeOK'
    <2>1. Source \in Files
        BY <1>0 DEF Source, Files
    <2>2. dir' \in [Runs -> SUBSET Files]
        BY <1>0, <1>3, <2>1 DEF Render, OcrTypeOK
    <2> QED
        BY <1>0, <1>3, <2>2 DEF Render, OcrTypeOK, Stages
<1>4. ASSUME NEW r \in Runs, RenderRefused(r) PROVE OcrTypeOK'
    BY <1>0, <1>4 DEF RenderRefused, GiveUp, OcrTypeOK, Stages
<1>5. ASSUME NEW r \in Runs, RendererWrites(r) PROVE OcrTypeOK'
    <2>1. AllPages \subseteq Files
        BY <1>0 DEF AllPages, Files
    <2>2. dir' \in [Runs -> SUBSET Files]
        BY <1>0, <1>5, <2>1 DEF RendererWrites, OcrTypeOK
    <2> QED
        BY <1>0, <1>5, <2>2 DEF RendererWrites, OcrTypeOK
<1>6. ASSUME NEW r \in Runs, Rendered(r) \/ RendererFails(r) PROVE OcrTypeOK'
    <2>1. UnlinkSource(r) /\ Source \in Files
        BY <1>0, <1>6 DEF Rendered, RendererFails, Source, Files
    <2>2. dir' \in [Runs -> SUBSET Files]
        BY <1>0, <2>1 DEF UnlinkSource, OcrTypeOK
    <2> QED
        BY <1>0, <1>6, <2>2 DEF Rendered, RendererFails, GiveUp, OcrTypeOK, Stages
<1>7. ASSUME NEW r \in Runs, StartThread(r) \/ StartFails(r) PROVE OcrTypeOK'
    <2>1. CASE StartThread(r)
        BY <1>0, <2>1 DEF StartThread, OcrTypeOK, Stages
    <2>2. CASE StartFails(r)
        BY <1>0, <2>2 DEF StartFails, OcrTypeOK, Stages
    <2> QED
        BY <1>7, <2>1, <2>2
<1>8. ASSUME NEW r \in Runs, HandleEvent(r) PROVE OcrTypeOK'
    <2>1. PICK e \in Event :
             LET accepted == e.type = "page" /\ AcceptsPage(r, e.page) IN
             /\ events' \in [Runs -> Seq(Event)]
             /\ pages' = IF accepted
                         THEN [pages EXCEPT ![r] = [pages[r] EXCEPT ![e.page] = @ + 1]]
                         ELSE pages
             /\ IF stage[r] = "racing" /\ ~accepted
                THEN EndRace(r, IF e.type = "completed" THEN Verdict(r) ELSE "failed")
                ELSE UNCHANGED <<outcome, stage, mapped>>
             /\ UNCHANGED <<wanted, dir, renderer, thread, job, recogniser>>
        BY <1>0, <1>8, EventHandled
    <2>2. pages' \in [Runs -> [AllPages -> Nat]]
        <3>1. CASE e.type = "page" /\ AcceptsPage(r, e.page)
            <4>1. e.page \in AllPages
                BY <1>0, <3>1 DEF AcceptsPage, OcrTypeOK
            <4>2. pages' = [pages EXCEPT ![r] = [pages[r] EXCEPT ![e.page] = @ + 1]]
                BY <2>1, <3>1
            <4> QED
                BY <1>0, <4>1, <4>2 DEF OcrTypeOK
        <3>2. CASE ~(e.type = "page" /\ AcceptsPage(r, e.page))
            BY <1>0, <2>1, <3>2 DEF OcrTypeOK
        <3> QED
            BY <3>1, <3>2
    <2>3. /\ outcome' \in [Runs -> {"none", "completed", "failed"}]
          /\ stage' \in [Runs -> Stages] /\ mapped' \in [Runs -> BOOLEAN]
        BY <1>0, <2>1 DEF OcrTypeOK, EndRace, Verdict, Stages
    <2> QED
        BY <1>0, <2>1, <2>2, <2>3 DEF OcrTypeOK
<1>9. ASSUME NEW r \in Runs, RaceFails(r) PROVE OcrTypeOK'
    BY <1>0, <1>9 DEF RaceFails, EndRace, OcrTypeOK, Stages
<1>10. ASSUME NEW r \in Runs, Stopped(r) PROVE OcrTypeOK'
    <2>1. events' \in [Runs -> Seq(Event)]
        BY <1>0, <1>10, EventsTyped DEF Stopped, OcrTypeOK
    <2> QED
        BY <1>0, <1>10, <2>1 DEF Stopped, OcrTypeOK, Stages
<1>11. ASSUME NEW r \in Runs, RemoveDirectory(r) \/ RemoveAgain(r) PROVE OcrTypeOK'
    <2>1. dir' \in [Runs -> SUBSET Files]
        <3>1. PICK left \in SUBSET dir[r] : dir' = [dir EXCEPT ![r] = left]
            BY <1>11 DEF RemoveDirectory, RemoveAgain, AfterRemoval
        <3> QED
            BY <1>0, <3>1 DEF OcrTypeOK
    <2> QED
        BY <1>0, <1>11, <2>1 DEF RemoveDirectory, RemoveAgain, OcrTypeOK, Stages
<1>12. ASSUME NEW r \in Runs, ThreadPosts(r) PROVE OcrTypeOK'
    BY <1>12, ThreadPostsTyped
<1>13. ASSUME NEW r \in Runs, Strays(r) PROVE OcrTypeOK'
    <2>1. \A e \in Event : Append(events[r], e) \in Seq(Event)
        BY <1>0, AppendProperties DEF OcrTypeOK
    <2>2. events' \in [Runs -> Seq(Event)]
        BY <1>0, <1>13, <2>1 DEF Strays, OcrTypeOK
    <2> QED
        BY <1>0, <1>13, <2>2 DEF Strays, OcrTypeOK
<1>14. ASSUME NEW r \in Runs, ThreadDies(r) \/ OrphanEnds(r) PROVE OcrTypeOK'
    BY <1>0, <1>14 DEF ThreadDies, OrphanEnds, OcrTypeOK
<1>15. CASE OcrCrash
    BY <1>0, <1>15, EventsTyped DEF OcrCrash, OcrTypeOK, Stages
<1>16. CASE UNCHANGED ocrVars
    BY <1>0, <1>16 DEF ocrVars, OcrTypeOK
<1> QED
    BY <1>1, <1>2, <1>3, <1>4, <1>5, <1>6, <1>7, <1>8, <1>9, <1>10, <1>11, <1>12, <1>13,
       <1>14, <1>15, <1>16
    DEF OcrNext, RunStep, ThreadPosts

-----------------------------------------------------------------------------
(* What is under way *)

\* A page is accepted once: a run that has completed has them all, and accepts none.
LEMMA EventKeeps ==
    ASSUME RecognitionInv, NEW r \in Runs, HandleEvent(r)
    PROVE  RunsSound'
<1>0. OcrTypeOK /\ \A s \in Runs : RunSound(s)
    BY DEF RecognitionInv, RunsSound
<1>1. PICK e \in Event :
         LET accepted == e.type = "page" /\ AcceptsPage(r, e.page) IN
         /\ events' \in [Runs -> Seq(Event)]
         /\ pages' = IF accepted
                     THEN [pages EXCEPT ![r] = [pages[r] EXCEPT ![e.page] = @ + 1]]
                     ELSE pages
         /\ IF stage[r] = "racing" /\ ~accepted
            THEN EndRace(r, IF e.type = "completed" THEN Verdict(r) ELSE "failed")
            ELSE UNCHANGED <<outcome, stage, mapped>>
         /\ UNCHANGED <<wanted, dir, renderer, thread, job, recogniser>>
    BY <1>0, EventHandled
<1>2. CASE e.type = "page" /\ AcceptsPage(r, e.page)
    <2>1. e.page \in wanted[r] /\ e.page \notin Seen(r) /\ e.page \in AllPages
        BY <1>0, <1>2 DEF AcceptsPage, OcrTypeOK
    <2>2. outcome[r] # "completed"
        BY <1>0, <2>1 DEF RunSound
    <2>3. pages[r][e.page] = 0
        BY <1>0, <2>1 DEF RunSound, Seen
    <2>4. pages' = [pages EXCEPT ![r] = [pages[r] EXCEPT ![e.page] = @ + 1]]
        BY <1>1, <1>2
    <2>5. \A p \in AllPages : pages'[r][p] \in {0, 1}
        BY <1>0, <2>1, <2>3, <2>4 DEF RunSound, OcrTypeOK
    <2>6. \A s \in Runs : s # r => pages'[s] = pages[s]
        BY <1>0, <2>4 DEF OcrTypeOK
    <2>7. UNCHANGED <<outcome, stage, mapped>>
        BY <1>1, <1>2
    <2>8. UNCHANGED <<wanted, dir, renderer, thread, job, recogniser>>
        BY <1>1
    <2>9. ASSUME NEW s \in Runs
          PROVE  RunSound(s)'
        BY <1>0, <2>2, <2>5, <2>6, <2>7, <2>8 DEF RunSound, Seen
    <2> QED
        BY <2>9 DEF RunsSound
<1>3. CASE ~(e.type = "page" /\ AcceptsPage(r, e.page))
    <2>1. UNCHANGED <<pages, wanted, dir, renderer, thread, job, recogniser>>
        BY <1>1, <1>3
    <2>2. CASE stage[r] = "racing"
        <3>1. EndRace(r, IF e.type = "completed" THEN Verdict(r) ELSE "failed")
            BY <1>1, <1>3, <2>2
        <3>2. /\ stage'[r] = "stopping" /\ ~mapped'[r]
              /\ outcome'[r] = "completed" => Seen(r) = wanted[r]
              /\ \A s \in Runs : s # r =>
                    stage'[s] = stage[s] /\ mapped'[s] = mapped[s] /\ outcome'[s] = outcome[s]
            BY <1>0, <3>1 DEF EndRace, Verdict, OcrTypeOK
        <3> QED
            BY <1>0, <2>1, <2>2, <3>2 DEF RunsSound, RunSound, Seen
    <2>3. CASE stage[r] # "racing"
        <3>1. UNCHANGED <<outcome, stage, mapped>>
            BY <1>1, <1>3, <2>3
        <3> QED
            BY <1>0, <2>1, <3>1 DEF RunsSound, RunSound, Seen
    <2> QED
        BY <2>2, <2>3
<1> QED
    BY <1>2, <1>3

LEMMA PreparationKeeps ==
    ASSUME RecognitionInv, NEW r \in Runs,
           Begin(r) \/ BeginFails(r) \/ Render(r) \/ RenderRefused(r) \/ RendererWrites(r)
           \/ Rendered(r) \/ RendererFails(r)
    PROVE  RunsSound'
<1>0. OcrTypeOK /\ \A s \in Runs : RunSound(s)
    BY DEF RecognitionInv, RunsSound
<1>1. ASSUME Begin(r) \/ BeginFails(r)
      PROVE  \A s \in Runs : s # r => dir'[s] = dir[s] \/ dir'[s] = {}
    BY <1>1 DEF Begin, BeginFails, MakeDirectory
<1>2. CASE Begin(r)
    BY <1>0, <1>1, <1>2 DEF Begin, OcrTypeOK, RunsSound, RunSound, Seen
<1>3. CASE BeginFails(r)
    BY <1>0, <1>1, <1>3 DEF BeginFails, OcrTypeOK, RunsSound, RunSound, Seen
<1>4. CASE Render(r)
    BY <1>0, <1>4 DEF Render, OcrTypeOK, RunsSound, RunSound, Seen
<1>5. CASE RenderRefused(r)
    BY <1>0, <1>5 DEF RenderRefused, GiveUp, OcrTypeOK, RunsSound, RunSound, Seen
<1>6. CASE RendererWrites(r)
    BY <1>0, <1>6 DEF RendererWrites, OcrTypeOK, RunsSound, RunSound, Seen
<1>7. CASE Rendered(r)
    BY <1>0, <1>7 DEF Rendered, UnlinkSource, OcrTypeOK, RunsSound, RunSound, Seen
<1>8. CASE RendererFails(r)
    BY <1>0, <1>8 DEF RendererFails, UnlinkSource, GiveUp, OcrTypeOK, RunsSound, RunSound, Seen
<1> QED
    BY <1>2, <1>3, <1>4, <1>5, <1>6, <1>7, <1>8

LEMMA RecognitionKeeps ==
    ASSUME RecognitionInv, NEW r \in Runs,
           StartThread(r) \/ StartFails(r) \/ RaceFails(r) \/ Stopped(r) \/ RemoveDirectory(r)
           \/ RemoveAgain(r)
    PROVE  RunsSound'
<1>0. OcrTypeOK /\ \A s \in Runs : RunSound(s)
    BY DEF RecognitionInv, RunsSound
<1>1. CASE StartThread(r)
    BY <1>0, <1>1 DEF StartThread, OcrTypeOK, RunsSound, RunSound, Seen
<1>2. CASE StartFails(r)
    BY <1>0, <1>2 DEF StartFails, OcrTypeOK, RunsSound, RunSound, Seen
<1>3. CASE RaceFails(r)
    BY <1>0, <1>3 DEF RaceFails, EndRace, OcrTypeOK, RunsSound, RunSound, Seen
<1>4. CASE Stopped(r)
    BY <1>0, <1>4 DEF Stopped, OcrTypeOK, RunsSound, RunSound, Seen
<1>5. CASE RemoveDirectory(r)
    BY <1>0, <1>5 DEF RemoveDirectory, OcrTypeOK, RunsSound, RunSound, Seen
<1>6. CASE RemoveAgain(r)
    BY <1>0, <1>6 DEF RemoveAgain, OcrTypeOK, RunsSound, RunSound, Seen
<1> QED
    BY <1>1, <1>2, <1>3, <1>4, <1>5, <1>6

LEMMA ThreadKeeps ==
    ASSUME RecognitionInv, NEW r \in Runs,
           ThreadPosts(r) \/ Strays(r) \/ ThreadDies(r) \/ OrphanEnds(r)
    PROVE  RunsSound'
<1>0. OcrTypeOK /\ \A s \in Runs : RunSound(s)
    BY DEF RecognitionInv, RunsSound
<1>1. UNCHANGED <<stage, wanted, outcome, dir, renderer, mapped, pages>>
    BY DEF ThreadPosts, WorkerBegins, Recognized, RecogniserFails, WorkerFails, Post,
        Strays, ThreadDies, OrphanEnds
<1>2. \A s \in Runs : thread'[s] = "live" => thread[s] = "live"
    BY <1>0 DEF ThreadPosts, WorkerBegins, Recognized, RecogniserFails, WorkerFails, Post,
        Strays, ThreadDies, OrphanEnds, OcrTypeOK
<1>3. \A s \in Runs : recogniser'[s] => job'[s] # 0
    <2>1. CASE ThreadPosts(r)
        <3>1. PICK news, p : Post(r, news, p) /\ p \in {1, Ended, job[r] + 1}
            BY <2>1 DEF ThreadPosts, WorkerBegins, Recognized, RecogniserFails, WorkerFails
        <3>2. p # 0
            BY <1>0, <3>1, OcrAssumption DEF OcrTypeOK, Ended
        <3> QED
            BY <1>0, <3>1, <3>2 DEF Post, RunSound, OcrTypeOK
    <2>2. CASE Strays(r) \/ ThreadDies(r) \/ OrphanEnds(r)
        BY <1>0, <2>2 DEF Strays, ThreadDies, OrphanEnds, RunSound, OcrTypeOK
    <2> QED
        BY <2>1, <2>2
<1> QED
    BY <1>0, <1>1, <1>2, <1>3 DEF RunsSound, RunSound, Seen

LEMMA RecognitionStep == RecognitionInv /\ [OcrNext]_ocrVars => RecognitionInv'
<1> SUFFICES ASSUME RecognitionInv, [OcrNext]_ocrVars PROVE RecognitionInv'
    OBVIOUS
<1>0. OcrTypeOK /\ \A s \in Runs : RunSound(s)
    BY DEF RecognitionInv, RunsSound
<1>1. OcrTypeOK'
    BY RecognitionTyped
<1>2. ASSUME NEW r \in Runs, RunStep(r) PROVE RunsSound'
    BY <1>2, PreparationKeeps, RecognitionKeeps, EventKeeps, ThreadKeeps DEF RunStep, ThreadPosts
<1>3. ASSUME OcrCrash PROVE RunsSound'
    BY <1>0, <1>3 DEF OcrCrash, InProgress, Stages, OcrTypeOK, RunsSound, RunSound, Seen
<1>4. ASSUME UNCHANGED ocrVars PROVE RunsSound'
    BY <1>0, <1>4 DEF ocrVars, RunsSound, RunSound, Seen
<1>5. RunsSound'
    BY <1>2, <1>3, <1>4 DEF OcrNext
<1> QED
    BY <1>1, <1>5 DEF RecognitionInv

\* The inductive invariant: threads and renderers live only while their run waits for them,
\* and no page comes twice.
THEOREM RecognitionInvariant == OcrSpec => []RecognitionInv
BY RecognitionInitial, RecognitionStep, PTL DEF OcrSpec

\* The variables of the recognition keep their types, for every limit of pages and events.
THEOREM RecognitionTypes == OcrSpec => []OcrTypeOK
<1>1. RecognitionInv => OcrTypeOK
    BY DEF RecognitionInv
<1> QED
    BY <1>1, RecognitionInvariant, PTL

\* runOcrTask: what it returns holds every page asked for, each once, even while its thread
\* goes on posting.
THEOREM RecognizedPagesExact == OcrSpec => []PagesExact
<1>1. RecognitionInv => PagesExact
    <2> SUFFICES ASSUME RecognitionInv, NEW r \in Runs, outcome[r] = "completed",
                        NEW p \in AllPages
                 PROVE  pages[r][p] = IF p \in wanted[r] THEN 1 ELSE 0
        BY DEF PagesExact
    <2>1. Seen(r) = wanted[r] /\ pages[r][p] \in {0, 1}
        BY DEF RecognitionInv, RunsSound, RunSound
    <2> QED
        BY <2>1 DEF Seen
<1> QED
    BY <1>1, RecognitionInvariant, PTL

\* LocalPdfOcrPipeline.run: no thread and no file outlives a run that has settled.
THEOREM RecognitionLeavesNothing == OcrSpec => []NothingLeft
<1>1. RecognitionInv => NothingLeft
    BY DEF RecognitionInv, RunsSound, RunSound, NothingLeft
<1> QED
    BY <1>1, RecognitionInvariant, PTL

\* The clean-up waits for terminate: a directory never changes under a thread that lives.
THEOREM ThreadsKeepTheirFiles == OcrSpec => StoppedBeforeRemoval
<1>1. RecognitionInv /\ [OcrNext]_ocrVars =>
          [\A r \in Runs : thread[r] = "live" => dir'[r] = dir[r]]_ocrVars
    <2> SUFFICES ASSUME RecognitionInv, OcrNext, NEW s \in Runs, thread[s] = "live"
                 PROVE  dir'[s] = dir[s]
        OBVIOUS
    <2>0. OcrTypeOK /\ stage[s] \in {"racing", "stopping"} /\ ~renderer[s]
        BY DEF RecognitionInv, RunsSound, RunSound
    <2>1. ASSUME NEW r \in Runs, Begin(r) \/ BeginFails(r) PROVE dir'[s] = dir[s]
        <3>1. s # r /\ ~Leftover(s)
            BY <2>0, <2>1 DEF Begin, BeginFails, Leftover
        <3> QED
            BY <2>1, <3>1 DEF Begin, BeginFails, MakeDirectory
    <2>2. ASSUME NEW r \in Runs, RunStep(r), ~Begin(r), ~BeginFails(r) PROVE dir'[s] = dir[s]
        BY <2>0, <2>2 DEF RunStep, Render, RenderRefused, RendererWrites, Rendered,
            RendererFails, UnlinkSource, GiveUp, StartThread, StartFails, HandleEvent, RaceFails,
            Stopped, RemoveDirectory, RemoveAgain, WorkerBegins, Recognized, RecogniserFails,
            WorkerFails, Post, Strays, ThreadDies, OrphanEnds, OcrTypeOK
    <2>3. CASE OcrCrash
        BY <2>3 DEF OcrCrash
    <2> QED
        BY <2>1, <2>2, <2>3 DEF OcrNext
<1> QED
    BY <1>1, RecognitionInvariant, PTL DEF OcrSpec, StoppedBeforeRemoval

-----------------------------------------------------------------------------
(* The start and the release of the desktop *)

Active(g) == at[g] \in Starting \cup {"up"}

\* Generations come in order: none after the latest has begun, and only the latest, which
\* index.ts remembers, may be active; a window, a worker or a session belongs to one.
Ordered ==
    /\ \A g \in Gens : g > latest => at[g] = "none"
    /\ \A g \in Gens : Active(g) => g = startup /\ g = latest
    /\ \A g \in Gens : window[g] \/ utility[g] => Active(g)
    /\ startup # None => Active(startup)
    /\ \A g \in Gens : session[g] # "none" => at[g] \in {"loading", "up", "disposed"}

Released ==
    \A g \in Gens : at[g] = "disposed" /\ ~late[g] =>
        Served(g) = {} /\ session[g] \in {"closing", "closed"}

\* Who serves a group has come to its registration.
Registrations ==
    \A g \in Gens :
       /\ Served(g) # {} => at[g] \in {"opening", "loading", "up", "disposed"}
       /\ at[g] = "opening" => Served(g) = {"shell"}

Core == Ordered /\ Released /\ Registrations /\ ServedByItself
ShellInv == ShellTypeOK /\ (~over => Core)

-----------------------------------------------------------------------------
(* Types *)

LEMMA ShellInitial == ShellInit => ShellInv
<1> SUFFICES ASSUME ShellInit PROVE ShellInv
    OBVIOUS
<1>1. ShellTypeOK
    BY ShellAssumption DEF ShellInit, ShellTypeOK, Gens, Groups, Places, Sessions, None
<1>2. Ordered
    BY DEF ShellInit, Ordered, Active, Starting, None
<1>3. Released /\ Registrations /\ ServedByItself
    BY DEF ShellInit, Released, Registrations, ServedByItself, Served, None, Groups, Gens
<1> QED BY <1>1, <1>2, <1>3 DEF ShellInv, Core

LEMMA FailTyped == ASSUME ShellTypeOK, NEW g \in Gens, Fail(g) PROVE ShellTypeOK' /\ over'
BY DEF ShellTypeOK, Fail, Served, Places, Groups

LEMMA DisposeTyped ==
    ASSUME ShellTypeOK, NEW g \in Gens, DisposeDesktop(g), over' \in BOOLEAN
    PROVE  ShellTypeOK'
<1>1. CloseSession(g) \in Sessions
    BY DEF ShellTypeOK, CloseSession, Sessions
<1>2. handlers' \in [Groups -> Gens \cup {None}]
    BY DEF ShellTypeOK, DisposeDesktop, Unregister
<1>3. session' \in [Gens -> Sessions] /\ late' \in [Gens -> BOOLEAN]
    BY <1>1 DEF ShellTypeOK, DisposeDesktop
<1> QED BY <1>2, <1>3 DEF ShellTypeOK, DisposeDesktop, Places

LEMMA ShellTyped == ShellTypeOK /\ [ShellNext]_shellVars => ShellTypeOK'
<1> SUFFICES ASSUME ShellTypeOK, [ShellNext]_shellVars PROVE ShellTypeOK'
    OBVIOUS
<1>1. CASE Launch
    BY <1>1, ShellAssumption DEF Launch, ShellTypeOK, Gens, Places, None
<1>2. ASSUME NEW g \in Gens, GenStep(g) PROVE ShellTypeOK'
    <2>1. CASE Fail(g)
        BY <2>1, FailTyped
    <2>2. CASE ~Fail(g) /\ (Forked(g) \/ WorkerGreets(g) \/ WorkerExits(g) \/ Loaded(g))
        <3>1. at' \in [Gens -> Places]
            BY <2>2 DEF Forked, WorkerGreets, WorkerExits, Loaded, ShellTypeOK, Places
        <3>2. utility' \in [Gens -> BOOLEAN] /\ greeting' \in [Gens -> {"none", "sent", "read"}]
            BY <2>2 DEF Forked, WorkerGreets, WorkerExits, Loaded, ShellTypeOK
        <3> QED
            BY <2>2, <3>1, <3>2 DEF Forked, WorkerGreets, WorkerExits, Loaded, ShellTypeOK
    <2>3. CASE ~Fail(g) /\ Ready(g)
        <3>1. at' \in [Gens -> Places] /\ greeting' \in [Gens -> {"none", "sent", "read"}]
            BY <2>3 DEF Ready, ShellTypeOK, Places
        <3>2. handlers' \in [Groups -> Gens \cup {None}]
            BY <2>3 DEF Ready, Register, ShellTypeOK
        <3> QED
            BY <2>3, <3>1, <3>2 DEF Ready, ShellTypeOK
    <2>6. CASE ~Fail(g) /\ Initialized(g)
        <3>1. PICK opens \in BOOLEAN :
                 /\ session' = [session EXCEPT ![g] = IF opens THEN "open" ELSE "locked"]
                 /\ handlers' = [c \in Groups |->
                       IF c = "workspace" \/ (c = "composition" /\ opens) THEN g ELSE handlers[c]]
                 /\ at' = [at EXCEPT ![g] = "loading"]
                 /\ window' = [window EXCEPT ![g] = TRUE]
                 /\ UNCHANGED <<platform, over, pendingLaunch, startup, latest, utility, greeting,
                                late>>
            BY <2>6 DEF Initialized
        <3>2. at' \in [Gens -> Places] /\ window' \in [Gens -> BOOLEAN]
            BY <3>1 DEF ShellTypeOK, Places
        <3>3. session' \in [Gens -> Sessions]
            BY <3>1 DEF ShellTypeOK, Sessions
        <3>4. handlers' \in [Groups -> Gens \cup {None}]
            BY <3>1 DEF ShellTypeOK
        <3> QED
            BY <3>1, <3>2, <3>3, <3>4 DEF ShellTypeOK
    <2>4. CASE Unlock(g) \/ Unlocked(g) \/ Registered(g) \/ Closed(g) \/ RegisteredLate(g)
        BY <2>4 DEF Unlock, Unlocked, Registered, Closed, RegisteredLate, Register,
                    ShellTypeOK, Sessions, Groups
    <2>5. CASE WindowClosed(g) \/ Quit(g)
        BY <2>5, DisposeTyped DEF WindowClosed, Quit
    <2> QED
        BY <1>2, <2>1, <2>2, <2>3, <2>4, <2>5, <2>6
        DEF GenStep, ForkFails, NotReady, InitializeFails, LoadFails
<1>3. CASE UNCHANGED shellVars
    BY <1>3 DEF shellVars, ShellTypeOK
<1> QED BY <1>1, <1>2, <1>3 DEF ShellNext

-----------------------------------------------------------------------------
(* Each action, while the process lives *)

LEMMA LaunchKeeps ==
    ASSUME ShellTypeOK, Core, ~over, Launch
    PROVE  Core'
<1>0. latest \in Nat /\ latest' = latest + 1 /\ latest' \in Gens /\ latest' # None
    BY ShellAssumption DEF Launch, ShellTypeOK, Gens, None
<1>5. /\ startup' = latest' /\ at' = [at EXCEPT ![latest'] = "starting"]
      /\ UNCHANGED <<utility, window, session>>
    BY DEF Launch
<1>6. \A g \in Gens : ~Active(g) /\ ~window[g] /\ ~utility[g]
    BY DEF Launch, Core, Ordered, Gens, None
<1>7. at[latest'] = "none" /\ session[latest'] = "none"
    BY <1>0 DEF Core, Ordered, Gens
<1>1. Ordered'
    <2>1. \A g \in Gens : g > latest' => at'[g] = "none"
        BY <1>0, <1>5 DEF Core, Ordered, Gens, ShellTypeOK
    <2>2. \A g \in Gens : Active(g)' => g = latest'
        BY <1>5, <1>6 DEF Active, ShellTypeOK
    <2>3. at'[latest'] = "starting"
        BY <1>0, <1>5 DEF ShellTypeOK
    <2>4. \A g \in Gens : session'[g] # "none" => at'[g] \in {"loading", "up", "disposed"}
        BY <1>5, <1>7 DEF Core, Ordered, ShellTypeOK
    <2> QED BY <1>5, <1>6, <2>1, <2>2, <2>3, <2>4 DEF Ordered, Active, Starting
<1>2. Released'
    BY DEF Core, Ordered, Active, Starting, Released, Served, Launch, Gens, None, ShellTypeOK
<1>3. Registrations'
    BY DEF Core, Ordered, Active, Starting, Registrations, Served, Launch, Gens, None,
       ShellTypeOK
<1>4. ServedByItself'
    BY DEF Core, Ordered, Active, Starting, Released, Registrations, Served, ServedByItself,
       Launch, Gens, None, ShellTypeOK
<1> QED BY <1>1, <1>2, <1>3, <1>4 DEF Core

LEMMA ForkedKeeps ==
    ASSUME ShellTypeOK, Core, ~over, NEW g \in Gens, Forked(g)
    PROVE  Core'
<1>1. Ordered'
    BY DEF Core, Ordered, Active, Starting, Forked, ShellTypeOK
<1>2. Released'
    BY DEF Core, Ordered, Active, Starting, Released, Served, Forked, ShellTypeOK
<1>3. Registrations'
    BY DEF Core, Ordered, Active, Starting, Registrations, Served, Forked, ShellTypeOK
<1>4. ServedByItself'
    BY DEF Core, Ordered, Active, Starting, Released, Registrations, Served, ServedByItself,
       Forked, ShellTypeOK
<1> QED BY <1>1, <1>2, <1>3, <1>4 DEF Core

LEMMA WorkerKeeps ==
    ASSUME ShellTypeOK, Core, ~over, NEW g \in Gens, WorkerGreets(g) \/ WorkerExits(g) \/ Loaded(g)
    PROVE  Core'
<1>1. Ordered'
    BY DEF Core, Ordered, Active, Starting, WorkerGreets, WorkerExits, Loaded, ShellTypeOK
<1>2. Released'
    BY DEF Core, Ordered, Active, Starting, Released, Served, WorkerGreets, WorkerExits,
       Loaded, ShellTypeOK
<1>3. Registrations'
    BY DEF Core, Ordered, Active, Starting, Registrations, Served, WorkerGreets, WorkerExits,
       Loaded, ShellTypeOK
<1>4. ServedByItself'
    BY DEF Core, Ordered, Active, Starting, Released, Registrations, Served, ServedByItself,
       WorkerGreets, WorkerExits, Loaded, ShellTypeOK
<1> QED BY <1>1, <1>2, <1>3, <1>4 DEF Core

LEMMA ReadyKeeps ==
    ASSUME ShellTypeOK, Core, ~over, NEW g \in Gens, Ready(g), ~Fail(g)
    PROVE  Core'
<1>0. /\ at[g] = "readiness" /\ handlers["shell"] = None
      /\ handlers' = [handlers EXCEPT !["shell"] = g]
      /\ at' = [at EXCEPT ![g] = "opening"]
      /\ UNCHANGED <<platform, over, pendingLaunch, startup, latest, utility, window, session,
                     late>>
    BY DEF Ready, Register
<1>1. Ordered'
    BY <1>0 DEF Core, Ordered, Active, Starting, Groups, Gens, None, ShellTypeOK
<1>2. Released'
    BY <1>0 DEF Core, Ordered, Active, Starting, Released, Served, Groups, Gens, None,
       ShellTypeOK
<1>3. Registrations'
    BY <1>0 DEF Core, Ordered, Active, Starting, Registrations, Served, Groups, Gens, None,
       ShellTypeOK
<1>4. ServedByItself'
    BY <1>0 DEF Core, Ordered, Active, Starting, Released, Registrations, Served,
       ServedByItself,
       Groups, Gens, None, ShellTypeOK
<1> QED BY <1>1, <1>2, <1>3, <1>4 DEF Core

LEMMA InitializedKeeps ==
    ASSUME ShellTypeOK, Core, ~over, NEW g \in Gens, Initialized(g), ~Fail(g)
    PROVE  Core'
<1>0. PICK opens \in BOOLEAN :
         /\ handlers["workspace"] = None /\ (opens => handlers["composition"] = None)
         /\ session' = [session EXCEPT ![g] = IF opens THEN "open" ELSE "locked"]
         /\ handlers' = [c \in Groups |->
               IF c = "workspace" \/ (c = "composition" /\ opens) THEN g ELSE handlers[c]]
         /\ at' = [at EXCEPT ![g] = "loading"]
         /\ window' = [window EXCEPT ![g] = TRUE]
         /\ UNCHANGED <<platform, over, pendingLaunch, startup, latest, utility, greeting, late>>
    BY DEF Initialized
<1> at[g] = "opening"
    BY DEF Initialized
<1>1. Ordered'
    BY <1>0 DEF Core, Ordered, Active, Starting, Groups, Gens, None, ShellTypeOK
<1>2. Released'
    BY <1>0 DEF Core, Ordered, Active, Starting, Released, Served, Groups, Gens, None,
       ShellTypeOK
<1>3. Registrations'
    BY <1>0 DEF Core, Ordered, Active, Starting, Registrations, Served, Groups, Gens, None,
       ShellTypeOK
<1>4. ServedByItself'
    BY <1>0 DEF Core, Ordered, Active, Starting, Released, Registrations, Served,
       ServedByItself,
       Groups, Gens, None, ShellTypeOK
<1> QED BY <1>1, <1>2, <1>3, <1>4 DEF Core

LEMMA UnlockKeeps ==
    ASSUME ShellTypeOK, Core, ~over, NEW g \in Gens, Unlock(g) \/ Unlocked(g)
    PROVE  Core'
<1>1. Ordered'
    BY DEF Core, Ordered, Active, Starting, Unlock, Unlocked, ShellTypeOK
<1>2. Released'
    BY DEF Core, Ordered, Active, Starting, Released, Served, Unlock, Unlocked, ShellTypeOK
<1>3. Registrations'
    BY DEF Core, Ordered, Active, Starting, Registrations, Served, Unlock, Unlocked, ShellTypeOK
<1>4. ServedByItself'
    BY DEF Core, Ordered, Active, Starting, Released, Registrations, Served, ServedByItself,
       Unlock, Unlocked, ShellTypeOK
<1> QED BY <1>1, <1>2, <1>3, <1>4 DEF Core

LEMMA RegisteredKeeps ==
    ASSUME ShellTypeOK, Core, ~over, NEW g \in Gens, Registered(g)
    PROVE  Core'
<1>1. Ordered'
    BY DEF Core, Ordered, Active, Starting, Registered, Register, Groups, Gens, None,
       ShellTypeOK
<1>2. Released'
    BY DEF Core, Ordered, Active, Starting, Released, Served, Registered, Register, Groups,
       Gens, None, ShellTypeOK
<1>3. Registrations'
    BY DEF Core, Ordered, Active, Starting, Registrations, Served, Registered, Register,
       Groups, Gens, None, ShellTypeOK
<1>4. ServedByItself'
    BY DEF Core, Ordered, Active, Starting, Released, Registrations, Served, ServedByItself,
       Registered, Register, Groups, Gens, None, ShellTypeOK
<1> QED BY <1>1, <1>2, <1>3, <1>4 DEF Core

LEMMA DisposeKeeps ==
    ASSUME ShellTypeOK, Core, ~over, NEW g \in Gens, at[g] = "up", DisposeDesktop(g)
    PROVE  Core'
<1>1. Ordered'
    BY DEF Core, Ordered, Active, Starting, DisposeDesktop, Unregister, CloseSession, Groups,
       Gens, None, Sessions, ShellTypeOK
<1>5. handlers' = [c \in Groups |-> IF handlers[c] = g THEN None ELSE handlers[c]]
    BY DEF DisposeDesktop, Unregister, Served
<1>6. Served(g)' = {}
    BY <1>5 DEF Served, Gens, None
<1>7. \A h \in Gens : h # g => Served(h)' = Served(h)
    BY <1>5 DEF Served, Gens, None
<1>8. ~late'[g] => session'[g] \in {"closing", "closed"}
    BY DEF DisposeDesktop, CloseSession, ShellTypeOK
<1>2. Released'
    BY <1>6, <1>7, <1>8 DEF Core, Released, DisposeDesktop, ShellTypeOK
<1>3. Registrations'
    BY DEF Core, Ordered, Active, Starting, Registrations, Served, DisposeDesktop, Unregister,
       CloseSession, Groups, Gens, None, Sessions, ShellTypeOK
<1>4. ServedByItself'
    BY DEF Core, Ordered, Active, Starting, Released, Registrations, Served, ServedByItself,
       DisposeDesktop, Unregister, CloseSession, Groups, Gens, None, Sessions, ShellTypeOK
<1> QED BY <1>1, <1>2, <1>3, <1>4 DEF Core

LEMMA ClosedKeeps ==
    ASSUME ShellTypeOK, Core, ~over, NEW g \in Gens, Closed(g)
    PROVE  Core'
<1>1. Ordered'
    BY DEF Core, Ordered, Active, Starting, Closed, ShellTypeOK
<1>2. Released'
    BY DEF Core, Ordered, Active, Starting, Released, Served, Closed, ShellTypeOK
<1>3. Registrations'
    BY DEF Core, Ordered, Active, Starting, Registrations, Served, Closed, ShellTypeOK
<1>4. ServedByItself'
    BY DEF Core, Ordered, Active, Starting, Released, Registrations, Served, ServedByItself,
       Closed, ShellTypeOK
<1> QED BY <1>1, <1>2, <1>3, <1>4 DEF Core

LEMMA LateKeeps ==
    ASSUME ShellTypeOK, Core, ~over, NEW g \in Gens, RegisteredLate(g)
    PROVE  Core'
<1>1. Ordered'
    BY DEF Core, Ordered, Active, Starting, RegisteredLate, Register, Groups, Gens, None,
       ShellTypeOK
<1>2. Released'
    BY DEF Core, Ordered, Active, Starting, Released, Served, RegisteredLate, Register,
       Groups, Gens, None, ShellTypeOK
<1>3. Registrations'
    BY DEF Core, Ordered, Active, Starting, Registrations, Served, RegisteredLate, Register,
       Groups, Gens, None, ShellTypeOK
<1>4. ServedByItself'
    BY DEF Core, Ordered, Active, Starting, Released, Registrations, Served, ServedByItself,
       RegisteredLate, Register, Groups, Gens, None, ShellTypeOK
<1> QED BY <1>1, <1>2, <1>3, <1>4 DEF Core

LEMMA ShellStep == ShellInv /\ [ShellNext]_shellVars => ShellInv'
<1> SUFFICES ASSUME ShellInv, [ShellNext]_shellVars, ~over' PROVE Core'
    BY ShellTyped DEF ShellInv
<1>1. CASE Launch
    BY <1>1, LaunchKeeps DEF ShellInv, Launch
<1>2. ASSUME NEW g \in Gens, GenStep(g) PROVE Core'
    <2>1. ~Fail(g)
        BY DEF Fail
    <2>2. ~over
        BY <1>2, <2>1 DEF GenStep, Forked, ForkFails, WorkerGreets, WorkerExits, Ready,
           NotReady,
           Initialized, InitializeFails, Loaded, LoadFails, Unlock, Unlocked, Registered,
           WindowClosed, Quit, Closed, RegisteredLate
    <2>3. CASE Forked(g) \/ WorkerGreets(g) \/ WorkerExits(g) \/ Loaded(g)
        BY <2>2, <2>3, ForkedKeeps, WorkerKeeps DEF ShellInv
    <2>4. CASE Ready(g) \/ Initialized(g)
        BY <2>1, <2>2, <2>4, ReadyKeeps, InitializedKeeps DEF ShellInv
    <2>5. CASE Unlock(g) \/ Unlocked(g) \/ Registered(g)
        BY <2>2, <2>5, UnlockKeeps, RegisteredKeeps DEF ShellInv
    <2>6. CASE WindowClosed(g) \/ Quit(g)
        BY <2>2, <2>6, DisposeKeeps DEF ShellInv, WindowClosed, Quit
    <2>7. CASE Closed(g) \/ RegisteredLate(g)
        BY <2>2, <2>7, ClosedKeeps, LateKeeps DEF ShellInv
    <2> QED
        BY <1>2, <2>1, <2>3, <2>4, <2>5, <2>6, <2>7
        DEF GenStep, ForkFails, NotReady, InitializeFails, LoadFails
<1>3. CASE UNCHANGED shellVars
    BY <1>3 DEF shellVars, ShellInv, Core, Ordered, Active, Released, Registrations,
       ServedByItself, Served
<1> QED BY <1>1, <1>2, <1>3 DEF ShellNext

-----------------------------------------------------------------------------
(* Theorems *)

\* The invariant that carries the others: generations of index.ts's start() come in order, and
\* a released one holds nothing.
THEOREM ShellInvariant == ShellSpec => []ShellInv
BY ShellInitial, ShellStep, PTL DEF ShellSpec

\* Every variable of the launch of bootstrap.ts and of index.ts's generations keeps its type.
THEOREM ShellTypeCorrect == ShellSpec => []ShellTypeOK
<1>1. ShellInv => ShellTypeOK
    BY DEF ShellInv
<1> QED BY <1>1, ShellInvariant, PTL

\* launchDesktop and startDesktop have at most one desktop at a time, the latest, whatever
\* activations, closings, failing starts and dying workers cross.
THEOREM DesktopIsOne == ShellSpec => []OneDesktop
<1>1. ShellInv => OneDesktop
    BY DEF ShellInv, Core, Ordered, Active, OneDesktop
<1> QED BY <1>1, ShellInvariant, PTL

\* disposeDesktop leaves no handler and no open session of its generation, unless an unlock was
\* under way when it ran.
THEOREM NothingHeldAfterRelease == ShellSpec => []ReleasedWhole
<1>1. ShellInv => ReleasedWhole
    BY DEF ShellInv, Core, Released, ReleasedWhole
<1> QED BY <1>1, ShellInvariant, PTL

\* A desktop that is up is served by the handlers of its own session, unless an unlock of an
\* earlier generation came too late.
THEOREM DesktopServesItself == ShellSpec => []ServedByItself
<1>1. ShellInv => ServedByItself
    BY DEF ShellInv, Core, ServedByItself
<1> QED BY <1>1, ShellInvariant, PTL

=============================================================================
