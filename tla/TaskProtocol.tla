---------------------------- MODULE TaskProtocol ----------------------------
(***************************************************************************)
(* Utility tasks between the main process and its worker process:          *)
(*                                                                         *)
(*   apps/desktop/src/main/task-coordinator.ts   (TaskCoordinator)         *)
(*   apps/desktop/src/main/utility-port.ts       (createUtilityPort)       *)
(*   apps/desktop/src/worker/task-runtime.ts     (createTaskRuntime)       *)
(*   apps/desktop/src/main/index.ts              (disposeDesktop)          *)
(*                                                                         *)
(* A message channel with a queue each way joins the two.  The worker may  *)
(* exit at any step, before the main process hears of it; its sends may    *)
(* throw, in which case the message was not delivered.                     *)
(***************************************************************************)
EXTENDS Integers, Sequences, SequencesExt

CONSTANTS
    Tasks,            \* task ids (random UUIDs: no id is posted twice)
    IssuedCapacity, TerminalCapacity, PendingCapacity,
    ThrownSends       \* how many sends of the worker may throw in a row

ASSUME CapacityAssumption ==
    {IssuedCapacity, TerminalCapacity, PendingCapacity} \subseteq Nat \ {0}
\* The worker tries to report a failure twice.
ASSUME ThrownSendsAssumption == ThrownSends \subseteq 1..2

VARIABLES
    active, issued, cancellationRequested, disposed,  \* TaskCoordinator
    port,                           \* the main process's end is available
    child,                          \* the worker process runs
    requests, responses,            \* what is under way on the channel
    turn,                           \* the worker's active tasks, waiting or aborted
    terminal, pendingCancellation,  \* ids the worker remembers
    published,                      \* history: the phases shown of every task
    posted                          \* history: the tasks whose start was posted

coordinator == <<active, issued, cancellationRequested, disposed>>
worker == <<turn, terminal, pendingCancellation>>
history == <<published, posted>>
vars == <<coordinator, port, child, requests, responses, worker, history>>

Request == [type : {"start", "cancel"}, task : Tasks]
Response == [type : {"running", "completed", "result", "cancelled", "worker-failure"},
             task : Tasks]
Message(type, t) == [type |-> type, task |-> t]
Ends == {"result", "cancelled", "worker-failure"}

\* A bug to check against: the bound is tested before the id is added.
RememberLate(ids, t, capacity) ==
    Append(IF Len(ids) > capacity THEN Tail(ids) ELSE ids, t)

\* rememberIssued, rememberBounded: the oldest id makes room.
Remember(ids, t, capacity) ==
    LET more == IF t \in Range(ids) THEN ids ELSE Append(ids, t)
    IN  IF Len(more) > capacity THEN Tail(more) ELSE more

-----------------------------------------------------------------------------
(* The main process *)

\* start: a post that throws, the port not being available, is rolled back.
Start(t) ==
    /\ ~disposed /\ port
    /\ t \notin active \cup Range(issued) \cup posted
    /\ issued' = Remember(issued, t, IssuedCapacity)
    /\ active' = active \cup {t}
    /\ requests' = IF child THEN Append(requests, Message("start", t))
                   ELSE requests
    /\ posted' = posted \cup {t}
    /\ UNCHANGED <<cancellationRequested, disposed, port, child, responses, worker, published>>

\* A bug to check against: the id is not looked up before its cancellation is posted.
CancelAny(t) ==
    /\ ~disposed /\ port
    /\ t \notin cancellationRequested
    /\ requests' = IF child THEN Append(requests, Message("cancel", t))
                   ELSE requests
    /\ cancellationRequested' = (cancellationRequested \cup {t}) \cap active
    /\ UNCHANGED <<active, issued, disposed, port, child, responses, worker, history>>

\* cancel: a second request is answered, and not posted.
Cancel(t) ==
    /\ ~disposed /\ port
    /\ t \in active \ cancellationRequested
    /\ requests' = IF child THEN Append(requests, Message("cancel", t))
                   ELSE requests
    /\ cancellationRequested' = cancellationRequested \cup {t}
    /\ UNCHANGED <<active, issued, disposed, port, child, responses, worker, history>>

Publish(t, phase) == published' = [published EXCEPT ![t] = Append(@, phase)]

Forget(t) ==
    /\ active' = active \ {t}
    /\ cancellationRequested' = cancellationRequested \ {t}

\* receiveWorkerMessage: nothing of a task that is not active counts.
ReceiveResponse ==
    /\ ~disposed /\ port /\ responses # <<>>
    /\ responses' = Tail(responses)
    /\ LET r == Head(responses)
       IN  \/ /\ r.task \in active /\ r.type \in {"running", "completed"}
              /\ Publish(r.task, r.type)
              /\ UNCHANGED <<active, cancellationRequested>>
           \/ /\ r.task \in active /\ r.type = "cancelled"
              /\ Publish(r.task, "cancelled") /\ Forget(r.task)
           \/ /\ r.task \in active /\ r.type \in {"result", "worker-failure"}
              /\ Forget(r.task)
              /\ UNCHANGED published
           \/ /\ r.task \notin active
              /\ UNCHANGED <<active, cancellationRequested, published>>
    /\ UNCHANGED <<issued, disposed, port, child, requests, worker, posted>>

\* The channel and the worker behind it no longer matter.
Severed ==
    /\ port' = FALSE /\ child' = FALSE
    /\ requests' = <<>> /\ responses' = <<>>
    /\ turn' = [t \in {} |-> "waiting"]
    /\ terminal' = <<>> /\ pendingCancellation' = <<>>

\* A bug to check against: the coordinator does not listen for the disconnection.
DisconnectUnheard ==
    /\ port
    /\ Severed
    /\ UNCHANGED <<coordinator, history>>

\* markUnavailable, on exit, error or close, calls receiveTransportFailure at once.
Disconnect ==
    /\ port
    /\ Severed
    /\ active' = {} /\ cancellationRequested' = {}
    /\ UNCHANGED <<issued, disposed, history>>

\* disposeDesktop: cancellations are posted to a worker that is killed next.
Dispose ==
    /\ ~disposed
    /\ disposed' = TRUE
    /\ Severed
    /\ active' = {} /\ cancellationRequested' = {}
    /\ UNCHANGED <<issued, history>>

-----------------------------------------------------------------------------
(* The worker process *)

Before(messages, i) == SubSeq(messages, 1, i)

\* A bug to check against: a failure is reported once, and not again from receive's catch.
CutOnce(t, messages) ==
    {Before(messages, i) \o (IF n = 1 THEN <<Message("worker-failure", t)>> ELSE <<>>) :
        i \in 0..(Len(messages) - 1), n \in ThrownSends}

\* What is delivered of messages when a send throws: those before it and then, the second
\* or the third time a send is tried, worker-failure.
Cut(t, messages) ==
    {Before(messages, i) \o <<Message("worker-failure", t)>> :
        i \in 0..(Len(messages) - 1), n \in ThrownSends}

\* receive ends with task t and says one of these last.
EndTask(t, sayings) ==
    /\ \E said \in sayings : responses' = responses \o said
    /\ turn' = [u \in DOMAIN turn \ {t} |-> turn[u]]
    /\ terminal' = Remember(terminal, t, TerminalCapacity)

Requested(type, t) ==
    /\ child /\ requests # <<>>
    /\ Head(requests) = Message(type, t)
    /\ requests' = Tail(requests)
    /\ UNCHANGED <<coordinator, port, child, history>>

Known(t) == t \in DOMAIN turn \cup Range(terminal)

\* The task begins: it says so, and waits for its turn.  (For an id it knows, or has a
\* cancellation of, the worker has other answers; StartsAreNew says they are not needed.)
ReceiveStart(t) ==
    /\ Requested("start", t)
    /\ ~Known(t) /\ t \notin Range(pendingCancellation)
    /\ UNCHANGED pendingCancellation
    /\ \/ /\ responses' = Append(responses, Message("running", t))
          /\ turn' = [u \in DOMAIN turn \cup {t} |->
                         IF u = t THEN "waiting" ELSE turn[u]]
          /\ UNCHANGED terminal
       \/ EndTask(t, Cut(t, <<Message("running", t)>>))

\* A bug to check against: an abort answers at once, and the turn comes all the same.
AbortAnswers(t) ==
    /\ Requested("cancel", t)
    /\ t \in DOMAIN turn
    /\ responses' = Append(responses, Message("cancelled", t))
    /\ UNCHANGED worker

AbortTurn(t) ==
    /\ Requested("cancel", t)
    /\ t \in DOMAIN turn
    /\ turn' = [turn EXCEPT ![t] = "aborted"]
    /\ UNCHANGED <<responses, terminal, pendingCancellation>>

\* A cancellation of a task the worker does not know, or knows no more, is remembered
\* for a start to come; one for a task known to have ended is dropped.
ReceiveLateCancel(t) ==
    /\ Requested("cancel", t)
    /\ t \notin DOMAIN turn
    /\ pendingCancellation' =
          IF t \in Range(terminal) THEN pendingCancellation
          ELSE Remember(pendingCancellation, t, PendingCapacity)
    /\ UNCHANGED <<responses, turn, terminal>>

\* The wait is over: by its timer, or by an abort.
TakeTurn(t) ==
    /\ child /\ t \in DOMAIN turn
    /\ LET last == IF turn[t] = "aborted" THEN <<Message("cancelled", t)>>
                   ELSE <<Message("completed", t), Message("result", t)>>
       IN  EndTask(t, {last} \cup Cut(t, last))
    /\ UNCHANGED <<coordinator, port, child, requests, pendingCancellation, history>>

\* The process dies; what it has sent may still arrive.
ChildExits ==
    /\ child
    /\ child' = FALSE
    /\ requests' = <<>>
    /\ turn' = [t \in {} |-> "waiting"]
    /\ terminal' = <<>> /\ pendingCancellation' = <<>>
    /\ UNCHANGED <<coordinator, port, responses, history>>

-----------------------------------------------------------------------------

Init ==
    /\ active = {} /\ issued = <<>> /\ cancellationRequested = {} /\ disposed = FALSE
    /\ port = TRUE /\ child = TRUE
    /\ requests = <<>> /\ responses = <<>>
    /\ turn = [t \in {} |-> "waiting"]
    /\ terminal = <<>> /\ pendingCancellation = <<>>
    /\ published = [t \in Tasks |-> <<>>] /\ posted = {}

WorkerReceives(t) == ReceiveStart(t) \/ AbortTurn(t) \/ ReceiveLateCancel(t)

Next ==
    \/ \E t \in Tasks : Start(t) \/ Cancel(t) \/ WorkerReceives(t) \/ TakeTurn(t)
    \/ ReceiveResponse \/ Disconnect \/ Dispose \/ ChildExits

\* Both event loops deliver what is queued, a timer fires, and the exit of the process is
\* reported.  Nobody has to start, cancel, dispose or exit.
Fairness ==
    /\ WF_vars(ReceiveResponse)
    /\ WF_vars(\E t \in Tasks : WorkerReceives(t))
    /\ \A t \in Tasks : WF_vars(TakeTurn(t))
    /\ WF_vars(~child /\ Disconnect)

Spec == Init /\ [][Next]_vars /\ Fairness

-----------------------------------------------------------------------------
(* Properties *)

\* Every variable has its type, what is remembered keeps within its capacity (the tests:
\* "bounds issued IDs while retaining a recent duplicate start", "keeps terminal and
\* pending-cancellation retention bounded"), and nothing is active without the port.
TypeOK ==
    /\ active \subseteq Tasks /\ cancellationRequested \subseteq active
    /\ issued \in Seq(Tasks) /\ Len(issued) <= IssuedCapacity
    /\ {disposed, port, child} \subseteq BOOLEAN
    /\ requests \in Seq(Request) /\ responses \in Seq(Response)
    /\ DOMAIN turn \subseteq Tasks /\ Range(turn) \subseteq {"waiting", "aborted"}
    /\ terminal \in Seq(Tasks) /\ Len(terminal) <= TerminalCapacity
    /\ pendingCancellation \in Seq(Tasks) /\ Len(pendingCancellation) <= PendingCapacity
    /\ published \in [Tasks -> Seq({"running", "completed", "cancelled"})]
    /\ posted \subseteq Tasks
    /\ disposed \/ ~port => active = {}

InFlight(t) == \E i \in DOMAIN responses : responses[i].task = t /\ responses[i].type \in Ends

\* A task the coordinator keeps, with a worker that lives, is under way: its start is to be
\* received, it waits for its turn, or its last message is to come.  None is forgotten by
\* both sides, whatever ids were evicted and whichever sends throw, but for a third in a row:
\* nothing is sent then (task-runtime.ts:173), and ThrownSends leaves that out.
NoTaskStranded ==
    child => \A t \in active :
        Message("start", t) \in Range(requests) \/ t \in DOMAIN turn \/ InFlight(t)

\* The last message of a task is its last, and there is one: none is sent while the task
\* still waits, and nothing of it follows.
OneTerminal ==
    \A i \in DOMAIN responses :
        responses[i].type \in Ends =>
            /\ responses[i].task \notin DOMAIN turn
            /\ \A j \in DOMAIN responses : j > i => responses[j].task # responses[i].task

\* Evicting ids is safe: when a start arrives, the worker has no task, no end and no
\* left-over cancellation of that id, though it remembers cancellations that came too
\* late for tasks whose ends were evicted.
StartsAreNew ==
    \A t \in Tasks : Message("start", t) \in Range(requests) =>
        /\ ~Known(t) /\ t \notin Range(pendingCancellation)
        /\ \E i \in DOMAIN requests :
              /\ requests[i] = Message("start", t)
              /\ \A j \in DOMAIN requests : j # i => j > i \/ requests[j].task # t

Life == INSTANCE TaskLife WITH
    open <- active, begun <- posted, asked <- cancellationRequested,
    seen <- published, stopped <- disposed

\* The protocol implements TaskLife: what is shown of a task is a legal story of it, and
\* every task that was started leaves the coordinator in the end.
TasksImplementLife == Life!Spec

=============================================================================
