------------------------------ MODULE TaskLife ------------------------------
(***************************************************************************)
(* What the main process promises of utility tasks, whatever happens to    *)
(* the worker process and to the messages: the user of a task sees it      *)
(* running, then completed or cancelled, each once, and cancelled only if  *)
(* the user asked; every task is let go of in the end; and after disposal  *)
(* no task begins.  TaskProtocol implements this.                          *)
(***************************************************************************)
EXTENDS Sequences

CONSTANT Tasks

VARIABLES
    open,     \* the tasks the coordinator keeps
    begun,    \* the tasks that were ever begun
    asked,    \* the open tasks whose cancellation was requested
    seen,     \* the phases published of every task
    stopped   \* the coordinator was disposed

vars == <<open, begun, asked, seen, stopped>>

\* What may be published of one task
Stories == {<<>>, <<"running">>, <<"running", "completed">>, <<"running", "cancelled">>}

Init ==
    /\ open = {} /\ begun = {} /\ asked = {}
    /\ seen = [t \in Tasks |-> <<>>]
    /\ stopped = FALSE

Begin(t) ==
    /\ ~stopped /\ t \notin begun
    /\ open' = open \cup {t} /\ begun' = begun \cup {t}
    /\ UNCHANGED <<asked, seen, stopped>>

Ask(t) ==
    /\ t \in open /\ t \notin asked
    /\ asked' = asked \cup {t}
    /\ UNCHANGED <<open, begun, seen, stopped>>

Show(t, phase) ==
    /\ t \in open
    /\ Append(seen[t], phase) \in Stories
    /\ seen' = [seen EXCEPT ![t] = Append(@, phase)]

Progress(t) ==
    /\ \E phase \in {"running", "completed"} : Show(t, phase)
    /\ UNCHANGED <<open, begun, asked, stopped>>

LetGo(t) == open' = open \ {t} /\ asked' = asked \ {t}

Cancelled(t) ==
    /\ t \in asked
    /\ Show(t, "cancelled") /\ LetGo(t)
    /\ UNCHANGED <<begun, stopped>>

\* With or without a result: a failure is not published.
End(t) ==
    /\ t \in open
    /\ LetGo(t)
    /\ UNCHANGED <<begun, seen, stopped>>

EndAll ==
    /\ open' = {} /\ asked' = {}
    /\ stopped' \in {stopped, TRUE}
    /\ UNCHANGED <<begun, seen>>

Next ==
    \/ \E t \in Tasks : Begin(t) \/ Ask(t) \/ Progress(t) \/ Cancelled(t) \/ End(t)
    \/ EndAll

Leaves(t) == Next /\ t \in open /\ t \notin open'

Spec == Init /\ [][Next]_vars /\ \A t \in Tasks : WF_vars(Leaves(t))

=============================================================================
