------------------------------ MODULE Requests ------------------------------
(***************************************************************************)
(* What the handlers of every part of the service have in common.  A slot  *)
(* is one handler between two repository calls: step names the call it     *)
(* makes next, the other fields are the locals it carries there.  The reads *)
(* a handler begins with are one step.  Nothing is locked between two      *)
(* calls, and a client that goes away has its handler dropped.             *)
(*                                                                         *)
(* An agenda is the kinds of requests and events a behaviour is about, and *)
(* whether requests may overlap in it or be dropped.                       *)
(***************************************************************************)
EXTENDS Integers, FiniteSets

CONSTANTS
  Slots,     \* the handlers that may run at the same time
  Agendas    \* the sets of requests and events to explore

VARIABLES
  agenda,      \* what may happen in this behaviour
  slot,        \* the handlers in flight
  disturbed    \* history: requests have overlapped, or one was dropped

requestVars == <<agenda, slot, disturbed>>

Idle == [step |-> "idle"]

At(s, step) == slot[s].step = step

Quiet == \A s \in Slots : At(s, "idle")

\* No two requests have run at once so far and none was dropped.
InTurn == ~disturbed

\* Whether the behaviour is about any of these.
Concerns(requests) == agenda \cap requests # {}

RequestsInit ==
  /\ agenda \in Agendas
  /\ slot = [s \in Slots |-> Idle]
  /\ disturbed = FALSE

\* A slot that may take a request.
Free(s) == At(s, "idle") /\ ("overlap" \in agenda \/ Quiet)

Begin(s, request, locals) ==
  /\ request \in agenda
  /\ slot' = [slot EXCEPT ![s] = locals]
  /\ disturbed' = (disturbed \/ \E r \in Slots \ {s} : ~At(r, "idle"))
  /\ UNCHANGED agenda

Continue(s, locals) ==
  /\ slot' = [slot EXCEPT ![s] = locals]
  /\ UNCHANGED <<agenda, disturbed>>

Finish(s) == Continue(s, Idle)

Abandon(s) ==
  /\ "client.drop" \in agenda
  /\ ~At(s, "idle")
  /\ slot' = [slot EXCEPT ![s] = Idle]
  /\ disturbed' = TRUE
  /\ UNCHANGED agenda

\* Something that takes one call, or comes from outside: it disturbs the
\* handlers that are in flight.
Happens(event) ==
  /\ event \in agenda
  /\ disturbed' = (disturbed \/ ~Quiet)
  /\ UNCHANGED <<agenda, slot>>
=============================================================================
