----------------------------- MODULE SignalFate -----------------------------
(***************************************************************************)
(* What the pipeline promises of each raw signal, and nothing of how.      *)
(*                                                                         *)
(* A signal arrives and waits; a cluster pass attaches it to one event or  *)
(* asks a reviewer about it; the reviewer attaches it, discards it or      *)
(* sends it back; new text brings a discarded signal back; deleting an     *)
(* event sends back exactly the signals attached to it.  There is no other *)
(* way from one stage to another: a signal is never dropped, attached      *)
(* twice, taken from its event, or asked about while it is attached.       *)
(* Tables.tla reads stage and home off the database rows; Pipeline.tla and *)
(* Sessions.tla implement this module.                                     *)
(***************************************************************************)
CONSTANTS Signal, Event, None

VARIABLES
    stage,   \* where each signal is
    home     \* the event an attached signal is evidence of, None otherwise

fate == <<stage, home>>

Init ==
    /\ stage = [s \in Signal |-> "absent"]
    /\ home = [s \in Signal |-> None]

Arrive(s) ==
    /\ stage[s] = "absent"
    /\ stage' = [stage EXCEPT ![s] = "waiting"]
    /\ UNCHANGED home

\* A pass takes some waiting signals: each is attached or asked about.
Take ==
    \E attached, asked \in SUBSET {s \in Signal : stage[s] = "waiting"} :
    \E target \in [attached -> Event] :
        /\ attached \cap asked = {}
        /\ stage' = [s \in Signal |-> IF s \in attached THEN "attached"
                                      ELSE IF s \in asked THEN "asked" ELSE stage[s]]
        /\ home' = [s \in Signal |-> IF s \in attached THEN target[s] ELSE home[s]]

\* The reviewer's answer, with or without an event.
Attach(s, e) ==
    /\ stage[s] = "asked"
    /\ stage' = [stage EXCEPT ![s] = "attached"]
    /\ home' = [home EXCEPT ![s] = e]

Dismiss(s) ==
    /\ stage[s] = "asked"
    /\ stage' = [stage EXCEPT ![s] = "discarded"]
    /\ UNCHANGED home

\* A reviewer wants another pass, or a discarded signal has new text.
Return(s) ==
    /\ stage[s] \in {"asked", "discarded"}
    /\ stage' = [stage EXCEPT ![s] = "waiting"]
    /\ UNCHANGED home

\* The event is deleted.
Release(e) ==
    /\ stage' = [s \in Signal |-> IF home[s] = e THEN "waiting" ELSE stage[s]]
    /\ home' = [s \in Signal |-> IF home[s] = e THEN None ELSE home[s]]

Next ==
    \/ \E s \in Signal : Arrive(s) \/ Dismiss(s) \/ Return(s)
    \/ \E s \in Signal, e \in Event : Attach(s, e)
    \/ \E e \in Event : Release(e)
    \/ Take

Spec == Init /\ [][Next]_fate
=============================================================================
