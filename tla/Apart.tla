-------------------------------- MODULE Apart -------------------------------
(***************************************************************************)
(* Sessions of every kind side by side, as long as these requests do not   *)
(* overlap: two answers to one item, two deletions of one event, a deletion*)
(* of an event and an item of a source that is stored; and as long as, in  *)
(* one behaviour, either reviewers answer or texts change.                 *)
(*                                                                         *)
(* The code enforces none of this.  It is the weakest discipline of its    *)
(* callers we know under which the sessions keep what Pipeline promises;   *)
(* what happens without it is the subject of MCTwoReviewers.cfg and        *)
(* MCLostSignal.cfg, and with Kinds <- DeletesAndTexts in the latter, of a *)
(* signal lost without a reviewer.                                         *)
(***************************************************************************)
EXTENDS Sessions

VARIABLE edited  \* do texts change, or do reviewers answer?

apartVars == <<vars, edited>>

Ingesting == {"inserting", "checking", "updating"}

\* Without edits one session inserts at a time: the loser of an insert race edits.
KeptApart ==
    /\ \A v, w \in Session : v # w =>
          /\ pc[v] = "resolving" /\ pc[w] = "resolving" => loaded[v].items # loaded[w].items
          /\ pc[v] = "deleting" /\ pc[w] = "deleting" => loaded[v].event # loaded[w].event
    /\ edited => \A v, w \in Session :
                    /\ pc[w] # "resolving"
                    /\ ~ (pc[v] = "deleting" /\ pc[w] \in Ingesting)
    /\ ~ edited => \A v, w \in Session :
                      /\ pc[w] # "checking"
                      /\ pc[v] = "inserting" /\ pc[w] = "inserting" => v = w

ApartInit == Init /\ edited \in BOOLEAN

ApartNext == Next /\ UNCHANGED edited /\ KeptApart'

\* Threads keep running and need not fail.  PostgreSQL queues the waiters of an
\* advisory lock, so none waits for ever while it keeps being released;
\* threading.Lock promises no order and gets weak fairness only.  (What KeptApart
\* forbids is the start of requests, never a step of Proceed.)
ApartSpec ==
    /\ ApartInit
    /\ [][ApartNext]_apartVars
    /\ \A w \in Session : /\ WF_apartVars(Proceed(w) /\ UNCHANGED edited)
                          /\ SF_apartVars(TakeAdvisory(w) /\ UNCHANGED edited)
=============================================================================
