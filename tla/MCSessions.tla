----------------------------- MODULE MCSessions -----------------------------
(* Sessions on small instances: who shares a process and who asks for what. *)
EXTENDS Sessions, TLC

CONSTANTS e1, e2, p1, p2, w1, w2, w3

MCSignals == 1 .. 2
MCEvents == {e1, e2}
MCItems == 1 .. 2
OneSignal == 1 .. 1
OneEvent == {e1}
OneItem == 1 .. 1
MCLimit == {1, 2}
MCProcess == {p1, p2}
MCSession == {w1, w2, w3}

\* Two threads share a process, the third is a replica.
MCProcessOf == w1 :> p1 @@ w2 :> p1 @@ w3 :> p2

\* Passes from three threads; a reviewer; ingests of two processes; administrators.
Everything ==
    w1 :> {"cluster", "resolve"} @@ w2 :> {"cluster", "ingest", "delete"}
    @@ w3 :> {"cluster", "ingest"}

\* Two reviewers, besides passes and the source feed.
TwoReviewers == w1 :> {"resolve"} @@ w2 :> {"resolve"} @@ w3 :> {"cluster", "ingest"}

\* A reviewer and an administrator in one process, the source feed in another.
WithUpdates ==
    w1 :> {"resolve"} @@ w2 :> {"delete", "ingest"} @@ w3 :> {"cluster"}

\* Passes, an administrator and the source feed; nobody reviews.
DeletesAndTexts ==
    w1 :> {"cluster"} @@ w2 :> {"delete"} @@ w3 :> {"cluster", "ingest"}
=============================================================================
