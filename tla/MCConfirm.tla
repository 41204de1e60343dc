----------------------------- MODULE MCConfirm ------------------------------
(* Confirm with one pass and one reviewer.                                  *)
EXTENDS Confirm

CONSTANTS e1, pass, r1

OneEvent == {e1}
MCReviewer == {r1}

\* A social post and a ticketed listing (adapters.py:569, :365).
PostOrTicket == {450, 900}

\* A listing with exact coordinates and start time, confirmed on its own.
Exact == {<<90, 90>>}
Nothing == {}

\* A venue nobody has located, no start time: both may come with a signal.
Unlocated == {50}
Undated == {20}

Located == {90}
Dated == {90}
=============================================================================
