---------------------------- MODULE MCRingQueue -----------------------------
(* An instance of RingQueue for TLC.                                       *)
EXTENDS RingQueue

\* The cells outside the window of a ring are written before they are read.
Windows == <<[lv \in Levels |-> <<mlfq[lv].front, mlfq[lv].back, Contents(mlfq[lv])>>], result>>
=============================================================================
