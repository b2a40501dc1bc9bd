----------------------------- MODULE ByteStream -----------------------------
(***************************************************************************)
(* What a pipe promises to the programs at its ends: the bytes that were   *)
(* written and not yet read, in order and at most Capacity of them; after  *)
(* the last writer has gone nothing is added, and when both ends are gone  *)
(* what was left is forgotten.                                             *)
(***************************************************************************)
EXTENDS Naturals, Sequences

CONSTANTS Pipes, Byte, Capacity

VARIABLE stream   \* per pipe: the ends that are open, and what is on the way

Closed == [ends |-> {}, unread |-> <<>>]

Init == stream = [g \in Pipes |-> Closed]

Open(g) ==
  /\ stream[g] = Closed
  /\ stream' = [stream EXCEPT ![g] = [ends |-> {"read", "write"}, unread |-> <<>>]]

Write(g) ==
  /\ "write" \in stream[g].ends
  /\ \E n \in 1..(Capacity - Len(stream[g].unread)) : \E s \in [1..n -> Byte] :
       stream' = [stream EXCEPT ![g].unread = @ \o s]

Read(g) ==
  /\ "read" \in stream[g].ends
  /\ \E n \in 1..Len(stream[g].unread) :
       stream' = [stream EXCEPT ![g].unread = SubSeq(@, n + 1, Len(@))]

Close(g, end) ==
  /\ end \in stream[g].ends
  /\ stream' = [stream EXCEPT ![g] =
       IF @.ends = {end} THEN Closed ELSE [@ EXCEPT !.ends = stream[g].ends \ {end}]]

Next == \E g \in Pipes :
  \/ Open(g) \/ Write(g) \/ Read(g)
  \/ \E end \in {"read", "write"} : Close(g, end)

Spec == Init /\ [][Next]_stream
=============================================================================
