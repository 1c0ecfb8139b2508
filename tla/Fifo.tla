-------------------------------- MODULE Fifo --------------------------------
(***************************************************************************)
(* What a shared-memory ring promises its two users: a bounded first-in    *)
(* first-out queue whose operations take effect at one instant.  A push    *)
(* that reports "full" happened while the queue was full, a pop that       *)
(* reports Empty happened while it was empty, and a pop that succeeds      *)
(* returns the oldest entry, whole.                                        *)
(***************************************************************************)
EXTENDS Naturals, Sequences

CONSTANTS Entry,     \* what a slot can hold
          Capacity,  \* how many entries fit
          Empty      \* the pop result that is not an entry

VARIABLES queue,     \* the entries pushed and not yet popped
          pushRes,   \* result of the latest push: "none", "ok" or "full"
          popRes     \* result of the latest pop: an entry or Empty

fifoVars == <<queue, pushRes, popRes>>

Init ==
  /\ queue = << >>
  /\ pushRes = "none"
  /\ popRes = Empty

Put(e) ==
  /\ Len(queue) < Capacity
  /\ queue' = Append(queue, e)
  /\ pushRes' = "ok"
  /\ UNCHANGED popRes

PutFull ==
  /\ Len(queue) = Capacity
  /\ pushRes' = "full"
  /\ UNCHANGED <<queue, popRes>>

Get ==
  /\ queue # << >>
  /\ popRes' = Head(queue)
  /\ queue' = Tail(queue)
  /\ UNCHANGED pushRes

GetEmpty ==
  /\ queue = << >>
  /\ popRes' = Empty
  /\ UNCHANGED <<queue, pushRes>>

Next ==
  \/ \E e \in Entry : Put(e)
  \/ PutFull
  \/ Get
  \/ GetEmpty

Spec == Init /\ [][Next]_fifoVars
=============================================================================
