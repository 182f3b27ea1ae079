--------------------------- MODULE CommandService ---------------------------
(***************************************************************************)
(* What the outgoing queue of ge-rs232.c promises the code that uses it:   *)
(* a message accepted by ge_queue_message() waits in line, messages leave  *)
(* the line in the order they entered it, and the one that leaves has its  *)
(* finished() callback called, once, with the status of its last attempt.  *)
(***************************************************************************)
EXTENDS Sequences

CONSTANTS
  Requests,   \* identities of the messages handed to ge_queue_message()
  Watched     \* the ones queued with a finished() callback

VARIABLES
  submitted,  \* requests handed to the service so far
  pending,    \* requests in line, oldest first
  result      \* status each watched request was told, "none" before that

vars == <<submitted, pending, result>>

Statuses == {"OK", "NAK", "TIMEOUT"}

TypeOK ==
  /\ submitted \subseteq Requests
  /\ pending \in Seq(Requests)
  /\ result \in [Requests -> Statuses \union {"none"}]

Init ==
  /\ submitted = {}
  /\ pending = <<>>
  /\ result = [r \in Requests |-> "none"]

\* The status of the oldest request becomes known.
Tell(status) ==
  LET r == Head(pending)
  IN result' = IF r \in Watched THEN [result EXCEPT ![r] = status] ELSE result

Submit(r) ==
  /\ r \notin submitted
  /\ submitted' = submitted \union {r}
  /\ pending' = Append(pending, r)
  /\ UNCHANGED result

Complete(status) ==
  /\ pending # <<>>
  /\ pending' = Tail(pending)
  /\ Tell(status)
  /\ UNCHANGED submitted

\* ge_queue_message() ends with a ge_queue_update(), which may notice that the
\* oldest request has run out of attempts: one call does both.
SubmitAndComplete(r, status) ==
  /\ r \notin submitted
  /\ pending # <<>>
  /\ submitted' = submitted \union {r}
  /\ pending' = Append(Tail(pending), r)
  /\ Tell(status)

Next ==
  \/ \E r \in Requests : Submit(r)
  \/ \E status \in Statuses : Complete(status)
  \/ \E r \in Requests, status \in Statuses : SubmitAndComplete(r, status)

Spec == Init /\ [][Next]_vars
=============================================================================
