-------------------------- MODULE RequestResponse --------------------------
(***************************************************************************)
(* What C2SHttpClient::send() and the server promise together: a request   *)
(* that is sent is handled at most once, and what send() returns is taken  *)
(* from the reply to it, with its entity as a whole or without one.        *)
(***************************************************************************)
CONSTANTS Requests,   \* what can be sent
          Replies     \* what the server can reply: records with status and entity

Nothing == [kind |-> "none", status |-> 0, entity |-> <<>>]
Threw == [kind |-> "threw", status |-> 0, entity |-> <<>>]
Returned(status, entity) == [kind |-> "returned", status |-> status, entity |-> entity]

VARIABLES request,   \* the last request sent
          sending,   \* whether its send() has not returned
          reply,     \* the reply to it, or NoReply while it is not handled
          outcome    \* how its send() ended, or Nothing

vars == <<request, sending, reply, outcome>>

NoRequest == <<>>
NoReply == [status |-> 500, entity |-> <<>>, handled |-> FALSE]
Handled(r) == [status |-> r.status, entity |-> r.entity, handled |-> TRUE]

Init == request = NoRequest /\ ~sending /\ reply = NoReply /\ outcome = Nothing

Send ==
  /\ ~sending
  /\ request' \in Requests
  /\ sending' /\ reply' = NoReply /\ outcome' = Nothing

(* It may come late: the client may be gone. *)
Handle ==
  /\ request # NoRequest /\ ~reply.handled
  /\ \E r \in Replies : reply' = Handled(r)
  /\ UNCHANGED <<request, sending, outcome>>

Return ==
  /\ sending /\ ~sending'
  /\ \E status \in {reply.status, 500}, entity \in {reply.entity, <<>>} :
       outcome' = Returned(status, entity)
  /\ UNCHANGED <<request, reply>>

Fail ==
  /\ sending \/ outcome = Nothing
  /\ ~sending' /\ outcome' = Threw
  /\ UNCHANGED <<request, reply>>

Next == Send \/ Handle \/ Return \/ Fail

Spec == Init /\ [][Next]_vars

=============================================================================
