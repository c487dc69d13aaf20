------------------------------ MODULE Delivery ------------------------------
(***************************************************************************)
(* What the campaign promises for one contact of one dispatch, without     *)
(* queues, workers, documents or credentials: the message is queued once,  *)
(* and then it is either accepted by the SMTP server or given up, for      *)
(* good.  A message given up is never sent, and a message accepted is      *)
(* never given up.                                                         *)
(***************************************************************************)
CONSTANT Messages

VARIABLE fate

Fates == {"absent", "queued", "accepted", "refused"}

DeliveryInit == fate = [m \in Messages |-> "absent"]

SettleAs(B, from, to) ==
    /\ \A m \in B : fate[m] = from
    /\ fate' = [m \in Messages |-> IF m \in B THEN to ELSE fate[m]]

\* A batch is queued at once; a deletion gives up whatever is queued.
QueueBatch(B) == SettleAs(B, "absent", "queued")
AcceptOne(m)  == SettleAs({m}, "queued", "accepted")
GiveUp(B)     == SettleAs(B, "queued", "refused")

DeliveryNext ==
    \/ \E m \in Messages : AcceptOne(m)
    \/ \E B \in SUBSET Messages : QueueBatch(B) \/ GiveUp(B)

DeliverySafe == DeliveryInit /\ [][DeliveryNext]_fate

\* Whatever is queued is settled some day.
Settled(m) == AcceptOne(m) \/ \E B \in SUBSET Messages : m \in B /\ GiveUp(B)
DeliverySpec == DeliverySafe /\ \A m \in Messages : WF_fate(Settled(m))
=============================================================================
