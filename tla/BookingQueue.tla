---------------------------- MODULE BookingQueue ----------------------------
(***************************************************************************)
(* The SQS FIFO queue between write-api and worker-svc, modelled from how  *)
(* the code uses it: terraform/modules/sqs/main.tf creates it with a       *)
(* visibility timeout of 90 s and maxReceiveCount 3 before the dead-letter *)
(* queue, sqs_client.py sends with a MessageGroupId and main.py receives   *)
(* up to ten messages at a time and deletes what it has handled.           *)
(* A message is named by its booking_ref: the deduplication id is the hash *)
(* of a body that contains it, so one request is one message.              *)
(***************************************************************************)
EXTENDS Naturals

CONSTANTS
    Refs,       \* booking requests, named by the booking_ref each is given
    MaxReceive  \* maxReceiveCount of the redrive policy

ASSUME QueueAssumption == MaxReceive \in Nat \ {0}

VARIABLES
    msgs,       \* messages in the queue, in flight or not
    order,      \* the SequenceNumber given to each message when it is sent
    inflight,   \* messages hidden by a visibility timeout
    receives,   \* ApproximateReceiveCount
    dlq,        \* messages moved to the dead-letter queue
    sent        \* the last SequenceNumber given

queueVars == <<msgs, order, inflight, receives, dlq, sent>>

QueueTypeOK ==
    /\ msgs \subseteq Refs
    /\ order \in [Refs -> Nat]
    /\ inflight \subseteq msgs
    /\ receives \in [Refs -> 0..MaxReceive]
    /\ dlq \subseteq Refs
    /\ sent \in Nat

QueueInit ==
    /\ msgs = {}
    /\ order = [r \in Refs |-> 0]
    /\ inflight = {}
    /\ receives = [r \in Refs |-> 0]
    /\ dlq = {}
    /\ sent = 0

Enqueue(r) ==
    /\ msgs' = msgs \cup {r}
    /\ sent' = sent + 1
    /\ order' = [order EXCEPT ![r] = sent + 1]
    /\ UNCHANGED <<inflight, receives, dlq>>

\* Mutant: no redrive policy.
Deliverable_NoRedrive(B, group) ==
    /\ B # {}
    /\ B \subseteq msgs
    /\ \A b \in B, m \in msgs : group[m] = group[b] => m \notin inflight

\* A group with a message in flight is blocked; otherwise one receive call may
\* return several of its messages, always the oldest ones. group is the function
\* from messages to their MessageGroupId.
Deliverable(B, group) ==
    /\ B # {}
    /\ B \subseteq msgs
    /\ \A a, b \in B : group[a] = group[b]
    /\ \A b \in B : receives[b] < MaxReceive
    /\ \A b \in B, m \in msgs : group[m] = group[b] =>
         /\ m \notin inflight
         /\ order[m] < order[b] => m \in B

Deliver(B) ==
    /\ inflight' = inflight \cup B
    /\ receives' = [r \in Refs |-> IF r \in B THEN receives[r] + 1 ELSE receives[r]]
    /\ UNCHANGED <<msgs, order, dlq, sent>>

\* delete_message with the receipt of the k-th delivery: only the receipt of
\* the last one is still valid.
Delete(r, k) ==
    /\ IF r \in inflight /\ receives[r] = k
         THEN msgs' = msgs \ {r} /\ inflight' = inflight \ {r}
         ELSE UNCHANGED <<msgs, inflight>>
    /\ UNCHANGED <<order, receives, dlq, sent>>

Reappear(r) ==
    /\ r \in inflight
    /\ inflight' = inflight \ {r}
    /\ UNCHANGED <<msgs, order, receives, dlq, sent>>

\* The redrive policy, when a message is about to be received once too often.
ToDlq(r) ==
    /\ r \in msgs \ inflight
    /\ receives[r] = MaxReceive
    /\ msgs' = msgs \ {r}
    /\ dlq' = dlq \cup {r}
    /\ UNCHANGED <<order, inflight, receives, sent>>
=============================================================================
