------------------------------ MODULE EmailOutbox ------------------------------
(***************************************************************************)
(* The email outbox.  Messages are queued inside the caller's transaction; *)
(* senders (the mail job, the page of the outbox, a sign-in that sends its *)
(* own link) read queued rows, hand them to the mail server one by one and *)
(* record each outcome.  Nobody claims a row, so senders overlap.          *)
(***************************************************************************)
EXTENDS Naturals, Sequences, FiniteSets

CONSTANTS Messages,
          SignIns,     \* the messages that carry a sign-in link
          Senders,     \* invocations that can overlap
          MaxAttempts, \* MAX_ATTEMPTS
          Limit,       \* rows of one drain
          MaxFaults    \* bound on stops and failed updates

ASSUME OutboxAssumption == MaxAttempts \in Nat \ {0} /\ IsFiniteSet(Senders)

VARIABLES mail,     \* the EmailMessage rows
          queue,    \* messages by createdAt
          urgent,   \* messages whose sign-in request has still to send them
          batch,    \* what each sender has read and not yet recorded
          outcome,  \* what the mail server said of the first of the batch
          tries,    \* history: calls of the mail server by message
          faults

outboxVars == <<mail, queue, urgent, batch, outcome, tries, faults>>

MailInit ==
  /\ mail = [m \in Messages |-> [status |-> "NONE", attempts |-> 0, due |-> TRUE]]
  /\ queue = <<>> /\ urgent = {}
  /\ batch = [s \in Senders |-> {}]
  /\ outcome = [s \in Senders |-> "none"]
  /\ tries = [m \in Messages |-> 0]
  /\ faults = 0

QueueEmail(m) ==
  /\ mail[m].status = "NONE"
  /\ mail' = [mail EXCEPT ![m].status = "QUEUED"]
  /\ queue' = Append(queue, m)
  /\ urgent' = urgent \cup ({m} \cap SignIns)
  /\ UNCHANGED <<batch, outcome, tries, faults>>

Read(k) == [no |-> k, id |-> queue[k], attempts |-> mail[queue[k]].attempts]

(* Mutant of Due: what has failed once is not taken up again.              *)
DueOnce(m) == mail[m].status = "QUEUED" /\ mail[m].due /\ mail[m].attempts = 0
Due(m) == mail[m].status = "QUEUED" /\ mail[m].due

(* sendQueuedEmails: the oldest rows that are not in backoff.              *)
Drain(s) ==
  LET due == {k \in DOMAIN queue : Due(queue[k])}
      taken == {k \in due : Cardinality({j \in due : j <= k}) <= Limit}
  IN /\ batch[s] = {} /\ due # {}
     /\ batch' = [batch EXCEPT ![s] = {Read(k) : k \in taken}]
     /\ UNCHANGED <<mail, queue, urgent, outcome, tries, faults>>

(* sendQueuedEmail: one row, whether in backoff or not.                    *)
SendOne(s, m) ==
  /\ batch[s] = {} /\ m \in urgent
  /\ urgent' = urgent \ {m}
  /\ batch' = IF mail[m].status = "QUEUED"
                THEN [batch EXCEPT ![s] = {Read(k) : k \in {j \in DOMAIN queue : queue[j] = m}}]
                ELSE batch
  /\ UNCHANGED <<mail, queue, outcome, tries, faults>>

(* Rows are sent in the order in which they were queued.                   *)
First(s) == CHOOSE r \in batch[s] : \A o \in batch[s] : r.no <= o.no

Deliver(s) ==
  /\ batch[s] # {} /\ outcome[s] = "none"
  /\ \E result \in {"accepted", "refused"} : outcome' = [outcome EXCEPT ![s] = result]
  /\ tries' = [tries EXCEPT ![First(s).id] = @ + 1]
  /\ UNCHANGED <<mail, queue, urgent, batch, faults>>

Recorded(s) ==
  /\ batch' = [batch EXCEPT ![s] = @ \ {First(s)}]
  /\ outcome' = [outcome EXCEPT ![s] = "none"]

RecordSent(s) ==
  /\ outcome[s] = "accepted"
  /\ mail' = [mail EXCEPT ![First(s).id] =
                [status |-> "SENT", attempts |-> @.attempts + 1, due |-> TRUE]]
  /\ Recorded(s)
  /\ UNCHANGED <<queue, urgent, tries, faults>>

(* Mutant of StatusAfter: one attempt too many, for ever.                  *)
StatusByRow(attempts) == IF attempts = MaxAttempts + 1 THEN "FAILED" ELSE "QUEUED"
(* The outcome is computed from the attempts that were read with the row.  *)
StatusAfter(attempts) == IF attempts >= MaxAttempts THEN "FAILED" ELSE "QUEUED"
Failed(s) ==
  LET attempts == First(s).attempts + 1
  IN /\ mail' = [mail EXCEPT ![First(s).id] =
                   [status |-> StatusAfter(attempts), attempts |-> @.attempts + 1,
                    due |-> attempts >= MaxAttempts]]
     /\ Recorded(s)
     /\ UNCHANGED <<queue, urgent, tries>>

RecordFailure(s) == outcome[s] = "refused" /\ Failed(s) /\ UNCHANGED faults

(* The message left, but the update that says so fails: deliver's handler  *)
(* takes it for a failed send.                                             *)
MistakeForFailure(s) ==
  /\ outcome[s] = "accepted" /\ faults < MaxFaults
  /\ faults' = faults + 1
  /\ Failed(s)

(* The process stops between a read and its record.                        *)
StopSender(s) ==
  /\ batch[s] # {} /\ faults < MaxFaults
  /\ faults' = faults + 1
  /\ batch' = [batch EXCEPT ![s] = {}]
  /\ outcome' = [outcome EXCEPT ![s] = "none"]
  /\ UNCHANGED <<mail, queue, urgent, tries>>

BackoffEnds(m) ==
  /\ ~mail[m].due
  /\ mail' = [mail EXCEPT ![m].due = TRUE]
  /\ UNCHANGED <<queue, urgent, batch, outcome, tries, faults>>

Send(s) == Drain(s) \/ Deliver(s) \/ RecordSent(s) \/ RecordFailure(s)

MailNext ==
  \/ \E m \in Messages : QueueEmail(m)
  \/ \E s \in Senders : Send(s) \/ MistakeForFailure(s) \/ StopSender(s)
  \/ \E s \in Senders, m \in Messages : SendOne(s, m)
  \/ \E m \in Messages : BackoffEnds(m)

(* The mail job is called again and again, and backoffs run out.           *)
MailFairness ==
  /\ \A s \in Senders : WF_outboxVars(Send(s))
  /\ \A m \in Messages : WF_outboxVars(BackoffEnds(m))

MailSpec == MailInit /\ [][MailNext]_outboxVars /\ MailFairness

(* A broken address stays off the hot path (deliver).  The mail server is  *)
(* called MAX_ATTEMPTS times, and once more for each two senders that read *)
(* the same row beside each other and for each fault; and no message is    *)
(* given up before that many attempts.                                     *)
TriesAreBounded ==
  \A m \in Messages :
    /\ tries[m] < MaxAttempts + Cardinality(Senders) * Cardinality(Senders) + faults
    /\ mail[m].status = "FAILED" => tries[m] >= MaxAttempts

(* Every queued message is sent or given up in the end, for good.          *)
MailSettles ==
  \A m \in Messages :
    mail[m].status = "QUEUED" ~> [](mail[m].status \in {"SENT", "FAILED"})
================================================================================
