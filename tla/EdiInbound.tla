----------------------------- MODULE EdiInbound -----------------------------
(***************************************************************************)
(* Inbound EDI (app/modules/edi): a delivery is one POST /edi/rest/receive *)
(* that turns a partner's document into a Customer PO.  The handler        *)
(* (receive_rest_payload.py) is a chain of database transactions: each     *)
(* step of the message tracker (tracker.py) commits on its own, and so     *)
(* does the creation of the PO.  A partner that got no answer delivers the *)
(* document again, under the same external message id.                     *)
(*                                                                         *)
(* Row-level security hides every row from a transaction that is not bound *)
(* to its tenant.  The binding is transaction-local: commit and rollback   *)
(* both end it, and the tracker's unit of work renews it after commit.     *)
(***************************************************************************)
EXTENDS Sequences, FiniteSets, Integers

CONSTANTS
    Deliveries,    \* deliveries; one also names the message and the PO it creates
    Senders,       \* trading partners
    ExtIds,        \* values of the optional X-External-Message-ID header
    NoExt,         \* a delivery without that header
    Documents,     \* the documents, by sender and header, that each delivery may carry
    None,          \* no related entity
    MaxFaults      \* bound: crashes, lost connections and unexpected exceptions

ASSUME NamesAssumption == NoExt \notin ExtIds /\ None \notin Deliveries
ASSUME DocumentsAssumption ==
    Documents \in [Deliveries -> SUBSET [sender : Senders, ext : ExtIds \cup {NoExt}]]
ASSUME MaxFaultsAssumption == MaxFaults \in Nat

VARIABLES
    messages,      \* edi_messages: the row that each delivery has created
    timeline,      \* edi_message_events of each message, in commit order
    pos,           \* committed Customer POs, by the delivery that created them
    delivery,      \* the handlers
    faults         \* faults so far

vars == <<messages, timeline, pos, delivery, faults>>

-----------------------------------------------------------------------------
\* Data.

Statuses == {"RECEIVED", "VALIDATING", "VALIDATED", "PROCESSING", "COMPLETED",
             "VALIDATION_FAILED", "FAILED"}

Final == {"COMPLETED", "VALIDATION_FAILED", "FAILED"}

EventTypes == {"RECEIVED", "VALIDATION_STARTED", "VALIDATION_PASSED", "VALIDATION_FAILED",
               "PROCESSING_STARTED", "RELATED_ENTITY_CREATED", "COMPLETED", "FAILED",
               "DUPLICATE_DETECTED"}

Message == [status : Statuses \cup {"NONE"}, entity : Deliveries \cup {None}]
NoMessage == [status |-> "NONE", entity |-> None]

Event == [type : EventTypes, from : Statuses \cup {"NONE"}, to : Statuses \cup {"NONE"}]

\* A handler: how far it is, the document's identity, whether its transaction is bound to
\* the tenant, the message it works on as it holds it in memory, and its answer.
Stages == {"new", "finding", "inserting", "refinding", "duplicate", "received", "validating",
           "validated", "processing", "created", "linked", "failing", "done"}
Answers == {"none", "receipt", "conflict", "invalid", "failed", "unhandled", "lost"}

Handler == [pc : Stages, sender : Senders, ext : ExtIds \cup {NoExt}, bound : BOOLEAN,
            about : Deliveries, memory : Message, answer : Answers]

Init ==
    /\ messages = [d \in Deliveries |-> NoMessage]
    /\ timeline = [d \in Deliveries |-> <<>>]
    /\ pos = {}
    /\ delivery \in [Deliveries ->
          [pc : {"new"}, sender : Senders, ext : ExtIds \cup {NoExt}, bound : {FALSE},
           about : Deliveries, memory : {NoMessage}, answer : {"none"}]]
    /\ \A d \in Deliveries :
          /\ delivery[d].about = d
          /\ [sender |-> delivery[d].sender, ext |-> delivery[d].ext] \in Documents[d]
    /\ faults = 0

Exists(m) == messages[m].status # "NONE"

\* The message that holds an external id (uq_edi_messages_external_identity): the index
\* has the tenant, the direction and the external id, not the sender.
Holders(ext) == {m \in Deliveries : Exists(m) /\ delivery[m].ext = ext /\ ext # NoExt}

\* The rows a transaction may see.
Visible(rows, bound) == IF bound THEN rows ELSE {}

Goto(d, pc, bound) == delivery' = [delivery EXCEPT ![d].pc = pc, ![d].bound = bound]

Answer(d, answer) ==
    delivery' = [delivery EXCEPT ![d].pc = "done", ![d].bound = FALSE, ![d].answer = answer]

-----------------------------------------------------------------------------
\* create_received: look the external id up, then insert, then look again.

\* The request arrives; the tracker binds its transaction.
Receive(d) ==
    /\ delivery[d].pc = "new"
    /\ Goto(d, IF delivery[d].ext = NoExt THEN "inserting" ELSE "finding", TRUE)
    /\ UNCHANGED <<messages, timeline, pos, faults>>

Found(d) == Visible(Holders(delivery[d].ext), delivery[d].bound)

FindDuplicate(d) ==
    /\ delivery[d].pc \in {"finding", "refinding"}
    /\ \E m \in Found(d) :
          delivery' = [delivery EXCEPT ![d].pc = "duplicate", ![d].about = m,
                                       ![d].memory = messages[m]]
    /\ UNCHANGED <<messages, timeline, pos, faults>>

FindNothing(d) ==
    /\ delivery[d].pc = "finding"
    /\ Found(d) = {}
    /\ Goto(d, "inserting", TRUE)
    /\ UNCHANGED <<messages, timeline, pos, faults>>

\* Mutant: the table has no unique index on the external id.
CreateMessageAnyway(d) ==
    /\ delivery[d].pc = "inserting"
    /\ messages' = [messages EXCEPT ![d] = [status |-> "RECEIVED", entity |-> None]]
    /\ timeline' = [timeline EXCEPT ![d] =
                      <<[type |-> "RECEIVED", from |-> "NONE", to |-> "RECEIVED"]>>]
    /\ delivery' = [delivery EXCEPT ![d].pc = "received", ![d].bound = TRUE,
                                    ![d].memory = [status |-> "RECEIVED", entity |-> None]]
    /\ UNCHANGED <<pos, faults>>

CreateMessage(d) ==
    /\ delivery[d].pc = "inserting"
    /\ Holders(delivery[d].ext) = {}
    /\ messages' = [messages EXCEPT ![d] = [status |-> "RECEIVED", entity |-> None]]
    /\ timeline' = [timeline EXCEPT ![d] =
                      <<[type |-> "RECEIVED", from |-> "NONE", to |-> "RECEIVED"]>>]
    /\ delivery' = [delivery EXCEPT ![d].pc = "received", ![d].bound = TRUE,
                                    ![d].memory = [status |-> "RECEIVED", entity |-> None]]
    /\ UNCHANGED <<pos, faults>>

\* IntegrityError: the rollback ends the binding, and nothing renews it before the second
\* look-up.
MessageCollides(d) ==
    /\ delivery[d].pc = "inserting"
    /\ Holders(delivery[d].ext) # {}
    /\ Goto(d, "refinding", FALSE)
    /\ UNCHANGED <<messages, timeline, pos, faults>>

\* Mutant: the handler retries the insert.
RetryInsert(d) ==
    /\ delivery[d].pc = "refinding"
    /\ Found(d) = {}
    /\ Goto(d, "inserting", TRUE)
    /\ UNCHANGED <<messages, timeline, pos, faults>>

\* The second look-up finds no row either: the IntegrityError is raised again.
FindNothingAgain(d) ==
    /\ delivery[d].pc = "refinding"
    /\ Found(d) = {}
    /\ Answer(d, "unhandled")
    /\ UNCHANGED <<messages, timeline, pos, faults>>

\* Mutant: a duplicate of an unlinked message starts that message again.
DuplicateRestarts(d) ==
    /\ delivery[d].pc = "duplicate"
    /\ messages' = [messages EXCEPT ![delivery[d].about].status = "RECEIVED"]
    /\ Answer(d, IF delivery[d].memory.entity = None THEN "conflict" ELSE "receipt")
    /\ UNCHANGED <<timeline, pos, faults>>

\* A duplicate leaves an event on the original message, and is answered with what was
\* read of it: the PO it is linked to, or a conflict.
DuplicateEvent(d) ==
    LET original == delivery[d].memory IN
    /\ delivery[d].pc = "duplicate"
    /\ timeline' = [timeline EXCEPT ![delivery[d].about] =
                      Append(@, [type |-> "DUPLICATE_DETECTED", from |-> original.status,
                                 to |-> original.status])]
    /\ Answer(d, IF original.entity = None THEN "conflict" ELSE "receipt")
    /\ UNCHANGED <<messages, pos, faults>>

-----------------------------------------------------------------------------
\* The tracker's steps: update_message writes the in-memory message over the row, with an
\* event, and commits.  A row that is not visible is silently left as it is.

Persist(d, bound, type, from, message) ==
    IF d \in Visible({m \in Deliveries : Exists(m)}, bound)
    THEN /\ messages' = [messages EXCEPT ![d] = message]
         /\ timeline' = [timeline EXCEPT ![d] =
                           Append(@, [type |-> type, from |-> from, to |-> message.status])]
    ELSE UNCHANGED <<messages, timeline>>

\* _transition: every step binds before it reads, and commit binds again.
Transition(d, status, type, pc, answer) ==
    LET message == [delivery[d].memory EXCEPT !.status = status] IN
    /\ Persist(d, TRUE, type, delivery[d].memory.status, message)
    /\ delivery' = [delivery EXCEPT ![d].pc = pc, ![d].bound = (pc # "done"),
                                    ![d].memory = message, ![d].answer = answer]
    /\ UNCHANGED <<pos, faults>>

StartValidation(d) ==
    /\ delivery[d].pc = "received"
    /\ Transition(d, "VALIDATING", "VALIDATION_STARTED", "validating", "none")

\* Mutant: the handler keeps the message as it was before the step.
ValidationPassedForgotten(d) ==
    /\ delivery[d].pc = "validating"
    /\ Persist(d, TRUE, "VALIDATION_PASSED", "VALIDATING",
               [delivery[d].memory EXCEPT !.status = "VALIDATED"])
    /\ Goto(d, "validated", TRUE)
    /\ UNCHANGED <<pos, faults>>

ValidationPassed(d) ==
    /\ delivery[d].pc = "validating"
    /\ Transition(d, "VALIDATED", "VALIDATION_PASSED", "validated", "none")

\* Mutant: the failure is raised without being recorded.
ValidationFailedUnrecorded(d) ==
    /\ delivery[d].pc = "validating"
    /\ Answer(d, "invalid")
    /\ UNCHANGED <<messages, timeline, pos, faults>>

\* Document type, line numbers, customer or currency: ValidationFailure.
ValidationFailed(d) ==
    /\ delivery[d].pc = "validating"
    /\ Transition(d, "VALIDATION_FAILED", "VALIDATION_FAILED", "done", "invalid")

StartProcessing(d) ==
    /\ delivery[d].pc = "validated"
    /\ Transition(d, "PROCESSING", "PROCESSING_STARTED", "processing", "none")

\* CustomerPoUseCases.create in a transaction of its own.  Its index
\* (uq_customer_pos_edi_external_message) has the sender.
PoTaken(d) ==
    \E p \in pos : /\ delivery[p].ext = delivery[d].ext /\ delivery[d].ext # NoExt
                   /\ delivery[p].sender = delivery[d].sender

\* Mutant: create returns without its commit.
CreatePoUncommitted(d) ==
    /\ delivery[d].pc = "processing"
    /\ ~PoTaken(d)
    /\ Goto(d, "created", FALSE)
    /\ UNCHANGED <<messages, timeline, pos, faults>>

CreatePo(d) ==
    /\ delivery[d].pc = "processing"
    /\ ~PoTaken(d)
    /\ pos' = pos \cup {d}
    /\ Goto(d, "created", FALSE)
    /\ UNCHANGED <<messages, timeline, faults>>

\* create raises: a duplicate, a missing permission or owner, any other exception.  It has
\* rolled back, and the handler goes on to record the failure.
PoRefused(d) ==
    /\ delivery[d].pc = "processing"
    /\ Goto(d, "failing", FALSE)
    /\ UNCHANGED <<messages, timeline, pos, faults>>

\* The connection is lost under the commit of create: the PO is there, and create raises.
PoUnacknowledged(d) ==
    /\ delivery[d].pc = "processing"
    /\ ~PoTaken(d)
    /\ faults < MaxFaults
    /\ faults' = faults + 1
    /\ pos' = pos \cup {d}
    /\ Goto(d, "failing", FALSE)
    /\ UNCHANGED <<messages, timeline>>

\* failed: rollback, bind, read the message again.
MarkFailed(d) ==
    /\ delivery[d].pc = "failing"
    /\ Transition(d, "FAILED", "FAILED", "done", "failed")

\* Mutant: the handler goes on with the message it had before the link.
LinkForgotten(d) ==
    /\ delivery[d].pc = "created"
    /\ Persist(d, TRUE, "RELATED_ENTITY_CREATED", "PROCESSING",
               [delivery[d].memory EXCEPT !.entity = d])
    /\ Goto(d, "linked", TRUE)
    /\ UNCHANGED <<pos, faults>>

\* link_related_entity keeps the status.
Link(d) ==
    LET message == [delivery[d].memory EXCEPT !.entity = d] IN
    /\ delivery[d].pc = "created"
    /\ Persist(d, TRUE, "RELATED_ENTITY_CREATED", message.status, message)
    /\ delivery' = [delivery EXCEPT ![d].pc = "linked", ![d].bound = TRUE,
                                    ![d].memory = message]
    /\ UNCHANGED <<pos, faults>>

Complete(d) ==
    /\ delivery[d].pc = "linked"
    /\ Transition(d, "COMPLETED", "COMPLETED", "done", "receipt")

\* A crash, or an exception that no handler catches, before or after any commit.
Fail(d) ==
    /\ delivery[d].pc \notin {"new", "done"}
    /\ faults < MaxFaults
    /\ faults' = faults + 1
    /\ Answer(d, "lost")
    /\ UNCHANGED <<messages, timeline, pos>>

\* What the event loop runs of a handler.
Step(d) ==
    \/ FindDuplicate(d)
    \/ FindNothing(d)
    \/ CreateMessage(d)
    \/ MessageCollides(d)
    \/ FindNothingAgain(d)
    \/ DuplicateEvent(d)
    \/ StartValidation(d)
    \/ ValidationPassed(d)
    \/ ValidationFailed(d)
    \/ StartProcessing(d)
    \/ CreatePo(d)
    \/ PoRefused(d)
    \/ MarkFailed(d)
    \/ Link(d)
    \/ Complete(d)

Next == \E d \in Deliveries : Receive(d) \/ Step(d) \/ PoUnacknowledged(d) \/ Fail(d)

Spec == Init /\ [][Next]_vars

\* A handler that has started goes on: nothing in it waits for another request.
FairSpec == Spec /\ \A d \in Deliveries : WF_vars(Step(d))

-----------------------------------------------------------------------------
\* Properties.

\* Every variable holds what the schema of its table, or the handler, lets it hold.
TypeOK ==
    /\ messages \in [Deliveries -> Message]
    /\ timeline \in [Deliveries -> Seq(Event)]
    /\ pos \subseteq Deliveries
    /\ delivery \in [Deliveries -> Handler]
    /\ faults \in 0..MaxFaults

\* The events of a message that are its own, not the marks that duplicates leave on it.
Own(events) == {i \in 1..Len(events) : events[i].type # "DUPLICATE_DETECTED"}

Explain(events, message) ==
    LET own == Own(events) IN
    /\ message.status # "NONE" <=> own # {}
    /\ \A j \in own : (\A k \in own : k >= j) => events[j].from = "NONE"
    /\ \A i, j \in own :
          i < j /\ (\A k \in own : k <= i \/ k >= j) => events[j].from = events[i].to
    /\ \A i \in own : (\A k \in own : k <= i) => events[i].to = message.status
    /\ message.entity # None <=> \E i \in own : events[i].type = "RELATED_ENTITY_CREATED"

\* The timeline explains the message: apart from the marks that duplicates leave on it at
\* any moment, the first event leaves from no status, each other from the status the one
\* before it reached, the last one reached the status of the row, and the row is linked
\* exactly if an event says so.
TimelineExplainsStatus == \A m \in Deliveries : Explain(timeline[m], messages[m])

\* Idempotency: however often, and however concurrently, a document is delivered, and
\* whatever fails on the way, its external id yields one PO at most.
OneOrderPerIdentity ==
    \A p, q \in pos : delivery[p].ext = delivery[q].ext /\ delivery[p].ext # NoExt => p = q

\* A partner with a receipt can rely on it: the PO it names is committed and its message
\* leads to it, and every receipt for one external id names the same PO.
Receipt(d) == delivery[d].answer = "receipt"
Named(d) == delivery[d].memory.entity

ReceiptsAreTrue ==
    \A d \in Deliveries : Receipt(d) =>
        /\ Named(d) \in pos
        /\ \E m \in Deliveries : messages[m].entity = Named(d)
        /\ \A e \in Deliveries :
              Receipt(e) /\ delivery[e].ext = delivery[d].ext /\ delivery[d].ext # NoExt =>
                 Named(e) = Named(d)

\* A message and its PO fit: a link leads to the PO made from this very message, a
\* completed message has one, and no PO is there whose message never got to processing.
LinksFit ==
    \A m \in Deliveries :
        /\ messages[m].entity # None =>
              /\ messages[m].entity = m /\ m \in pos
              /\ messages[m].status \in {"PROCESSING", "COMPLETED"}
        /\ messages[m].status = "COMPLETED" => messages[m].entity # None
        /\ m \in pos => messages[m].status \in {"PROCESSING", "COMPLETED", "FAILED"}

\* What is settled stays: no delivery, of any partner, changes the outcome or the link of
\* a message that has come to its end.
OutcomeIsFinal ==
    [][\A m \in Deliveries :
          /\ messages[m].status \in Final => messages'[m] = messages[m]
          /\ messages[m].entity # None => messages'[m].entity = messages[m].entity]_messages

\* Every delivery is answered, or lost with its process: none waits or retries for ever.
DeliveriesEnd ==
    \A d \in Deliveries : delivery[d].pc = "finding" ~> delivery[d].pc = "done"

\* If nothing faults, every message that was received comes to an outcome.
MessagesSettle ==
    \A m \in Deliveries :
        messages[m].status = "RECEIVED" ~> (messages[m].status \in Final \/ faults > 0)

\* The tracker's answer to a duplicate is the original message: a delivery whose insert
\* was refused because the external id is taken is recognised as a duplicate
\* (test_duplicate_external_identity_reuses_message_and_appends_event).
DuplicateIsRecognised == \A d \in Deliveries : delivery[d].answer # "unhandled"

=============================================================================
