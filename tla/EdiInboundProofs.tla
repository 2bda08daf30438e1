-------------------------- MODULE EdiInboundProofs --------------------------
(***************************************************************************)
(* What EdiInbound guarantees for any number of deliveries and partners,   *)
(* whatever the documents carry, and for any number of faults.             *)
(***************************************************************************)
EXTENDS EdiInbound, TLAPS

\* The stages at which a handler works on a message of its own, and the status that its
\* message has there.
StatusAt == [received |-> "RECEIVED", validating |-> "VALIDATING", validated |-> "VALIDATED",
             processing |-> "PROCESSING", created |-> "PROCESSING", linked |-> "PROCESSING",
             failing |-> "PROCESSING"]
Working == {"received", "validating", "validated", "processing", "created", "linked",
            "failing"}
Before == {"new", "finding", "inserting", "refinding"}

\* Nobody but its handler writes a message, so that the handler's copy is the row.
OwnMessage(d) ==
    /\ delivery[d].pc \in Before => messages[d] = NoMessage /\ d \notin pos
    /\ delivery[d].pc \in Working =>
          /\ delivery[d].memory = messages[d]
          /\ messages[d].status = StatusAt[delivery[d].pc]
          /\ messages[d].entity = IF delivery[d].pc = "linked" THEN d ELSE None
    /\ delivery[d].pc \in {"received", "validating", "validated", "processing"} => d \notin pos
    /\ delivery[d].pc \in {"created", "linked"} => d \in pos

\* What a duplicate has read of the original message stays true.
ReadsOriginal(d) ==
    delivery[d].pc = "duplicate" =>
        /\ delivery[delivery[d].about].ext = delivery[d].ext
        /\ delivery[d].memory.entity # None =>
              /\ delivery[d].memory.entity = delivery[d].about
              /\ messages[delivery[d].about].entity = delivery[d].about

\* The PO that a receipt names is linked to the message of its own delivery, which came
\* under the same external id.
ReceiptLeads(d) ==
    /\ delivery[d].pc # "done" => delivery[d].answer = "none"
    /\ Receipt(d) =>
          /\ Named(d) \in Deliveries
          /\ messages[Named(d)].entity = Named(d)
          /\ delivery[Named(d)].ext = delivery[d].ext

\* LinksFit, of one message.
LinkFits(m) ==
    /\ messages[m].entity # None =>
          /\ messages[m].entity = m /\ m \in pos
          /\ messages[m].status \in {"PROCESSING", "COMPLETED"}
    /\ messages[m].status = "COMPLETED" => messages[m].entity # None
    /\ m \in pos => messages[m].status \in {"PROCESSING", "COMPLETED", "FAILED"}

Fits(d) == OwnMessage(d) /\ ReadsOriginal(d) /\ ReceiptLeads(d) /\ LinkFits(d)

\* The unique index.
IdentitiesAreUnique ==
    \A m, n \in Deliveries :
        /\ Exists(m) /\ Exists(n)
        /\ delivery[m].ext = delivery[n].ext /\ delivery[m].ext # NoExt
        => m = n

Inv ==
    /\ TypeOK
    /\ IdentitiesAreUnique
    /\ \A d \in Deliveries : Fits(d)

-----------------------------------------------------------------------------
\* The shape of a step.

\* What every step of d's handler leaves alone: the other handlers and their messages, the
\* identity of its document, and what its message has reached.
Moves(d) ==
    /\ \A k \in Deliveries \ {d} :
          delivery'[k] = delivery[k] /\ messages'[k] = messages[k]
    /\ delivery'[d].ext = delivery[d].ext
    /\ messages[d].entity # None => messages'[d].entity = messages[d].entity
    /\ pos \subseteq pos' /\ pos' \subseteq pos \cup {d}

\* A step that keeps its handler's part of the invariant keeps the others'.
LEMMA OthersFit ==
    ASSUME Inv, NEW d \in Deliveries, Moves(d), NEW k \in Deliveries \ {d}
    PROVE  Fits(k)'
<1>1. Fits(k) /\ k \in Deliveries
  BY DEF Inv
<1>2. delivery'[k] = delivery[k] /\ messages'[k] = messages[k] /\ (k \in pos' <=> k \in pos)
  BY DEF Moves
<1>3. \A x \in Deliveries : /\ delivery'[x].ext = delivery[x].ext
                            /\ messages[x].entity # None => messages'[x].entity = messages[x].entity
  BY DEF Moves
<1>4. delivery[k].about \in Deliveries
  BY DEF Inv, TypeOK, Handler
<1>5. OwnMessage(k)'
  BY <1>1, <1>2 DEF Fits, OwnMessage
<1>6. ReadsOriginal(k)'
  BY <1>1, <1>2, <1>3, <1>4, NamesAssumption DEF Fits, ReadsOriginal
<1>7. ReceiptLeads(k)'
  BY <1>1, <1>2, <1>3, NamesAssumption DEF Fits, ReceiptLeads, Receipt, Named
<1>8. LinkFits(k)'
  BY <1>1, <1>2 DEF Fits, LinkFits
<1> QED
  BY <1>5, <1>6, <1>7, <1>8 DEF Fits

\* It is enough that the handler that moved still fits, and that a message comes
\* into being only when nobody holds its identity.
LEMMA InvKept ==
    ASSUME Inv, NEW d \in Deliveries, Moves(d), TypeOK', Fits(d)',
           Exists(d)' => Exists(d) \/ Holders(delivery[d].ext) = {}
    PROVE  Inv'
<1>1. \A k \in Deliveries : Fits(k)'
  BY OthersFit
<1>2. IdentitiesAreUnique'
  <2> SUFFICES ASSUME NEW m \in Deliveries, NEW n \in Deliveries,
                      Exists(m)', Exists(n)', delivery'[m].ext = delivery'[n].ext,
                      delivery'[m].ext # NoExt, m # n
               PROVE  FALSE
    BY DEF IdentitiesAreUnique
  <2>1. \A x \in Deliveries : delivery'[x].ext = delivery[x].ext
    BY DEF Moves
  <2>2. \A x \in Deliveries \ {d} : Exists(x)' => Exists(x)
    BY DEF Moves, Exists
  <2>3. CASE Exists(d) \/ (m # d /\ n # d)
    BY <2>1, <2>2, <2>3 DEF Inv, IdentitiesAreUnique
  <2>4. CASE ~Exists(d) /\ (m = d \/ n = d)
    <3>1. Holders(delivery[d].ext) = {}
      BY <2>4
    <3> QED
      BY <2>1, <2>2, <2>4, <3>1 DEF Holders
  <2> QED
    BY <2>3, <2>4
<1> QED
  BY <1>1, <1>2 DEF Inv

\* A handler that answers.
LEMMA HandlerAnswers ==
    ASSUME TypeOK, NEW d \in Deliveries, NEW answer \in Answers, Answer(d, answer)
    PROVE  /\ delivery' \in [Deliveries -> Handler]
           /\ delivery'[d] = [delivery[d] EXCEPT !.pc = "done", !.bound = FALSE,
                                                 !.answer = answer]
           /\ \A k \in Deliveries \ {d} : delivery'[k] = delivery[k]
<1>1. [delivery[d] EXCEPT !.pc = "done", !.bound = FALSE, !.answer = answer] \in Handler
  <2>1. "done" \in Stages /\ FALSE \in BOOLEAN /\ delivery[d] \in Handler
    BY DEF TypeOK, Stages
  <2> QED
    BY <2>1 DEF Handler
<1> QED
  BY <1>1 DEF TypeOK, Answer

\* A step of the tracker finds its message, and writes it.
LEMMA PersistWrites ==
    ASSUME Inv, NEW d \in Deliveries, delivery[d].pc \in Working, NEW message \in Message,
           NEW type \in EventTypes, NEW from \in Statuses,
           Persist(d, TRUE, type, from, message)
    PROVE  /\ messages' = [messages EXCEPT ![d] = message]
           /\ messages' \in [Deliveries -> Message]
           /\ timeline' \in [Deliveries -> Seq(Event)]
<1>1. Exists(d)
  BY DEF Inv, Fits, OwnMessage, Working, StatusAt, Exists
<1>2. /\ messages' = [messages EXCEPT ![d] = message]
      /\ timeline' = [timeline EXCEPT ![d] = Append(@, [type |-> type, from |-> from,
                                                        to |-> message.status])]
  BY <1>1 DEF Persist, Visible
<1>3. [type |-> type, from |-> from, to |-> message.status] \in Event
  BY DEF Event, Message
<1> QED
  BY <1>2, <1>3 DEF Inv, TypeOK

\* A transition of d's message, to the status and the stage given.
LEMMA TransitionMoves ==
    ASSUME Inv, NEW d \in Deliveries, delivery[d].pc \in Working, NEW status \in Statuses,
           NEW type \in EventTypes, NEW pc \in Stages, NEW answer \in Answers,
           Transition(d, status, type, pc, answer)
    PROVE  /\ TypeOK' /\ Moves(d)
           /\ Exists(d)
           /\ delivery'[d].pc = pc /\ delivery'[d].answer = answer
           /\ delivery'[d].memory = messages'[d]
           /\ messages'[d].status = status
           /\ messages'[d].entity = messages[d].entity
           /\ pos' = pos
<1> DEFINE message == [delivery[d].memory EXCEPT !.status = status]
<1>1. /\ delivery[d].memory = messages[d] /\ messages[d].status \in Statuses
      /\ messages[d] \in Message /\ Exists(d)
  BY DEF Inv, Fits, OwnMessage, Working, StatusAt, Statuses, Exists, TypeOK
<1>2. /\ message \in Message /\ message.status = status
      /\ message.entity = messages[d].entity
  BY <1>1 DEF Message
<1>3. /\ Persist(d, TRUE, type, delivery[d].memory.status, message)
      /\ delivery' = [delivery EXCEPT ![d].pc = pc, ![d].bound = (pc # "done"),
                                      ![d].memory = message, ![d].answer = answer]
      /\ pos' = pos /\ faults' = faults
  BY DEF Transition
<1> HIDE DEF message
<1>4. /\ messages' = [messages EXCEPT ![d] = message]
      /\ messages' \in [Deliveries -> Message]
      /\ timeline' \in [Deliveries -> Seq(Event)]
  BY <1>1, <1>2, <1>3, PersistWrites
<1>5. /\ delivery' \in [Deliveries -> Handler]
      /\ delivery'[d].pc = pc /\ delivery'[d].answer = answer
      /\ delivery'[d].memory = message /\ delivery'[d].ext = delivery[d].ext
      /\ \A k \in Deliveries \ {d} : delivery'[k] = delivery[k]
  <2> DEFINE handler == [delivery[d] EXCEPT !.pc = pc, !.bound = (pc # "done"),
                                            !.memory = message, !.answer = answer]
  <2>1. /\ handler \in Handler /\ handler.pc = pc /\ handler.answer = answer
        /\ handler.memory = message /\ handler.ext = delivery[d].ext
    <3>1. (pc # "done") \in BOOLEAN
      OBVIOUS
    <3>2. delivery[d] \in Handler
      BY DEF Inv, TypeOK
    <3> QED
      BY <1>2, <3>1, <3>2 DEF Handler
  <2>2. delivery' = [delivery EXCEPT ![d] = handler]
    BY <1>3 DEF Inv, TypeOK
  <2> QED
    BY <2>1, <2>2 DEF Inv, TypeOK
<1>6. messages'[d] = message /\ \A k \in Deliveries \ {d} : messages'[k] = messages[k]
  BY <1>4 DEF Inv, TypeOK
<1>7. TypeOK'
  BY <1>3, <1>4, <1>5 DEF Inv, TypeOK
<1>8. Moves(d)
  BY <1>2, <1>3, <1>5, <1>6 DEF Moves
<1> QED
  BY <1>1, <1>2, <1>3, <1>5, <1>6, <1>7, <1>8

-----------------------------------------------------------------------------
\* The steps.

\* The invariant holds before the first step.
LEMMA InvInit == Init => Inv
<1> SUFFICES ASSUME Init PROVE Inv
  OBVIOUS
<1>1. TypeOK
  <2>1. NoMessage \in Message
    BY DEF NoMessage, Message
  <2>2. <<>> \in Seq(Event)
    OBVIOUS
  <2>3. delivery \in [Deliveries -> Handler]
    <3>1. delivery \in [Deliveries ->
             [pc : {"new"}, sender : Senders, ext : ExtIds \cup {NoExt}, bound : {FALSE},
              about : Deliveries, memory : {NoMessage}, answer : {"none"}]]
      BY DEF Init
    <3>2. /\ "new" \in Stages /\ "none" \in Answers /\ FALSE \in BOOLEAN
          /\ NoMessage \in Message
      BY <2>1 DEF Stages, Answers
    <3> QED
      BY <3>1, <3>2 DEF Handler
  <2> QED
    BY <2>1, <2>2, <2>3, MaxFaultsAssumption DEF Init, TypeOK
<1>2. \A d \in Deliveries : /\ messages[d] = NoMessage /\ delivery[d].pc = "new"
                            /\ delivery[d].answer = "none"
  BY DEF Init
<1>3. IdentitiesAreUnique
  BY <1>2 DEF IdentitiesAreUnique, Exists, NoMessage
<1>4. ASSUME NEW d \in Deliveries PROVE Fits(d)
  BY <1>2 DEF Init, Fits, OwnMessage, ReadsOriginal, ReceiptLeads, LinkFits, Receipt,
     NoMessage, Before, Working
<1> QED
  BY <1>1, <1>3, <1>4 DEF Inv

\* The look-ups of a delivery, the collision of its insert, and its end without a receipt,
\* write nothing of a message.
LEMMA QuietStep ==
    ASSUME Inv, NEW d \in Deliveries,
           Receive(d) \/ FindNothing(d) \/ MessageCollides(d) \/ FindNothingAgain(d) \/ Fail(d)
    PROVE  Inv'
<1>0. UNCHANGED <<messages, timeline, pos>> /\ TypeOK /\ Fits(d) /\ faults' \in 0..MaxFaults
  <2>1. TypeOK /\ Fits(d)
    BY DEF Inv
  <2>2. UNCHANGED <<messages, timeline, pos>>
    BY DEF Receive, FindNothing, MessageCollides, FindNothingAgain, Fail
  <2>3. faults' = faults \/ (faults < MaxFaults /\ faults' = faults + 1)
    BY DEF Receive, FindNothing, MessageCollides, FindNothingAgain, Fail
  <2>4. faults \in 0..MaxFaults
    BY <2>1 DEF TypeOK
  <2> QED
    BY <2>1, <2>2, <2>3, <2>4, MaxFaultsAssumption
<1>1. CASE Receive(d) \/ FindNothing(d) \/ MessageCollides(d)
  <2>1. PICK pc \in Before, bound \in BOOLEAN :
           Goto(d, pc, bound) /\ delivery[d].pc \in Before
    BY <1>1 DEF Receive, FindNothing, MessageCollides, Before
  <2>2. pc \in Stages
    BY DEF Before, Stages
  <2>3. /\ delivery' \in [Deliveries -> Handler]
        /\ delivery'[d] = [delivery[d] EXCEPT !.pc = pc, !.bound = bound]
        /\ \A k \in Deliveries \ {d} : delivery'[k] = delivery[k]
    <3> USE DEF Goto
    <3>1. TypeOK
      BY <1>0
    <3>2. Goto(d, pc, bound)
      BY <2>1
    <3> QED
      BY <3>1, <3>2, <2>2, ZenonT(30) DEF TypeOK, Handler
  <2>4. delivery[d] \in Handler
    BY <1>0 DEF TypeOK
  <2>5. /\ delivery'[d].pc = pc /\ delivery'[d].ext = delivery[d].ext
        /\ delivery'[d].answer = delivery[d].answer
    BY <2>3, <2>4 DEF Handler
  <2>6. Moves(d) /\ TypeOK'
    BY <1>0, <2>3, <2>5 DEF Moves, TypeOK
  <2>7. Fits(d)'
    BY <1>0, <2>1, <2>5 DEF Fits, OwnMessage, ReadsOriginal, ReceiptLeads, LinkFits,
       Receipt, Before, Working
  <2> QED
    BY <1>0, <2>6, <2>7, InvKept DEF Exists
<1>2. CASE FindNothingAgain(d) \/ Fail(d)
  <2>1. PICK answer \in {"unhandled", "lost"} : Answer(d, answer)
    BY <1>2 DEF FindNothingAgain, Fail
  <2>2. answer \in Answers
    BY DEF Answers
  <2>3. /\ delivery' \in [Deliveries -> Handler]
        /\ delivery'[d] = [delivery[d] EXCEPT !.pc = "done", !.bound = FALSE,
                                              !.answer = answer]
        /\ \A k \in Deliveries \ {d} : delivery'[k] = delivery[k]
    BY <1>0, <2>1, <2>2, HandlerAnswers
  <2>4. delivery[d] \in Handler
    BY <1>0 DEF TypeOK
  <2>5. /\ delivery'[d].pc = "done" /\ delivery'[d].ext = delivery[d].ext
        /\ delivery'[d].answer = answer
    BY <2>3, <2>4 DEF Handler
  <2>6. Moves(d) /\ TypeOK'
    BY <1>0, <2>3, <2>5 DEF Moves, TypeOK
  <2>7. Fits(d)'
    BY <1>0, <2>5 DEF Fits, OwnMessage, ReadsOriginal, ReceiptLeads, LinkFits,
       Receipt, Before, Working
  <2> QED
    BY <1>0, <2>6, <2>7, InvKept DEF Exists
<1> QED
  BY <1>1, <1>2

\* What the look-up finds is an earlier message under the same external id.
LEMMA FindStep ==
    ASSUME Inv, NEW d \in Deliveries, FindDuplicate(d)
    PROVE  Inv'
<1>1. PICK m \in Found(d) :
         delivery' = [delivery EXCEPT ![d].pc = "duplicate", ![d].about = m,
                                      ![d].memory = messages[m]]
  BY DEF FindDuplicate
<1>2. /\ m \in Deliveries /\ Exists(m) /\ delivery[m].ext = delivery[d].ext
      /\ Fits(m) /\ Fits(d) /\ messages[m] \in Message /\ delivery[d] \in Handler
  BY DEF Found, Visible, Holders, Inv, TypeOK
<1>3. /\ delivery[d].pc \in {"finding", "refinding"}
      /\ UNCHANGED <<messages, timeline, pos, faults>>
  BY DEF FindDuplicate
<1> DEFINE handler == [delivery[d] EXCEPT !.pc = "duplicate", !.about = m,
                                          !.memory = messages[m]]
<1>4. /\ handler \in Handler /\ handler.pc = "duplicate" /\ handler.about = m
      /\ handler.memory = messages[m] /\ handler.ext = delivery[d].ext
      /\ handler.answer = delivery[d].answer
  <2>1. "duplicate" \in Stages
    BY DEF Stages
  <2> QED
    BY <1>2, <2>1 DEF Handler
<1>5. delivery' = [delivery EXCEPT ![d] = handler]
  BY <1>1 DEF Inv, TypeOK
<1> HIDE DEF handler
<1>6. delivery' \in [Deliveries -> Handler] /\ delivery'[d] = handler
  BY <1>4, <1>5 DEF Inv, TypeOK
<1>7. Moves(d) /\ TypeOK'
  BY <1>3, <1>4, <1>5, <1>6 DEF Moves, Inv, TypeOK
<1>8. Fits(d)'
  <2>1. delivery'[m].ext = delivery[m].ext
    BY <1>2, <1>7 DEF Moves
  <2>2. messages[m].entity # None => messages[m].entity = m
    BY <1>2 DEF Fits, LinkFits
  <2>3. ReadsOriginal(d)'
    BY <1>2, <1>3, <1>4, <1>6, <2>1, <2>2 DEF ReadsOriginal
  <2>4. OwnMessage(d)' /\ LinkFits(d)'
    BY <1>2, <1>3, <1>4, <1>6 DEF Fits, OwnMessage, LinkFits, Before, Working
  <2>5. ReceiptLeads(d)'
    BY <1>2, <1>3, <1>4, <1>6 DEF Fits, ReceiptLeads, Receipt
  <2> QED
    BY <2>3, <2>4, <2>5 DEF Fits
<1> QED
  BY <1>3, <1>7, <1>8, InvKept DEF Exists

\* The insert gets through where nobody holds the external id.
LEMMA CreateStep ==
    ASSUME Inv, NEW d \in Deliveries, CreateMessage(d)
    PROVE  Inv'
<1> DEFINE message == [status |-> "RECEIVED", entity |-> None]
           event == [type |-> "RECEIVED", from |-> "NONE", to |-> "RECEIVED"]
           handler == [delivery[d] EXCEPT !.pc = "received", !.bound = TRUE,
                                          !.memory = message]
<1>1. /\ delivery[d].pc = "inserting" /\ Holders(delivery[d].ext) = {}
      /\ messages' = [messages EXCEPT ![d] = message]
      /\ timeline' = [timeline EXCEPT ![d] = <<event>>]
      /\ UNCHANGED <<pos, faults>>
  BY DEF CreateMessage
<1>2. delivery' = [delivery EXCEPT ![d] = handler]
  BY DEF CreateMessage, Inv, TypeOK
<1>3. Fits(d) /\ delivery[d] \in Handler /\ TypeOK
  BY DEF Inv, TypeOK
<1>4. message \in Message /\ message.status = "RECEIVED" /\ message.entity = None
  BY DEF Message, Statuses
<1>5. event \in Event
  BY DEF Event, EventTypes, Statuses
<1> HIDE DEF event, message
<1>6. /\ handler \in Handler /\ handler.pc = "received" /\ handler.memory = message
      /\ handler.ext = delivery[d].ext /\ handler.answer = delivery[d].answer
  <2>1. "received" \in Stages /\ TRUE \in BOOLEAN
    BY DEF Stages
  <2> QED
    BY <1>3, <1>4, <2>1 DEF Handler
<1> HIDE DEF handler
<1>7. <<event>> \in Seq(Event)
  BY <1>5
<1>8. TypeOK'
  BY <1>1, <1>2, <1>3, <1>4, <1>6, <1>7 DEF TypeOK
<1>9. delivery'[d] = handler /\ messages'[d] = message
  BY <1>1, <1>2, <1>3 DEF TypeOK
<1>10. messages[d] = NoMessage /\ d \notin pos
  BY <1>1, <1>3 DEF Fits, OwnMessage, Before
<1>11. Moves(d)
  BY <1>1, <1>2, <1>3, <1>6, <1>9, <1>10 DEF Moves, TypeOK, NoMessage
<1>12. Fits(d)'
  BY <1>1, <1>3, <1>4, <1>6, <1>9, <1>10
     DEF Fits, OwnMessage, ReadsOriginal, ReceiptLeads, Receipt, LinkFits, Before, Working, StatusAt
<1> QED
  BY <1>1, <1>8, <1>11, <1>12, InvKept

\* The answer to a duplicate is what was read of the original.
LEMMA DuplicateStep ==
    ASSUME Inv, NEW d \in Deliveries, DuplicateEvent(d)
    PROVE  Inv'
<1> DEFINE original == delivery[d].memory
           event == [type |-> "DUPLICATE_DETECTED", from |-> original.status,
                     to |-> original.status]
           answer == IF original.entity = None THEN "conflict" ELSE "receipt"
<1>1. /\ delivery[d].pc = "duplicate" /\ UNCHANGED <<messages, pos, faults>>
      /\ timeline' = [timeline EXCEPT ![delivery[d].about] = Append(@, event)]
      /\ Answer(d, answer)
  BY DEF DuplicateEvent
<1>2. Fits(d) /\ delivery[d] \in Handler /\ TypeOK
  BY DEF Inv, TypeOK
<1>3. event \in Event
  BY <1>2 DEF Event, EventTypes, Handler, Message
<1>4. answer \in Answers
  BY DEF Answers
<1> HIDE DEF event
<1>5. timeline' \in [Deliveries -> Seq(Event)]
  <2>1. delivery[d].about \in Deliveries /\ timeline \in [Deliveries -> Seq(Event)]
    BY <1>2 DEF TypeOK, Handler
  <2>2. Append(timeline[delivery[d].about], event) \in Seq(Event)
    BY <1>3, <2>1
  <2> QED
    BY <1>1, <2>1, <2>2
<1>6. /\ delivery' \in [Deliveries -> Handler]
      /\ delivery'[d] = [delivery[d] EXCEPT !.pc = "done", !.bound = FALSE, !.answer = answer]
      /\ \A k \in Deliveries \ {d} : delivery'[k] = delivery[k]
  <2> HIDE DEF answer
  <2> QED
    BY <1>1, <1>2, <1>4, HandlerAnswers
<1>7. /\ delivery'[d].pc = "done" /\ delivery'[d].answer = answer
      /\ delivery'[d].memory = original /\ delivery'[d].ext = delivery[d].ext
  <2> HIDE DEF answer
  <2> QED
    BY <1>2, <1>6 DEF Handler
<1>8. Moves(d) /\ TypeOK'
  BY <1>1, <1>2, <1>5, <1>6, <1>7 DEF Moves, TypeOK
<1>9. Fits(d)'
  <2>1. Receipt(d)' => original.entity # None
    BY <1>7 DEF Receipt
  <2>2. delivery[d].about \in Deliveries
    BY <1>2 DEF Handler
  <2>3. \A k \in Deliveries : delivery'[k].ext = delivery[k].ext
    BY <1>8 DEF Moves
  <2>4. ReceiptLeads(d)'
    BY <1>1, <1>2, <1>7, <2>1, <2>2, <2>3 DEF Fits, ReadsOriginal, ReceiptLeads, Named, Receipt
  <2> QED
    BY <1>1, <1>2, <1>7, <2>4 DEF Fits, OwnMessage, ReadsOriginal, LinkFits, Before, Working
<1> QED
  BY <1>1, <1>8, <1>9, InvKept DEF Exists

\* The steps of the tracker: each takes the message to another status.
Transitions(d) ==
    \/ StartValidation(d) \/ ValidationPassed(d) \/ ValidationFailed(d) \/ StartProcessing(d)
    \/ MarkFailed(d) \/ Complete(d)

\* The transitions of the tracker, each with its event, keep it.
LEMMA TransitionStep ==
    ASSUME Inv, NEW d \in Deliveries, Transitions(d)
    PROVE  Inv'
<1>0. /\ {"VALIDATING", "VALIDATED", "VALIDATION_FAILED", "PROCESSING", "FAILED",
          "COMPLETED"} \subseteq Statuses
      /\ {"VALIDATION_STARTED", "VALIDATION_PASSED", "VALIDATION_FAILED", "PROCESSING_STARTED",
          "FAILED", "COMPLETED"} \subseteq EventTypes
      /\ {"validating", "validated", "processing", "done"} \subseteq Stages
      /\ {"none", "invalid", "failed", "receipt"} \subseteq Answers
  BY DEF Statuses, EventTypes, Stages, Answers
<1>1. delivery[d].pc \in Working /\ delivery[d].pc # "created" /\ Fits(d)
  BY DEF Transitions, StartValidation, ValidationPassed, ValidationFailed, StartProcessing,
     MarkFailed, Complete, Working, Inv
<1> DEFINE Arrives(status, pc, answer) ==
             /\ TypeOK' /\ Moves(d) /\ Exists(d)
             /\ delivery'[d].pc = pc /\ delivery'[d].answer = answer
             /\ delivery'[d].memory = messages'[d]
             /\ messages'[d].status = status /\ messages'[d].entity = messages[d].entity
             /\ pos' = pos
<1>2. SUFFICES ASSUME NEW status \in Statuses, NEW pc \in Stages, NEW answer \in Answers,
                      Arrives(status, pc, answer),
                      \/ /\ <<delivery[d].pc, status, pc>>
                                \in {<<"received", "VALIDATING", "validating">>,
                                     <<"validating", "VALIDATED", "validated">>,
                                     <<"validated", "PROCESSING", "processing">>}
                         /\ answer = "none"
                      \/ /\ <<delivery[d].pc, status, pc>>
                                \in {<<"validating", "VALIDATION_FAILED", "done">>,
                                     <<"failing", "FAILED", "done">>}
                         /\ answer # "receipt"
                      \/ /\ <<delivery[d].pc, status, pc>> = <<"linked", "COMPLETED", "done">>
               PROVE  Fits(d)'
  <2>1. CASE StartValidation(d)
    <3>1. Arrives("VALIDATING", "validating", "none")
      BY <1>0, <1>1, <2>1, TransitionMoves DEF StartValidation
    <3> QED
      BY <1>0, <2>1, <3>1, InvKept DEF StartValidation
  <2>2. CASE ValidationPassed(d)
    <3>1. Arrives("VALIDATED", "validated", "none")
      BY <1>0, <1>1, <2>2, TransitionMoves DEF ValidationPassed
    <3> QED
      BY <1>0, <2>2, <3>1, InvKept DEF ValidationPassed
  <2>3. CASE ValidationFailed(d)
    <3>1. Arrives("VALIDATION_FAILED", "done", "invalid")
      BY <1>0, <1>1, <2>3, TransitionMoves DEF ValidationFailed
    <3> QED
      BY <1>0, <2>3, <3>1, InvKept DEF ValidationFailed
  <2>4. CASE StartProcessing(d)
    <3>1. Arrives("PROCESSING", "processing", "none")
      BY <1>0, <1>1, <2>4, TransitionMoves DEF StartProcessing
    <3> QED
      BY <1>0, <2>4, <3>1, InvKept DEF StartProcessing
  <2>5. CASE MarkFailed(d)
    <3>1. Arrives("FAILED", "done", "failed")
      BY <1>0, <1>1, <2>5, TransitionMoves DEF MarkFailed
    <3> QED
      BY <1>0, <2>5, <3>1, InvKept DEF MarkFailed
  <2>6. CASE Complete(d)
    <3>1. Arrives("COMPLETED", "done", "receipt")
      BY <1>0, <1>1, <2>6, TransitionMoves DEF Complete
    <3> QED
      BY <1>0, <2>6, <3>1, InvKept DEF Complete
  <2> QED
    BY <2>1, <2>2, <2>3, <2>4, <2>5, <2>6 DEF Transitions
<1>3. /\ delivery'[d].pc = pc /\ delivery'[d].answer = answer
      /\ delivery'[d].memory = messages'[d] /\ messages'[d].status = status
      /\ messages'[d].entity = messages[d].entity /\ pos' = pos
      /\ delivery'[d].ext = delivery[d].ext
  BY <1>2 DEF Moves
<1>4. messages[d].entity = IF delivery[d].pc = "linked" THEN d ELSE None
  BY <1>1 DEF Fits, OwnMessage
<1> QED
  BY <1>1, <1>2, <1>3, <1>4, NamesAssumption
     DEF Fits, OwnMessage, ReadsOriginal, ReceiptLeads, Receipt, Named, LinkFits, Before,
         Working, StatusAt

\* The creation of the PO is a transaction of its own: it leaves the message as it is.
LEMMA OrderStep ==
    ASSUME Inv, NEW d \in Deliveries, CreatePo(d) \/ PoRefused(d) \/ PoUnacknowledged(d)
    PROVE  Inv'
<1>1. /\ delivery[d].pc = "processing" /\ UNCHANGED <<messages, timeline>>
      /\ pos' = pos \cup {d} \/ pos' = pos
      /\ \/ faults' = faults
         \/ faults < MaxFaults /\ faults' = faults + 1
  BY DEF CreatePo, PoRefused, PoUnacknowledged
<1>2. PICK pc \in {"created", "failing"} :
         Goto(d, pc, FALSE) /\ (pc = "created" => pos' = pos \cup {d})
  BY DEF CreatePo, PoRefused, PoUnacknowledged
<1>3. TypeOK /\ Fits(d) /\ delivery[d] \in Handler
  BY DEF Inv, TypeOK
<1> DEFINE handler == [delivery[d] EXCEPT !.pc = pc, !.bound = FALSE]
<1>4. /\ handler \in Handler /\ handler.pc = pc /\ handler.memory = delivery[d].memory
      /\ handler.ext = delivery[d].ext /\ handler.answer = delivery[d].answer
  <2>1. pc \in Stages
    BY DEF Stages
  <2> QED
    BY <1>3, <2>1 DEF Handler
<1>5. delivery' = [delivery EXCEPT ![d] = handler]
  BY <1>2, <1>3 DEF Goto, TypeOK
<1> HIDE DEF handler
<1>6. delivery' \in [Deliveries -> Handler] /\ delivery'[d] = handler
  BY <1>3, <1>4, <1>5 DEF TypeOK
<1>7. faults' \in 0..MaxFaults
  BY <1>1, <1>3, MaxFaultsAssumption DEF TypeOK
<1>8. Moves(d) /\ TypeOK'
  BY <1>1, <1>3, <1>4, <1>5, <1>6, <1>7 DEF Moves, TypeOK
<1>9. Fits(d)'
  BY <1>1, <1>2, <1>3, <1>4, <1>6
     DEF Fits, OwnMessage, ReadsOriginal, ReceiptLeads, Receipt, LinkFits, Before, Working,
         StatusAt
<1> QED
  BY <1>1, <1>8, <1>9, InvKept DEF Exists

\* The link of a message to its order keeps it.
LEMMA LinkStep ==
    ASSUME Inv, NEW d \in Deliveries, Link(d)
    PROVE  Inv'
<1> DEFINE message == [delivery[d].memory EXCEPT !.entity = d]
           handler == [delivery[d] EXCEPT !.pc = "linked", !.bound = TRUE, !.memory = message]
<1>1. TypeOK /\ Fits(d) /\ delivery[d] \in Handler /\ delivery[d].pc = "created"
  BY DEF Inv, TypeOK, Link
<1>2. /\ delivery[d].memory = messages[d] /\ messages[d].status = "PROCESSING"
      /\ messages[d].entity = None /\ messages[d] \in Message /\ d \in pos
  BY <1>1 DEF Fits, OwnMessage, Working, StatusAt, TypeOK
<1>3. message \in Message /\ message.status = "PROCESSING" /\ message.entity = d
  BY <1>2 DEF Message
<1>4. /\ Persist(d, TRUE, "RELATED_ENTITY_CREATED", message.status, message)
      /\ UNCHANGED <<pos, faults>>
  BY DEF Link
<1>5. delivery' = [delivery EXCEPT ![d] = handler]
  BY <1>1 DEF Link, TypeOK
<1> HIDE DEF message
<1>6. /\ handler \in Handler /\ handler.pc = "linked" /\ handler.memory = message
      /\ handler.ext = delivery[d].ext /\ handler.answer = delivery[d].answer
  <2>1. "linked" \in Stages /\ TRUE \in BOOLEAN
    BY DEF Stages
  <2> QED
    BY <1>1, <1>3, <2>1 DEF Handler
<1> HIDE DEF handler
<1>7. /\ messages' = [messages EXCEPT ![d] = message]
      /\ messages' \in [Deliveries -> Message]
      /\ timeline' \in [Deliveries -> Seq(Event)]
  <2>1. "RELATED_ENTITY_CREATED" \in EventTypes /\ message.status \in Statuses
    BY <1>3 DEF EventTypes, Statuses
  <2>2. delivery[d].pc \in Working
    BY <1>1 DEF Working
  <2> QED
    BY <1>3, <1>4, <2>1, <2>2, PersistWrites
<1>8. /\ delivery' \in [Deliveries -> Handler] /\ delivery'[d] = handler
      /\ messages'[d] = message
  BY <1>1, <1>5, <1>6, <1>7 DEF TypeOK
<1>9. Moves(d) /\ TypeOK'
  BY <1>1, <1>2, <1>4, <1>5, <1>6, <1>7, <1>8 DEF Moves, TypeOK
<1>10. Fits(d)'
  BY <1>1, <1>2, <1>3, <1>4, <1>6, <1>8, NamesAssumption
     DEF Fits, OwnMessage, ReadsOriginal, ReceiptLeads, Receipt, LinkFits, Before, Working,
         StatusAt
<1>11. Exists(d)
  BY <1>2 DEF Exists
<1> QED
  BY <1>9, <1>10, <1>11, InvKept

\* Every step of every delivery keeps it.
LEMMA InvStep == Inv /\ [Next]_vars => Inv'
<1> SUFFICES ASSUME Inv, [Next]_vars PROVE Inv'
  OBVIOUS
<1>1. ASSUME NEW d \in Deliveries, Receive(d) \/ Step(d) \/ PoUnacknowledged(d) \/ Fail(d)
      PROVE  Inv'
  <2>1. CASE \/ Receive(d) \/ FindNothing(d) \/ MessageCollides(d)
             \/ FindNothingAgain(d) \/ Fail(d)
    BY <2>1, QuietStep
  <2>2. CASE FindDuplicate(d)
    BY <2>2, FindStep
  <2>3. CASE CreateMessage(d)
    BY <2>3, CreateStep
  <2>4. CASE DuplicateEvent(d)
    BY <2>4, DuplicateStep
  <2>5. CASE Transitions(d)
    BY <2>5, TransitionStep
  <2>6. CASE CreatePo(d) \/ PoRefused(d) \/ PoUnacknowledged(d)
    BY <2>6, OrderStep
  <2>7. CASE Link(d)
    BY <2>7, LinkStep
  <2> QED
    BY <1>1, <2>1, <2>2, <2>3, <2>4, <2>5, <2>6, <2>7 DEF Step, Transitions
<1>2. CASE UNCHANGED vars
  BY <1>2 DEF vars, Inv, TypeOK, IdentitiesAreUnique, Exists, Fits, OwnMessage, ReadsOriginal,
     ReceiptLeads, Receipt, Named, LinkFits
<1> QED
  BY <1>1, <1>2 DEF Next

\* The invariant holds of every behaviour, however deliveries overlap and fail.
THEOREM Invariance == Spec => []Inv
  BY InvInit, InvStep, PTL DEF Spec

-----------------------------------------------------------------------------
\* What follows.

\* Rows, timelines and handlers keep to their types.
THEOREM TypeCorrect == Spec => []TypeOK
  BY Invariance, PTL DEF Inv

\* However the documents repeat and whatever fails, a message and its PO fit together.
THEOREM LinksAlwaysFit == Spec => []LinksFit
<1>1. Inv => LinksFit
  BY DEF Inv, Fits, LinkFits, LinksFit
<1> QED
  BY <1>1, Invariance, PTL

\* Any number of concurrent and repeated deliveries of an external id yields one PO at most.
THEOREM IdempotentReception == Spec => []OneOrderPerIdentity
<1>1. Inv => OneOrderPerIdentity
  <2> SUFFICES ASSUME Inv, NEW p \in pos, NEW q \in pos,
                      delivery[p].ext = delivery[q].ext, delivery[p].ext # NoExt
               PROVE  p = q
    BY DEF OneOrderPerIdentity
  <2>1. p \in Deliveries /\ q \in Deliveries
    BY DEF Inv, TypeOK
  <2>2. Exists(p) /\ Exists(q)
    BY <2>1 DEF Inv, Fits, LinkFits, Exists
  <2> QED
    BY <2>1, <2>2 DEF Inv, IdentitiesAreUnique
<1> QED
  BY <1>1, Invariance, PTL

\* Every receipt, of a first delivery or of a repeated one, leads to the one committed PO.
THEOREM ReceiptsAreTrustworthy == Spec => []ReceiptsAreTrue
<1>1. Inv => ReceiptsAreTrue
  <2> SUFFICES ASSUME Inv, NEW d \in Deliveries, Receipt(d)
               PROVE  /\ Named(d) \in pos
                      /\ \E m \in Deliveries : messages[m].entity = Named(d)
                      /\ \A e \in Deliveries :
                            /\ Receipt(e)
                            /\ delivery[e].ext = delivery[d].ext /\ delivery[d].ext # NoExt
                            => Named(e) = Named(d)
    BY DEF ReceiptsAreTrue
  <2>1. ASSUME NEW e \in Deliveries, Receipt(e)
        PROVE  /\ Named(e) \in Deliveries /\ Named(e) \in pos /\ Exists(Named(e))
               /\ messages[Named(e)].entity = Named(e)
               /\ delivery[Named(e)].ext = delivery[e].ext
    <3>1. /\ Named(e) \in Deliveries /\ messages[Named(e)].entity = Named(e)
          /\ delivery[Named(e)].ext = delivery[e].ext
      BY <2>1 DEF Inv, Fits, ReceiptLeads
    <3> QED
      BY <3>1, NamesAssumption DEF Inv, Fits, LinkFits, Exists
  <2>2. ASSUME NEW e \in Deliveries, Receipt(e), delivery[e].ext = delivery[d].ext,
               delivery[d].ext # NoExt
        PROVE  Named(e) = Named(d)
    BY <2>1, <2>2 DEF Inv, IdentitiesAreUnique
  <2> QED
    BY <2>1, <2>2
<1> QED
  BY <1>1, Invariance, PTL

\* No step, of any delivery, changes a message that has come to its end, or its link.
THEOREM OutcomesAreFinal == Spec => OutcomeIsFinal
<1> DEFINE Keeps == \A m \in Deliveries :
              /\ messages[m].status \in Final => messages'[m] = messages[m]
              /\ messages[m].entity # None => messages'[m].entity = messages[m].entity
<1>1. Inv /\ [Next]_vars => [Keeps]_messages
  <2> SUFFICES ASSUME Inv, Next, messages' # messages PROVE Keeps
    BY DEF vars
  <2>1. PICK d \in Deliveries : Receive(d) \/ Step(d) \/ PoUnacknowledged(d) \/ Fail(d)
    BY DEF Next
  <2>2. Fits(d) /\ TypeOK
    BY DEF Inv
  <2>3. CASE CreateMessage(d)
    <3>1. delivery[d].pc = "inserting"
      BY <2>3 DEF CreateMessage
    <3>2. messages[d] = NoMessage
      BY <2>2, <3>1 DEF Fits, OwnMessage, Before
    <3>3. \A m \in Deliveries : m # d => messages'[m] = messages[m]
      BY <2>2, <2>3 DEF CreateMessage, TypeOK
    <3> QED
      BY <3>2, <3>3 DEF NoMessage, Final
  <2>4. CASE Transitions(d) \/ Link(d)
    <3>1. delivery[d].pc \in Working
      BY <2>4 DEF Transitions, StartValidation, ValidationPassed, ValidationFailed,
         StartProcessing, MarkFailed, Complete, Link, Working
    <3>2. messages[d].status \notin Final
      BY <2>2, <3>1 DEF Fits, OwnMessage, Working, StatusAt, Final
    <3>3. \A m \in Deliveries : m # d => messages'[m] = messages[m]
      BY <2>2, <2>4 DEF Transitions, StartValidation, ValidationPassed, ValidationFailed,
         StartProcessing, MarkFailed, Complete, Link, Transition, Persist, TypeOK
    <3>4. messages[d].entity # None => messages'[d].entity = messages[d].entity
      <4> SUFFICES ASSUME messages[d].entity # None
                   PROVE  messages'[d].entity = messages[d].entity
        OBVIOUS
      <4>1. delivery[d].pc = "linked" /\ delivery[d].memory = messages[d]
        BY <2>2, <3>1 DEF Fits, OwnMessage
      <4>2. Complete(d)
        BY <2>4, <4>1 DEF Transitions, StartValidation, ValidationPassed, ValidationFailed,
           StartProcessing, MarkFailed, Link
      <4>3. \/ messages' = [messages EXCEPT ![d] = [messages[d] EXCEPT !.status = "COMPLETED"]]
            \/ messages' = messages
        BY <4>1, <4>2 DEF Complete, Transition, Persist
      <4>4. messages[d] \in Message /\ messages \in [Deliveries -> Message]
        BY <2>2 DEF TypeOK
      <4> QED
        BY <4>3, <4>4 DEF Message
    <3> QED
      BY <3>2, <3>3, <3>4
  <2> QED
    BY <2>1, <2>3, <2>4
       DEF Receive, Step, PoUnacknowledged, Fail, FindDuplicate, FindNothing, MessageCollides,
           FindNothingAgain, DuplicateEvent, CreatePo, PoRefused, Transitions
<1> QED
  BY <1>1, Invariance, PTL DEF Spec, OutcomeIsFinal

-----------------------------------------------------------------------------
\* The timelines.

\* What one more event does to the events that are a message's own.
LEMMA OwnOfAppend ==
    ASSUME NEW events \in Seq(Event), NEW event \in Event
    PROVE  LET more == Append(events, event)  n == Len(events) IN
           /\ n \in Nat /\ Own(events) \subseteq 1..n
           /\ more[n + 1] = event
           /\ \A i \in 1..n : more[i] = events[i]
           /\ event.type = "DUPLICATE_DETECTED" => Own(more) = Own(events)
           /\ event.type # "DUPLICATE_DETECTED" => Own(more) = Own(events) \cup {n + 1}
<1> DEFINE more == Append(events, event)  n == Len(events)
<1>1. /\ n \in Nat /\ Len(more) = n + 1 /\ more[n + 1] = event
      /\ \A i \in 1..n : more[i] = events[i]
  OBVIOUS
<1> HIDE DEF more, n
<1>2. \A i : i \in 1..n + 1 <=> i \in 1..n \/ i = n + 1
  BY <1>1
<1>3. Own(events) = {i \in 1..n : events[i].type # "DUPLICATE_DETECTED"}
  BY DEF Own, n
<1>4. Own(more) = {i \in 1..n + 1 : more[i].type # "DUPLICATE_DETECTED"}
  BY <1>1 DEF Own
<1>5. \A i : i \in Own(more) <=>
                i \in Own(events) \/ (i = n + 1 /\ event.type # "DUPLICATE_DETECTED")
  <2> TAKE i
  <2>1. CASE i \in 1..n
    <3>1. i # n + 1
      BY <1>1, <2>1
    <3> QED
      BY <1>1, <1>2, <1>3, <1>4, <2>1, <3>1
  <2>2. CASE i = n + 1
    <3>1. i \notin 1..n
      BY <1>1, <2>2
    <3> QED
      BY <1>1, <1>2, <1>3, <1>4, <2>2, <3>1
  <2> QED
    BY <1>2, <1>3, <1>4, <2>1, <2>2
<1> QED
  BY <1>1, <1>3, <1>5 DEF more, n

\* The mark of a duplicate explains nothing, and disturbs nothing.
LEMMA MarkExplains ==
    ASSUME NEW events \in Seq(Event), NEW message, Explain(events, message),
           NEW event \in Event, event.type = "DUPLICATE_DETECTED"
    PROVE  Explain(Append(events, event), message)
<1> DEFINE more == Append(events, event)
<1>1. Own(more) = Own(events) /\ \A i \in Own(events) : more[i] = events[i]
  BY OwnOfAppend
<1> HIDE DEF more
<1>2. Explain(more, message)
  BY <1>1 DEF Explain
<1> QED
  BY <1>2 DEF more

\* An event of the tracker that leaves from the status of the row explains the row that is
\* written with it.
LEMMA EventExplains ==
    ASSUME NEW events \in Seq(Event), NEW message \in Message, Explain(events, message),
           message.status # "NONE",
           NEW type \in EventTypes \ {"DUPLICATE_DETECTED"}, NEW after \in Message,
           after.status # "NONE",
           after.entity # None <=>
              message.entity # None \/ type = "RELATED_ENTITY_CREATED"
    PROVE  Explain(Append(events, [type |-> type, from |-> message.status,
                                   to |-> after.status]), after)
<1> DEFINE event == [type |-> type, from |-> message.status, to |-> after.status]
           more == Append(events, event)  n == Len(events)  own == Own(events)
<1>1. /\ event \in Event /\ event.type = type
      /\ event.from = message.status /\ event.to = after.status
  BY DEF Event, Message
<1> HIDE DEF event
<1>2. /\ n \in Nat /\ own \subseteq 1..n /\ more[n + 1] = event
      /\ \A i \in own : more[i] = events[i]
      /\ Own(more) = own \cup {n + 1}
  BY <1>1, OwnOfAppend
<1>3. /\ own # {}
      /\ \A j \in own : (\A k \in own : k >= j) => events[j].from = "NONE"
      /\ \A i, j \in own :
            i < j /\ (\A k \in own : k <= i \/ k >= j) => events[j].from = events[i].to
      /\ \A i \in own : (\A k \in own : k <= i) => events[i].to = message.status
      /\ message.entity # None <=> \E i \in own : events[i].type = "RELATED_ENTITY_CREATED"
  BY DEF Explain
<1> HIDE DEF more, n, own
<1>4. \A i \in own : i \in Int /\ i < n + 1
  BY <1>2
<1>5. ASSUME NEW j \in own \cup {n + 1}, \A k \in own \cup {n + 1} : k >= j
      PROVE  more[j].from = "NONE"
  <2>1. PICK k \in own : TRUE
    BY <1>3
  <2>2. k >= j /\ k < n + 1 /\ k \in Int
    BY <1>4, <1>5, <2>1
  <2>3. j # n + 1
    BY <1>2, <2>2
  <2> QED
    BY <1>2, <1>3, <1>5, <2>3
<1>6. ASSUME NEW i \in own \cup {n + 1}, NEW j \in own \cup {n + 1}, i < j,
             \A k \in own \cup {n + 1} : k <= i \/ k >= j
      PROVE  more[j].from = more[i].to
  <2>1. i \in own
    BY <1>2, <1>4, <1>6
  <2>2. CASE j \in own
    BY <1>2, <1>3, <1>6, <2>1, <2>2
  <2>3. CASE j = n + 1
    <3>1. \A k \in own : k <= i
      BY <1>4, <1>6, <2>3, <1>2
    <3> QED
      BY <1>1, <1>2, <1>3, <2>1, <2>3, <3>1
  <2> QED
    BY <2>2, <2>3
<1>7. ASSUME NEW i \in own \cup {n + 1}, \A k \in own \cup {n + 1} : k <= i
      PROVE  more[i].to = after.status
  <2>1. i = n + 1
    BY <1>2, <1>4, <1>7
  <2> QED
    BY <1>1, <1>2, <2>1
<1>8. after.entity # None <=> \E i \in own \cup {n + 1} : more[i].type = "RELATED_ENTITY_CREATED"
  BY <1>1, <1>2, <1>3
<1>9. Explain(more, after)
  BY <1>2, <1>5, <1>6, <1>7, <1>8 DEF Explain
<1> QED
  BY <1>9 DEF more, event

\* What d's handler writes of its own message, it explains.
LEMMA PersistExplains ==
    ASSUME Inv, TimelineExplainsStatus, NEW d \in Deliveries, delivery[d].pc \in Working,
           NEW message \in Message, message.status # "NONE",
           NEW type \in EventTypes \ {"DUPLICATE_DETECTED"},
           message.entity # None <=>
              messages[d].entity # None \/ type = "RELATED_ENTITY_CREATED",
           Persist(d, TRUE, type, messages[d].status, message)
    PROVE  TimelineExplainsStatus'
<1>1. Exists(d) /\ TypeOK
  BY DEF Inv, Fits, OwnMessage, Working, StatusAt, Exists
<1> DEFINE event == [type |-> type, from |-> messages[d].status, to |-> message.status]
<1>2. /\ messages' = [messages EXCEPT ![d] = message]
      /\ timeline' = [timeline EXCEPT ![d] = Append(@, event)]
  BY <1>1 DEF Persist, Visible
<1>3. Explain(Append(timeline[d], event), message)
  <2>1. /\ timeline[d] \in Seq(Event) /\ messages[d] \in Message
        /\ Explain(timeline[d], messages[d]) /\ messages[d].status # "NONE"
    BY <1>1 DEF TypeOK, TimelineExplainsStatus, Exists
  <2> QED
    BY <2>1, EventExplains
<1> HIDE DEF event
<1>4. /\ messages'[d] = message /\ timeline'[d] = Append(timeline[d], event)
      /\ \A k \in Deliveries \ {d} : messages'[k] = messages[k] /\ timeline'[k] = timeline[k]
  BY <1>1, <1>2 DEF TypeOK
<1> QED
  BY <1>3, <1>4 DEF TimelineExplainsStatus

\* Every step keeps the timelines true to the rows.
LEMMA TimelineStep == Inv /\ TimelineExplainsStatus /\ [Next]_vars => TimelineExplainsStatus'
<1> SUFFICES ASSUME Inv, TimelineExplainsStatus, [Next]_vars PROVE TimelineExplainsStatus'
  OBVIOUS
<1>1. CASE UNCHANGED <<messages, timeline>>
  BY <1>1 DEF TimelineExplainsStatus
<1>2. ASSUME NEW d \in Deliveries, Receive(d) \/ Step(d) \/ PoUnacknowledged(d) \/ Fail(d)
      PROVE  TimelineExplainsStatus'
  <2>0. TypeOK /\ Fits(d) /\ delivery[d] \in Handler
    BY DEF Inv, TypeOK
  <2>1. CASE \/ Receive(d) \/ FindDuplicate(d) \/ FindNothing(d) \/ MessageCollides(d)
             \/ FindNothingAgain(d) \/ CreatePo(d) \/ PoRefused(d) \/ PoUnacknowledged(d)
             \/ Fail(d)
    BY <2>1, <1>1 DEF Receive, FindDuplicate, FindNothing, MessageCollides, FindNothingAgain,
       CreatePo, PoRefused, PoUnacknowledged, Fail
  <2>2. CASE CreateMessage(d)
    <3> DEFINE message == [status |-> "RECEIVED", entity |-> None]
               event == [type |-> "RECEIVED", from |-> "NONE", to |-> "RECEIVED"]
    <3>1. /\ messages'[d] = message /\ timeline'[d] = <<event>>
          /\ \A k \in Deliveries \ {d} : messages'[k] = messages[k] /\ timeline'[k] = timeline[k]
      BY <2>0, <2>2 DEF CreateMessage, TypeOK
    <3>2. /\ event.type = "RECEIVED" /\ event.from = "NONE" /\ event.to = "RECEIVED"
          /\ message.status = "RECEIVED" /\ message.entity = None
      OBVIOUS
    <3> HIDE DEF message, event
    <3>3. Own(<<event>>) = {1} /\ <<event>>[1] = event
      BY <3>2 DEF Own
    <3>4. Explain(<<event>>, message)
      BY <3>2, <3>3 DEF Explain
    <3> QED
      BY <3>1, <3>4 DEF TimelineExplainsStatus
  <2>3. CASE DuplicateEvent(d)
    <3> DEFINE o == delivery[d].about
               event == [type |-> "DUPLICATE_DETECTED", from |-> delivery[d].memory.status,
                         to |-> delivery[d].memory.status]
    <3>1. o \in Deliveries /\ event \in Event /\ event.type = "DUPLICATE_DETECTED"
      BY <2>0 DEF Handler, Message, Event, EventTypes
    <3>2. timeline' = [timeline EXCEPT ![o] = Append(@, event)] /\ messages' = messages
      BY <2>3 DEF DuplicateEvent
    <3> HIDE DEF event, o
    <3>3. Explain(Append(timeline[o], event), messages[o])
      BY <2>0, <3>1, MarkExplains DEF TypeOK, TimelineExplainsStatus
    <3> QED
      BY <2>0, <3>1, <3>2, <3>3 DEF TypeOK, TimelineExplainsStatus
  <2>4. CASE Transitions(d)
    <3>1. PICK status \in Statuses, type \in EventTypes \ {"DUPLICATE_DETECTED",
                                                           "RELATED_ENTITY_CREATED"},
               pc \in Stages, answer \in Answers : Transition(d, status, type, pc, answer)
      <4>1. /\ {"VALIDATING", "VALIDATED", "VALIDATION_FAILED", "PROCESSING", "FAILED",
                "COMPLETED"} \subseteq Statuses
            /\ {"VALIDATION_STARTED", "VALIDATION_PASSED", "VALIDATION_FAILED",
                "PROCESSING_STARTED", "FAILED", "COMPLETED"}
                  \subseteq EventTypes \ {"DUPLICATE_DETECTED", "RELATED_ENTITY_CREATED"}
            /\ {"validating", "validated", "processing", "done"} \subseteq Stages
            /\ {"none", "invalid", "failed", "receipt"} \subseteq Answers
        BY DEF Statuses, EventTypes, Stages, Answers
      <4> QED
        BY <2>4, <4>1 DEF Transitions, StartValidation, ValidationPassed, ValidationFailed,
           StartProcessing, MarkFailed, Complete
    <3>2. delivery[d].pc \in Working
      BY <2>4 DEF Transitions, StartValidation, ValidationPassed, ValidationFailed,
         StartProcessing, MarkFailed, Complete, Working
    <3>3. delivery[d].memory = messages[d] /\ messages[d] \in Message
      BY <2>0, <3>2 DEF Fits, OwnMessage, TypeOK
    <3> DEFINE message == [messages[d] EXCEPT !.status = status]
    <3>4. /\ message \in Message /\ message.status = status
          /\ message.entity = messages[d].entity /\ status # "NONE"
      BY <3>3 DEF Message, Statuses
    <3>5. Persist(d, TRUE, type, messages[d].status, message)
      BY <3>1, <3>3 DEF Transition
    <3> HIDE DEF message
    <3> QED
      BY <3>1, <3>2, <3>4, <3>5, PersistExplains
  <2>5. CASE Link(d)
    <3>1. /\ delivery[d].pc \in Working /\ delivery[d].memory = messages[d]
          /\ messages[d] \in Message /\ messages[d].status = "PROCESSING"
      BY <2>0, <2>5 DEF Link, Fits, OwnMessage, Working, StatusAt, TypeOK
    <3> DEFINE message == [messages[d] EXCEPT !.entity = d]
    <3>2. /\ message \in Message /\ message.status = messages[d].status
          /\ message.entity # None /\ message.status # "NONE"
      BY <3>1, NamesAssumption DEF Message
    <3>3. Persist(d, TRUE, "RELATED_ENTITY_CREATED", messages[d].status, message)
      BY <2>5, <3>1, <3>2 DEF Link
    <3>4. "RELATED_ENTITY_CREATED" \in EventTypes \ {"DUPLICATE_DETECTED"}
      BY DEF EventTypes
    <3> HIDE DEF message
    <3> QED
      BY <3>1, <3>2, <3>3, <3>4, PersistExplains
  <2> QED
    BY <1>2, <2>1, <2>2, <2>3, <2>4, <2>5 DEF Step, Transitions
<1> QED
  BY <1>1, <1>2 DEF Next, vars

\* Whatever else is delivered meanwhile and wherever a delivery breaks off, the timeline of a
\* message tells how it came to be as it is.
THEOREM TimelinesExplain == Spec => []TimelineExplainsStatus
<1>1. Init => TimelineExplainsStatus
  <2> SUFFICES ASSUME Init, NEW m \in Deliveries PROVE Explain(timeline[m], messages[m])
    BY DEF TimelineExplainsStatus
  <2>1. timeline[m] = <<>> /\ messages[m].status = "NONE" /\ messages[m].entity = None
    BY DEF Init, NoMessage
  <2>2. Own(<<>>) = {}
    BY DEF Own
  <2> QED
    BY <2>1, <2>2 DEF Explain
<1> QED
  BY <1>1, TimelineStep, Invariance, PTL DEF Spec

=============================================================================
