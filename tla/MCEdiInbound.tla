---------------------------- MODULE MCEdiInbound ----------------------------
(***************************************************************************)
(* The instance of EdiInbound that TLC checks: what three deliveries       *)
(* carry.  The first is a document of one partner under an external id;    *)
(* the second repeats it, or comes from another partner that uses the same *)
(* id; the third is any of these, or a document without an id.  Which      *)
(* delivery comes first is left open, so that nothing is lost by fixing    *)
(* who repeats whom.                                                       *)
(***************************************************************************)
EXTENDS EdiInbound

CONSTANTS S1, S2, X1

First == [sender |-> S1, ext |-> X1]
Other == [sender |-> S2, ext |-> X1]
Anonymous == [sender |-> S1, ext |-> NoExt]

CONSTANTS D1, D2, D3

Mail == [d \in Deliveries |-> CASE d = D1 -> {First}
                                [] d = D2 -> {First, Other}
                                [] OTHER -> {First, Other, Anonymous}]

=============================================================================
