--------------------------- MODULE MCOperatorCommands ---------------------------
(* Names with a slash and with a percent sign, the second the escaped form *)
(* of the first, and names that look like resources, one of them with a    *)
(* slash; each kind of object exists under some of them.                   *)
EXTENDS OperatorCommands, TLC

MCEscape == ("a/b" :> "a%2Fb") @@ ("a%2Fb" :> "a%252Fb") @@ ("a%252Fb" :> "a%25252Fb")
    @@ ("plans/1" :> "plans%2F1") @@ ("plans%2F1" :> "plans%252F1")

MCExisting ==
    ("definitions" :> {"plain", "a/b", "plans-1"}) @@ ("runs" :> {"plain", "a/b", "a%2Fb"})
    @@ ("dead-letters" :> {"a%2Fb", "plans-1"}) @@ ("plans" :> {"plain", "deletion-receipt-1"})
=============================================================================
