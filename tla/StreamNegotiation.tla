------------------------- MODULE StreamNegotiation -------------------------
(***************************************************************************)
(* What the negotiation of a stream promises whoever runs it, and however  *)
(* its goroutines are arranged (the diagram above XPart.handleFeatures):   *)
(* an offer lists exactly the features not yet resolved, and a feature is  *)
(* resolved only after it was offered, one at a time, for good.            *)
(***************************************************************************)
CONSTANTS Features,   \* what the part was given with WithFeature
          NoOffer     \* no set of features: nothing has been offered yet

VARIABLES resolved,   \* the features that answer Handled()
          offered     \* the last list of unresolvedFeatures()

Init == resolved = {} /\ offered = NoOffer

Offer == offered' = Features \ resolved /\ UNCHANGED resolved

Resolve(f) ==
    /\ offered # NoOffer
    /\ f \in offered \ resolved
    /\ resolved' = resolved \cup {f}
    /\ UNCHANGED offered

Next == Offer \/ \E f \in Features : Resolve(f)

Spec == Init /\ [][Next]_<<resolved, offered>>
=============================================================================
