-------------------------------- MODULE Run --------------------------------
(***************************************************************************)
(* What a run promises to whoever started it: it says things, one listener *)
(* hears them, and it ends once, with an outcome that everything it said   *)
(* preceded.                                                               *)
(***************************************************************************)
EXTENDS Naturals

VARIABLES
    requested,   \* somebody asked for cancellation
    listening,   \* the listener has not failed
    unheard,     \* number of things said and not yet heard, none once nobody listens
    outcome      \* "none", "done", "cancelled" or "error"

abstractVars == <<requested, listening, unheard, outcome>>

RunInit == requested = FALSE /\ listening = TRUE /\ unheard = 0 /\ outcome = "none"

Request  == requested' = TRUE /\ UNCHANGED <<listening, unheard, outcome>>
Say ==
    /\ outcome = "none" /\ listening /\ unheard' = unheard + 1
    /\ UNCHANGED <<requested, listening, outcome>>
Hear     == unheard > 0 /\ unheard' = unheard - 1 /\ UNCHANGED <<requested, listening, outcome>>
StopListening == listening' = FALSE /\ unheard' = 0 /\ UNCHANGED <<requested, outcome>>

(* The end: everything was heard, or the listener has failed and the run   *)
(* is an error; only a run somebody wanted to stop is cancelled.           *)
Finish ==
    /\ outcome = "none" /\ outcome' \in {"done", "cancelled", "error"}
    /\ unheard = 0
    /\ ~listening => outcome' = "error"
    /\ outcome' = "cancelled" => requested
    /\ UNCHANGED <<requested, listening, unheard>>

RunNext == Request \/ Say \/ Hear \/ StopListening \/ Finish

RunSafety == RunInit /\ [][RunNext]_abstractVars

(* A run that is asked to stop does end.                                   *)
RunStops == requested ~> outcome # "none"
=============================================================================
