-------------------------- MODULE MCClickPipeline --------------------------
(* ClickPipeline on small instances: model values for events and codes.    *)
EXTENDS ClickPipeline

(* Of three events and two codes, two events have the same code; events are*)
(* interchangeable, and so are codes, so let all events but one have the   *)
(* same code.  This is the symmetry reduction that liveness allows.        *)
TwoAlike ==
    \A e \in Events \ {CHOOSE e \in Events : TRUE} : code[e] = CHOOSE c \in Codes : TRUE

InitTwoAlike == Init /\ TwoAlike

FairSpecTwoAlike == InitTwoAlike /\ [][Next]_vars /\ WF_vars(Worker) /\ \A e \in Events : WF_vars(Publish(e))

=============================================================================
