--------------------------- MODULE ChatRefinement ---------------------------
(* Chat implements Admission: who is inside and who has left is read off   *)
(* where the handlers of the requests stand, the line is tokio's queue.    *)
EXTENDS Chat

Door == INSTANCE Admission
  WITH inside <- At(Holding), line <- queue, past <- At(Ended)

(* The permit travels with the request through every stage of its handler  *)
(* and through the stream: however the stages, drops and failures of the   *)
(* requests interleave, no more than Concurrency are worked on, the line   *)
(* is served in its order and nobody takes a permit past it.               *)
ImplementsAdmission == Door!Spec
=============================================================================
