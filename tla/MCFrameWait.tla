----------------------------- MODULE MCFrameWait ------------------------------
(* A native session, an oracle session and one that mixes the steppers,     *)
(* through the boot's waits in their order and through main-loop frames.    *)
EXTENDS FrameWait

MCSteppers == <<{"native"}, {"oracle"}, {"native", "oracle"}>>

Suffixes(q) == {SubSeq(q, i, Len(q)) : i \in 1 .. Len(q)}

MCScripts ==
  UNION {Suffixes(<<t, "early", "main", "main", "main">>) :
           t \in {"texture", "released"}}
================================================================================
