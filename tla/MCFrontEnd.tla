----------------------------- MODULE MCFrontEnd -----------------------------
(* Instances of FrontEnd for TLC.                                           *)
EXTENDS FrontEnd

\* Two lengths, so that the filler of a frame that was cut can end inside the next frame
\* or with it; the request "large" is over the limit.
RequestSize(m) == CASE m \in {"import", "health"} -> 2 [] m = "large" -> 3 [] OTHER -> 1
=============================================================================
