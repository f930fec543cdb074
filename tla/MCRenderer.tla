----------------------------- MODULE MCRenderer -----------------------------
(* TLC instance of Renderer: a tunnel savedSession can tell, and a public   *)
(* server, which it cannot.                                                 *)
EXTENDS Renderer

CONSTANTS private, public

Order == <<private, public>>
=============================================================================
