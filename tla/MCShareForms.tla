---------------------------- MODULE MCShareForms ----------------------------
(* TLC instance of ShareForms: a folder share and a connection. *)
EXTENDS ShareForms, TLC

CONSTANTS folder, client

Kinds == folder :> "folder" @@ client :> "client"
=============================================================================
