---------------------------- MODULE MCLineEditor ----------------------------
(* LineEditor with short lines and a short history. *)
EXTENDS LineEditor

OneLetter == {"a"}
=============================================================================
