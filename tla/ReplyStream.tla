---------------------------- MODULE ReplyStream ----------------------------
(***************************************************************************)
(* What a chat turn promises the surface that shows it.                    *)
(*                                                                         *)
(* The reply is produced in attempts, one per model response.  The text of *)
(* an attempt is provisional: the surface appends fragments to the bubble  *)
(* it shows and may be told to discard the bubble, but only as a whole,    *)
(* and the next attempt starts from an empty bubble.  So no fragment of a  *)
(* discarded answer survives beside the text of the accepted one.          *)
(*                                                                         *)
(* ToolLoop implements this specification: see Reply in that module.       *)
(***************************************************************************)
EXTENDS Naturals

VARIABLES
  shown,     \* the fragments in the bubble: their places in it and their attempts
  attempt,   \* the attempt that is being generated
  outcome    \* "open" until the turn ends, then "ok" or "failed"

replyVars == <<shown, attempt, outcome>>

ReplyInit ==
  /\ shown = {}
  /\ attempt = 0
  /\ outcome = "open"

\* A fragment of the current attempt reaches the end of the bubble.
Show ==
  /\ outcome = "open"
  /\ \E new \in shown' :
       /\ shown' = shown \cup {new}
       /\ new.attempt = attempt
       /\ \A old \in shown : old.place < new.place
  /\ UNCHANGED <<attempt, outcome>>

Discard ==
  /\ outcome = "open"
  /\ shown' = {}
  /\ UNCHANGED <<attempt, outcome>>

\* The attempt was not an answer and the next begins, from an empty bubble.
NextAttempt ==
  /\ outcome = "open"
  /\ shown = {}
  /\ attempt' = attempt + 1
  /\ UNCHANGED <<shown, outcome>>

Finish ==
  /\ outcome = "open"
  /\ outcome' \in {"ok", "failed"}
  /\ UNCHANGED <<shown, attempt>>

ReplyNext == Show \/ Discard \/ NextAttempt \/ Finish

ReplySpec == ReplyInit /\ [][ReplyNext]_replyVars

=============================================================================
