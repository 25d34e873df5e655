------------------------- MODULE MCAppMsgProcessor -------------------------
(* Two orderers: one sends a message of three chunks, the other one of two *)
(* chunks and a single-chunk message that fails the signature check.       *)
EXTENDS AppMsgProcessorSpec, TLC

CONSTANTS a1, a2, m3, m2, m1, junk

MCAppOf == (m3 :> a1) @@ (m2 :> a2) @@ (m1 :> a2)
MCCountOf == (m3 :> 3) @@ (m2 :> 2) @@ (m1 :> 1)
MCVerify(m) == m \notin {m1, junk}

(* No chunks at all, an index past the end, a count that disagrees with    *)
(* the other chunks of its message, and one with an index past theirs.     *)
MCMalformed ==
  {[key |-> m2, app |-> a2, count |-> 0, index |-> 0, body |-> junk],
   [key |-> m2, app |-> a2, count |-> 2, index |-> 2, body |-> junk],
   [key |-> m3, app |-> a1, count |-> 4, index |-> 0, body |-> junk],
   [key |-> m2, app |-> a2, count |-> 3, index |-> 2, body |-> junk]}
=============================================================================
