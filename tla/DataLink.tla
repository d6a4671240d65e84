------------------------------ MODULE DataLink ------------------------------
(***************************************************************************)
(* What compression and decompression promise together: a link that takes  *)
(* one chunk after another from the instrument and delivers each of them   *)
(* once and unchanged.  A failure may lose the trust in the model both     *)
(* sides keep; until an entity restores it, what is delivered is anything. *)
(***************************************************************************)
EXTENDS Naturals

CONSTANT Nothing

VARIABLES n,       \* the number of the chunk
          place,   \* where it is
          sent,    \* what entered the link
          got,     \* what came out of it
          trusted  \* both sides have the same model

vars == <<n, place, sent, got, trusted>>

Init == n = 1 /\ place = "instrument" /\ sent = Nothing /\ got = Nothing /\ trusted = TRUE

Fail ==
  /\ place = "instrument"
  /\ trusted' \in {trusted, FALSE}
  /\ UNCHANGED <<n, place, sent, got>>

\* Anything may be sent; an entity that needs no model is trusted.
Send ==
  /\ place = "instrument" /\ place' = "transit"
  /\ sent' # Nothing
  /\ trusted' \in {trusted, TRUE}
  /\ UNCHANGED <<n, got>>

Deliver ==
  /\ place = "transit" /\ place' = "ground"
  /\ trusted => got' = sent
  /\ UNCHANGED <<n, sent, trusted>>

Done ==
  /\ place = "ground" /\ place' = "instrument"
  /\ n' = n + 1 /\ sent' = Nothing /\ got' = Nothing
  /\ UNCHANGED trusted

Next == Fail \/ Send \/ Deliver \/ Done

Spec == Init /\ [][Next]_vars
=============================================================================
