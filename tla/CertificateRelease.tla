------------------------- MODULE CertificateRelease -------------------------
(***************************************************************************)
(* What Certificate Fulfilment promises to a customer and to Operations:   *)
(* a request is opened once, ready for download or held; a ready one may   *)
(* be prepared for download again and again until it is held; a held one   *)
(* stays held and is never prepared again.                                 *)
(***************************************************************************)
EXTENDS Naturals

CONSTANT Ids

VARIABLES
  status,    \* status[i]: "none", "ready" or "held"
  prepared   \* prepared[i]: downloads of request i announced in its audit

releaseVars == <<status, prepared>>

Init ==
  /\ status = [i \in Ids |-> "none"]
  /\ prepared = [i \in Ids |-> 0]

Open(i) ==
  /\ status[i] = "none"
  /\ \E s \in {"ready", "held"} : status' = [status EXCEPT ![i] = s]
  /\ UNCHANGED prepared

Prepare(i) ==
  /\ status[i] = "ready"
  /\ prepared' = [prepared EXCEPT ![i] = @ + 1]
  /\ UNCHANGED status

Hold(i) ==
  /\ status[i] = "ready"
  /\ status' = [status EXCEPT ![i] = "held"]
  /\ UNCHANGED prepared

Next == \E i \in Ids : Open(i) \/ Prepare(i) \/ Hold(i)

Spec == Init /\ [][Next]_releaseVars

=============================================================================
