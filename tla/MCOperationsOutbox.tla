------------------------- MODULE MCOperationsOutbox -------------------------
(* Small instances of OperationsOutbox.                                    *)
EXTENDS OperationsOutbox
=============================================================================
