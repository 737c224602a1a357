--------------------------- MODULE MCCurrentStock ---------------------------
(* Three listed stocks of two companies and a symbol that is not listed. *)
EXTENDS CurrentStock

MCCompany == [s \in Listed |-> IF s = "TEL" THEN "PLDT" ELSE "Ayala"]
=============================================================================
