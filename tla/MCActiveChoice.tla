--------------------------- MODULE MCActiveChoice ---------------------------
(***************************************************************************)
(* Two proxies to choose between and one request at a time.                *)
(***************************************************************************)
EXTENDS ActiveChoice

CONSTANTS p1, p2, c1
=============================================================================
