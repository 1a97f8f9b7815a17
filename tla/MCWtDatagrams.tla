--------------------------- MODULE MCWtDatagrams ---------------------------
(* Three sessions, one of which loses its control stream.                  *)
EXTENDS WtDatagrams
=============================================================================
