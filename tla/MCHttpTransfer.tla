--------------------------- MODULE MCHttpTransfer ---------------------------
(***************************************************************************)
(* HttpTransfer with short texts for TLC, one of them with a NUL inside.   *)
(***************************************************************************)
EXTENDS HttpTransfer

CONSTANTS a, b

MCPayload == {<<>>, <<a>>, <<a, b>>, <<b, NUL, a>>}
MCHeaderLine == << <<b>>, <<a, b>> >>
=============================================================================
