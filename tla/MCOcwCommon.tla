---------------------------- MODULE MCOcwCommon ----------------------------
(* Small instances of OcwCommon for TLC: a byte has two values, so that a    *)
(* length of two or three takes more than its lowest byte.                   *)
EXTENDS OcwCommon

MCMessages == {<<>>, <<1>>, <<1, 0>>, <<1, 0, 1>>, <<1, 0, 1, 0, 0>>}
MCTrailerTexts == {<<>>, <<1>>, <<0, 1>>}
MCContentTypes ==
    {"application/grpc-web", "application/grpc-web-text+proto",
     "application/grpc-web-text", None}
=============================================================================
