---------------------------- MODULE MCAsyncSink ----------------------------
(***************************************************************************)
(* Instance of AsyncSink for TLC.  Two producers are the endpoints of a    *)
(* relay that shares one sink.  The configured texts are one that is       *)
(* lower-cased to "block" and one that is not known and means "drop".      *)
(***************************************************************************)
EXTENDS AsyncSink

PolicyTexts == {"Block", "newest"}
=============================================================================
