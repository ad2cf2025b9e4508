--------------------------- MODULE MCCaptureScreen ---------------------------
(***************************************************************************)
(* Instances of CaptureScreen for TLC.                                     *)
(***************************************************************************)
EXTENDS CaptureScreen

\* Two servers, an address with port 0, and one whose port is no number.
FourServers == {Address("first", 9018), Address("second", 9019),
                Address("second", 0), Address("first", NoNumber)}
OneServer   == {Address("first", 9018)}
Everything == {"read", "gone", "photo", "unread", "other", "throws", "kill"}
NoPhoto    == {"photo"}
=============================================================================
