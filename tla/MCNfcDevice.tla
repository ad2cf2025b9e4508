---------------------------- MODULE MCNfcDevice ----------------------------
(***************************************************************************)
(* Instances of NfcDevice for TLC: which types are configured and how.     *)
(***************************************************************************)
EXTENDS NfcDevice

AllTypes == {OTG_NFC, SER_NFC, OTG_NFC_ANDROID, NFC_AUTO_DEV, UNKNOWN_NFC}
OtgTypes == {OTG_NFC, OTG_NFC_ANDROID}
Either   == {TRUE, FALSE}
Failing  == {"plug", "silent"}
Nothing  == {}
=============================================================================
