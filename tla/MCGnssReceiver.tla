----------------------------- MODULE MCGnssReceiver ----------------------------
(***************************************************************************)
(* Bytes of five values and frames of eleven, chosen so that the checksum  *)
(* of one of them looks like the start of a frame.  A tick reads ten       *)
(* bytes, so that frames are read in parts.                                *)
(***************************************************************************)
EXTENDS GnssReceiver

================================================================================
