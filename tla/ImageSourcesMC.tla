---------------------------- MODULE ImageSourcesMC ----------------------------
(* Photos and files on Google Drive.                                       *)
EXTENDS ImageSources
=============================================================================
