---------------------------- MODULE MCSuperblock ----------------------------
(* The instances of the Superblock runs: see the Superblock*.cfg files.    *)
EXTENDS Superblock
=============================================================================
