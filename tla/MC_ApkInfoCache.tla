-------------------------- MODULE MC_ApkInfoCache --------------------------
(* Model-checking instance of ApkInfoCache: the process and APK sets are   *)
(* model values given in the .cfg files, the bounds are definitions here.  *)
EXTENDS ApkInfoCache

MCMaxVer    == 2
MCMaxTime   == 3
MCMaxWrites == 3
=============================================================================
