----------------------------- MODULE MCAssetSync -----------------------------
(* Two connections, two assets, two targets, two contents, one of them also   *)
(* a pin.                                                                     *)
EXTENDS AssetSync

CONSTANTS hero, icons, t1, t2, v1, v2, c1, c2
============================================================================
