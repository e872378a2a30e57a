---------------------------- MODULE MCNativeHost ----------------------------
(* NativeHost for TLC.                                                      *)
EXTENDS NativeHost
====
