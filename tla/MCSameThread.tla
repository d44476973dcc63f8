---------------------------- MODULE MCSameThread ----------------------------
(***************************************************************************)
(* Instances of SameThread for TLC: two processes whose calls and          *)
(* callbacks share the C stack.                                            *)
(***************************************************************************)
EXTENDS SameThread
==============================================================================
