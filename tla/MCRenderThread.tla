--------------------------- MODULE MCRenderThread ----------------------------
(* Instances of RenderThread for TLC: frames of four lines, the picture is   *)
(* asked for on line 1.                                                      *)
EXTENDS RenderThread
==============================================================================
