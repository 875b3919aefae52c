------------------------- MODULE MC_TargetDescriptor -------------------------
(***************************************************************************)
(* Ad hoc names for TLC: two differ only in case, one is also a plugin's  *)
(* name; the clash set holds the name of a default description.           *)
(***************************************************************************)
EXTENDS TargetDescriptor

MCAdhocNames == {"board", "Board", "rig"}
MCClashNames == {"board", "generic_linux"}
MCCaseless(n) == IF n = "Board" THEN "board" ELSE n

(* assistant.parameters (wa.framework.target.assistant): one name each.   *)
MCAssistantParams(a) == IF a = "AndroidAssistant" THEN {"android_opt"} ELSE {"linux_opt"}
=============================================================================
