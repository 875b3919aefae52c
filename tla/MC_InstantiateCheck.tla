------------------------- MODULE MC_InstantiateCheck -------------------------
(***************************************************************************)
(* User parameter names that hit every routing case of instantiate_target: *)
(* declared by target and platform (modules), by the target only with a    *)
(* truthy default (max_async), by the platform only (core_names), by the   *)
(* connection only (port, not on every connection), deprecated (telnet, on *)
(* ssh), the Android assistant's, adb_name (an alias of device, Adb only) *)
(* and unknown.  Extra platform names with a default (baudrate on juno    *)
(* and tc2) and without one (model).                                       *)
(***************************************************************************)
EXTENDS InstantiateCheck

MCUserParams == {"modules", "max_async", "core_names", "port", "telnet", "android_opt", "adb_name", "bogus"}
MCExtraParams == {"model", "baudrate"}

(* juno given a target default, as the comment at lines 726-729 invites.  *)
MCJunoTargetDefault(p) ==
    IF p = "juno" THEN << Prm("max_async", TRUE, 0) >> ELSE << >>

(* assistant.parameters (wa.framework.target.assistant): one name each.   *)
MCAssistantParams(a) == IF a = "AndroidAssistant" THEN {"android_opt"} ELSE {"linux_opt"}
=============================================================================
