--------------------------- MODULE TargetTables -----------------------------
(***************************************************************************)
(* wa/framework/target/descriptor.py: the parameter tables, the            *)
(* descriptions DefaultTargetDescriptor derives from them (one per target *)
(* and supported platform) and instantiate_target's routing of the        *)
(* parameters a user gives.                                                *)
(*                                                                         *)
(* A Parameter is abstracted to its name, whether its default is truthy,  *)
(* whether it is deprecated, its aliases, and the line of the Parameter(   *)
(* call that made it (its identity).  None and [] are both << >>.  Classes *)
(* are names.                                                              *)
(***************************************************************************)
EXTENDS Naturals, Sequences, SequencesExt

CONSTANT AssistantParams(_)  \* an assistant class -> names of its parameters

Prm(n, d, l) == [name |-> n, dflt |-> d, dep |-> FALSE, aliases |-> {}, at |-> l]
Dep(n, l) == [name |-> n, dflt |-> FALSE, dep |-> TRUE, aliases |-> {}, at |-> l]

CommonTargetParams ==
    << Prm("working_directory", FALSE, 219), Prm("executables_directory", FALSE, 225),
       Prm("modules", FALSE, 232), Prm("load_default_modules", TRUE, 245),
       Prm("shell_prompt", TRUE, 257), Prm("max_async", TRUE, 262) >>

CommonPlatformParams ==
    << Prm("core_names", FALSE, 270), Prm("core_clusters", FALSE, 275),
       Prm("big_core", FALSE, 282), Prm("model", FALSE, 289),
       Prm("modules", FALSE, 294) >>

VexpressPlatformParams ==
    << Prm("serial_port", FALSE, 301), Prm("baudrate", FALSE, 306),
       Prm("vemsd_mount", FALSE, 310), Prm("bootloader", FALSE, 317),
       Prm("hard_reset_method", FALSE, 325) >>

Gem5PlatformParams ==
    << Prm("gem5_bin", FALSE, 338), Prm("gem5_args", FALSE, 342),
       Prm("gem5_virtio", FALSE, 346), Prm("name", TRUE, 351) >>

(* CONNECTION_PARAMS, with the ChromeOS entry Adb's list then Ssh's.      *)
AdbParams ==
    << [Prm("device", FALSE, 360) EXCEPT !.aliases = {"adb_name"}], Prm("adb_server", FALSE, 366),
       Prm("adb_port", FALSE, 371), Prm("poll_transfers", TRUE, 376),
       Prm("start_transfer_poll_delay", TRUE, 383),
       Prm("total_transfer_timeout", TRUE, 391),
       Prm("transfer_poll_period", TRUE, 398), Prm("adb_as_root", FALSE, 407) >>
SshParams ==
    << Prm("host", FALSE, 415), Prm("username", FALSE, 420),
       Prm("password", FALSE, 425), Prm("keyfile", FALSE, 432),
       Prm("port", TRUE, 437), Prm("strict_host_check", FALSE, 443),
       Prm("sudo_cmd", TRUE, 448), Prm("use_scp", FALSE, 456),
       Prm("poll_transfers", TRUE, 463), Prm("start_transfer_poll_delay", TRUE, 470),
       Prm("total_transfer_timeout", TRUE, 478), Prm("transfer_poll_period", TRUE, 485),
       Dep("telnet", 495), Dep("password_prompt", 501), Dep("original_prompt", 507) >>
ConnectionParams(c) ==
    CASE c = "AdbConnection" -> AdbParams
      [] c = "SshConnection" -> SshParams
      [] c = "TelnetConnection" ->
            << Prm("host", FALSE, 515), Prm("username", FALSE, 520),
               Prm("password", FALSE, 525), Prm("port", FALSE, 530),
               Prm("password_prompt", FALSE, 535), Prm("original_prompt", FALSE, 540),
               Prm("sudo_cmd", TRUE, 545) >>
      [] c = "Gem5Connection" ->
            << Prm("host", FALSE, 555), Prm("username", TRUE, 560),
               Prm("password", FALSE, 565), Prm("port", FALSE, 570),
               Prm("password_prompt", FALSE, 575), Prm("original_prompt", FALSE, 580) >>
      [] c = "LocalConnection" ->
            << Prm("password", FALSE, 587), Prm("keep_password", TRUE, 593),
               Prm("unrooted", FALSE, 600) >>
      [] c = "ChromeOsConnection" -> AdbParams \o SshParams

(* TARGETS: name -> ((class, connection, unsupported platforms), params,  *)
(* defaults), iterated in this order.                                      *)
TargetOrder == <<"linux", "android", "chromeos", "local">>
Targets(t) ==
    LET pkg == Prm("package_data_directory", TRUE, IF t = "android" THEN 620 ELSE 627)
    IN CASE t = "linux" -> [cls |-> "LinuxTarget", conn |-> "SshConnection",
                            unsupported |-> {}, params |-> CommonTargetParams, defaults |-> << >>]
         [] t = "android" -> [cls |-> "AndroidTarget", conn |-> "AdbConnection",
                            unsupported |-> {}, params |-> CommonTargetParams \o <<pkg>>,
                            defaults |-> << >>]
         [] t = "chromeos" -> [cls |-> "ChromeOsTarget", conn |-> "ChromeOsConnection",
                            unsupported |-> {},
                            params |-> CommonTargetParams \o
                                << pkg, Prm("android_working_directory", FALSE, 631),
                                   Prm("android_executables_directory", FALSE, 637) >>,
                            defaults |-> << >>]
         [] t = "local" -> [cls |-> "LocalLinuxTarget", conn |-> "LocalConnection",
                            unsupported |-> {"Juno", "Gem5SimulationPlatform", "TC2"},
                            params |-> CommonTargetParams, defaults |-> << >>]

Assistants(t) == IF t = "android" THEN "AndroidAssistant"
                 ELSE IF t = "chromeos" THEN "ChromeOsAssistant" ELSE "LinuxAssistant"

JunoOverrides ==
    << Prm("baudrate", TRUE, 661), Prm("vemsd_mount", TRUE, 665),
       Prm("bootloader", TRUE, 672), Prm("hard_reset_method", TRUE, 680) >>
Tc2Overrides ==
    << Prm("baudrate", TRUE, 692), Prm("vemsd_mount", TRUE, 696),
       Prm("bootloader", TRUE, 703), Prm("hard_reset_method", TRUE, 711) >>

(* PLATFORMS: name -> ((class, connection, connection defaults), params,  *)
(* defaults, target defaults), iterated in this order.                     *)
PlatformOrder == <<"generic", "juno", "tc2", "gem5">>

(* The last element of every PLATFORMS tuple, None: no platform overrides *)
(* a target parameter (lines 726-729 say how one would).                   *)
PlatformTargetDefaults(p) == << >>
Platforms(p) ==
    LET vx == CommonPlatformParams \o VexpressPlatformParams IN
    CASE p = "generic" -> [cls |-> "Platform", conn |-> "None", connDefaults |-> << >>,
                           params |-> CommonPlatformParams, defaults |-> << >>,
                           targetDefaults |-> PlatformTargetDefaults(p)]
      [] p = "juno" -> [cls |-> "Juno", conn |-> "None",
                        connDefaults |-> << Prm("host", FALSE, 734) >>,
                        params |-> vx, defaults |-> JunoOverrides, targetDefaults |-> PlatformTargetDefaults(p)]
      [] p = "tc2" -> [cls |-> "TC2", conn |-> "None", connDefaults |-> << >>,
                       params |-> vx, defaults |-> Tc2Overrides, targetDefaults |-> PlatformTargetDefaults(p)]
      [] p = "gem5" -> [cls |-> "Gem5SimulationPlatform", conn |-> "Gem5Connection",
                        connDefaults |-> << >>, params |-> Gem5PlatformParams,
                        defaults |-> << >>, targetDefaults |-> PlatformTargetDefaults(p)]

-----------------------------------------------------------------------------
(* Mutant: the assignment of line 801 lost; overrides never replace.      *)
OverrideDropsAssignment(params, overrides) ==
    LET firsts == SelectSeq([i \in DOMAIN params |-> i],
                            LAMBDA i : \A j \in 1..i - 1 : params[j].name # params[i].name)
        pick(n) == params[Max({k \in DOMAIN params : params[k].name = n})]
    IN  IF overrides = << >> THEN params
        ELSE [k \in DOMAIN firsts |-> pick(params[firsts[k]].name)]

(* _override_params, lines 792-803: without overrides the list itself;    *)
(* else a dict by name (first position, last parameter of that name), in  *)
(* which an override replaces the parameter of its name.                   *)
Override(params, overrides) ==
    LET firsts == SelectSeq([i \in DOMAIN params |-> i],
                            LAMBDA i : \A j \in 1..i - 1 : params[j].name # params[i].name)
        pick(n) == LET ov == {k \in DOMAIN overrides : overrides[k].name = n}
                       ps == {k \in DOMAIN params : params[k].name = n}
                   IN  IF ov # {} THEN overrides[Max(ov)] ELSE params[Max(ps)]
    IN  IF overrides = << >> THEN params
        ELSE [k \in DOMAIN firsts |-> pick(params[firsts[k]].name)]

(* DefaultTargetDescriptor.get_descriptions with _get_item, lines 758-790 *)
(* and 807-816.  target_params is one local of the outer loop: line 772   *)
(* assigns it, so a platform's target defaults stay for the platforms     *)
(* after it.  An unsupported platform is skipped before that line.         *)
DefaultDescriptions ==
    LET perTarget(acc, t) ==
          LET T == Targets(t)
              step(st, p) ==
                LET P  == Platforms(p)
                    tp == Override(st.tp, P.targetDefaults)
                    cn == IF P.conn # "None" THEN P.conn ELSE T.conn
                IN  IF P.cls \in T.unsupported THEN st
                    ELSE [tp |-> tp,
                          out |-> Append(st.out,
                                   [name |-> p \o "_" \o t, pname |-> p, tname |-> t,
                                    target |-> T.cls,
                                    platform |-> P.cls, assistant |-> Assistants(t),
                                    tparams |-> tp,
                                    pparams |-> Override(P.params, P.defaults),
                                    conn |-> cn, connection |-> "None",
                                    cparams |-> Override(ConnectionParams(cn), P.connDefaults)])]
          IN  FoldLeft(step, [tp |-> Override(T.params, T.defaults), out |-> acc],
                       PlatformOrder).out
    IN  FoldLeft(perTarget, << >>, TargetOrder)

DefaultNames == {DefaultDescriptions[i].name : i \in DOMAIN DefaultDescriptions}

-----------------------------------------------------------------------------
(* The keys a parameter is found under: its name and its aliases.        *)
Keys(p) == {p.name} \cup p.aliases

(* get_config_point_map as instantiate_target uses it, lines 76-79: every *)
(* key of a parameter -> the parameter, a later parameter of a key        *)
(* winning.  Line 87 tells an alias key (name # value.name) from a name.  *)
ConfigPointMap(ps) ==
    [n \in UNION {Keys(ps[i]) : i \in DOMAIN ps} |->
        ps[CHOOSE i \in DOMAIN ps : n \in Keys(ps[i])
                     /\ \A j \in DOMAIN ps : n \in Keys(ps[j]) => j <= i]]

(* A dict built from f then updated from g's missing keys: the keys of f *)
(* win (TLC's @@, written out).                                            *)
DictUnion(f, g) ==
    [x \in DOMAIN f \cup DOMAIN g |-> IF x \in DOMAIN f THEN f[x] ELSE g[x]]

(* Mutant: the defaults loop (lines 85-88) run after the user's values.  *)
InstantiateDefaultsLast(d, sup, ex, connect) ==
    LET tm == ConfigPointMap(d.tparams)
        pm == ConfigPointMap(d.pparams)
        cm == ConfigPointMap(d.cparams)
        dflt(m) == [n \in {x \in DOMAIN m : m[x].dflt /\ x = m[x].name} |-> "default"]
        toT == {n \in sup \cap DOMAIN tm : ~tm[n].dep}
        toP == {n \in (sup \cap DOMAIN pm) \ DOMAIN tm : ~pm[n].dep}
        toC == {n \in (sup \cap DOMAIN cm) \ (DOMAIN tm \cup DOMAIN pm) : ~cm[n].dep}
        pp == DictUnion(dflt(pm), [n \in toP |-> "user"])
        cp == DictUnion(dflt(cm), [n \in toC |-> "user"])
    IN
    IF sup \ (DOMAIN tm \cup DOMAIN pm \cup DOMAIN cm \cup AssistantParams(d.assistant)) # {}
    THEN [err |-> "ValueError"]
    ELSE IF ex \cap DOMAIN pp # {} THEN [err |-> "RuntimeError"]
    ELSE [tp |-> DictUnion(dflt(tm), [n \in toT |-> "user"]),
          platform |-> DictUnion([n \in ex |-> "extra"], pp),
          settings |-> cp, connCls |-> d.connection, connect |-> connect]

(* instantiate_target, lines 70-119, for description d, the names sup     *)
(* supplied by the user, the extra platform parameters ex and connect.    *)
(* Values: "user", "extra", "default".  Lines 85-88 put the truthy        *)
(* defaults in, lines 90-104 route each supplied name to the first of     *)
(* target, platform and connection declaring it (dropped if deprecated    *)
(* there, ignored if only the assistant declares it, ValueError if no one *)
(* does), lines 106-109 add the extras unless the platform dict has the   *)
(* name already.  Lines 114-115 pass conn_cls only when the description  *)
(* has a truthy connection attribute, which the default descriptions     *)
(* leave None (line 170): their connection class is in td.conn, lines     *)
(* 783/787.  connCls "None" stands for no conn_cls argument.               *)
Instantiate(d, sup, ex, connect) ==
    LET tm == ConfigPointMap(d.tparams)
        pm == ConfigPointMap(d.pparams)
        cm == ConfigPointMap(d.cparams)
        dflt(m) == [n \in {x \in DOMAIN m : m[x].dflt /\ x = m[x].name} |-> "default"]
        toT == {n \in sup \cap DOMAIN tm : ~tm[n].dep}
        toP == {n \in (sup \cap DOMAIN pm) \ DOMAIN tm : ~pm[n].dep}
        toC == {n \in (sup \cap DOMAIN cm) \ (DOMAIN tm \cup DOMAIN pm) : ~cm[n].dep}
        pp == DictUnion([n \in toP |-> "user"], dflt(pm))
        cp == DictUnion([n \in toC |-> "user"], dflt(cm))
    IN
    IF sup \ (DOMAIN tm \cup DOMAIN pm \cup DOMAIN cm \cup AssistantParams(d.assistant)) # {}
    THEN [err |-> "ValueError"]
    ELSE IF ex \cap DOMAIN pp # {} THEN [err |-> "RuntimeError"]
    ELSE [tp |-> DictUnion([n \in toT |-> "user"], dflt(tm)),
          platform |-> DictUnion([n \in ex |-> "extra"], pp),
          settings |-> cp, connCls |-> d.connection, connect |-> connect]
=============================================================================
