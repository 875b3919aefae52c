-------------------------- MODULE InstantiateCheck --------------------------
(***************************************************************************)
(* instantiate_target for every default description, every set of at      *)
(* most MaxSupplied user parameter names, every set of extra platform     *)
(* parameters and both values of connect: Init chooses the call, Evaluate *)
(* makes it once.                                                          *)
(***************************************************************************)
EXTENDS TargetTables, FiniteSets

CONSTANTS UserParams, ExtraParams, MaxSupplied, Pending

VARIABLES desc, sup, ex, connect, out

vars == <<desc, sup, ex, connect, out>>

Init ==
    /\ desc \in DOMAIN DefaultDescriptions
    /\ sup \in {s \in SUBSET UserParams : Cardinality(s) <= MaxSupplied}
    /\ ex \in SUBSET ExtraParams
    /\ connect \in {"None", "True"}
    /\ out = Pending

Evaluate ==
    /\ out = Pending
    /\ out' = Instantiate(DefaultDescriptions[desc], sup, ex, connect)
    /\ UNCHANGED <<desc, sup, ex, connect>>

Spec == Init /\ [][Evaluate]_vars

-----------------------------------------------------------------------------
(* The parameter that governs each name of a list once overrides apply:   *)
(* the override of that name if there is one, else the last parameter of *)
(* the name in the list.                                                   *)
Governing(base, ovs) ==
    [n \in {base[i].name : i \in DOMAIN base} |->
        LET src == IF \E k \in DOMAIN ovs : ovs[k].name = n THEN ovs ELSE base
        IN  src[CHOOSE k \in DOMAIN src : src[k].name = n
                     /\ \A j \in DOMAIN src : src[j].name = n => j <= k]]

(* The description instantiate_target was given for "<p>_<t>" carries    *)
(* the tables' target, platform and connection parameters with the        *)
(* target's and THIS platform's overrides only, as the comment at lines   *)
(* 726-729 describes target overrides ("for a particular platform"); and *)
(* the pair has a description only if t supports p.                        *)
DescriptionsMatchTables ==
    out # Pending =>
        LET d  == DefaultDescriptions[desc]
            T  == Targets(d.tname)
            P  == Platforms(d.pname)
            cn == IF P.conn # "None" THEN P.conn ELSE T.conn
        IN  /\ P.cls \notin T.unsupported
            /\ Governing(d.tparams, << >>)
                 = Governing(T.params, T.defaults \o P.targetDefaults)
            /\ Governing(d.pparams, << >>) = Governing(P.params, P.defaults)
            /\ d.conn = cn
            /\ Governing(d.cparams, << >>) = Governing(ConnectionParams(cn), P.connDefaults)

(* instantiate_target gives each supplied parameter the user's value in   *)
(* the first of target, platform and connection that declares it, unless *)
(* deprecated there; a default never replaces a supplied value, and a     *)
(* truthy default is present under its name whenever nothing was supplied.*)
InstantiateHonoursParams ==
    out # Pending /\ "err" \notin DOMAIN out =>
        LET d == DefaultDescriptions[desc]
            o == out
            tm == ConfigPointMap(d.tparams)
            pm == ConfigPointMap(d.pparams)
        IN  /\ \A n \in sup \cap DOMAIN tm :
                  ~tm[n].dep => n \in DOMAIN o.tp /\ o.tp[n] = "user"
            /\ \A n \in (sup \cap DOMAIN pm) \ DOMAIN tm :
                  ~pm[n].dep => n \in DOMAIN o.platform /\ o.platform[n] = "user"
            /\ \A n \in DOMAIN tm \ sup :
                  tm[n].dflt /\ n = tm[n].name => n \in DOMAIN o.tp /\ o.tp[n] = "default"
=============================================================================
