--------------------------- MODULE TargetDescriptor ---------------------------
(***************************************************************************)
(* Target descriptions as wa/framework/target/descriptor.py and           *)
(* wa/commands/show.py look them up: create_target_description adds ad hoc *)
(* descriptions, list_target_descriptions merges them with the default    *)
(* ones (TargetTables), get_target_description and `wa show` search the   *)
(* merged list.                                                            *)
(***************************************************************************)
EXTENDS TargetTables

CONSTANTS
    AdhocNames,       \* names passed to create_target_description
    Caseless(_),      \* caseless_string: the lower-case form of a name
    PluginNames,      \* names pluginloader.get_plugin_class finds
    MaxAdhoc          \* bound on create_target_description calls

(* DefaultTargetDescriptor.get_descriptions names a description          *)
(* <platform>_<target> (line 773) and builds one per pair, so the default *)
(* names are distinct; TLC evaluates this on the tables of TargetTables.  *)
ASSUME DefaultNamesDistinct ==
    LET names == [i \in DOMAIN DefaultDescriptions |-> DefaultDescriptions[i].name]
    IN  names \in Seq(DefaultNames) /\ IsInjective(names)

VARIABLES
    adhoc,     \* _adhoc_target_descriptions: the names, in creation order
    last,      \* the outcome of the last call
    defaults   \* the names DefaultTargetDescriptor.get_descriptions returns

vars == <<adhoc, last, defaults>>

(* get_descriptions is a function of the static tables, so every call     *)
(* returns the same list: it is computed once, here.                       *)
Init ==
    /\ adhoc = << >>
    /\ last = [op |-> "none"]
    /\ defaults = [i \in DOMAIN DefaultDescriptions |-> DefaultDescriptions[i].name]

DefaultSet == {defaults[i] : i \in DOMAIN defaults}

(* Mutant: the duplicate check of lines 824-827 missing.                  *)
CreateNoDuplicateCheck(n) ==
    /\ Len(adhoc) < MaxAdhoc
    /\ adhoc' = Append(adhoc, n) /\ last' = [op |-> "create", out |-> "ok"]
    /\ UNCHANGED defaults

(* create_target_description, lines 822-843 (the caller's module path,    *)
(* the description's source, is left out).                                 *)
CreateTargetDescription(n) ==
    /\ Len(adhoc) < MaxAdhoc
    /\ IF \E i \in DOMAIN adhoc : Caseless(n) = Caseless(adhoc[i])
       THEN adhoc' = adhoc /\ last' = [op |-> "create", out |-> "ValueError"]
       ELSE adhoc' = Append(adhoc, n) /\ last' = [op |-> "create", out |-> "ok"]
    /\ UNCHANGED defaults

(* list_target_descriptions, lines 42-57: the descriptions of every       *)
(* descriptor the loader lists, in its order, keyed by name.               *)
(* SimpleTargetDescriptor (861-873) returns the ad hoc list.               *)
Merged(order) ==
    LET names(d) == IF d = "default" THEN defaults ELSE adhoc
    IN  names(order[1]) \o names(order[2])

(* Lines 48-52: a second description of a name makes the listing fail.   *)
ListingFails(order) ==
    \E i, j \in DOMAIN Merged(order) : i < j /\ Merged(order)[i] = Merged(order)[j]

(* What the failing check raises.  Each descriptor's list has distinct   *)
(* names, so the earlier description of the name comes from the first    *)
(* descriptor listed, and line 51 reads .name of its source: the          *)
(* DefaultTargetDescriptor (line 774), or for an ad hoc description the   *)
(* caller's module path, a str (lines 838-843), and the attribute lookup  *)
(* raises AttributeError before PluginLoaderError is built.               *)
ListingError(order) ==
    IF order[1] = "adhoc" THEN "AttributeError" ELSE "PluginLoaderError"

Listed(order) ==
    IF ListingFails(order) THEN ListingError(order) ELSE Merged(order)

DescriptorOrders == {<<"default", "adhoc">>, <<"adhoc", "default">>}

ListTargetDescriptions(order) ==
    /\ last' = [op |-> "list", out |-> Listed(order)]
    /\ UNCHANGED <<adhoc, defaults>>

(* get_target_description, lines 60-67: the first listed description of  *)
(* the name, ValueError if none, and listing's own error passed on.        *)
GetTargetDescription(n, order) ==
    LET l == Merged(order) IN
    /\ last' = [op |-> "get", arg |-> n,
                out |-> IF ListingFails(order) THEN ListingError(order)
                        ELSE IF \E i \in DOMAIN l : l[i] = n THEN "found"
                        ELSE "ValueError"]
    /\ UNCHANGED <<adhoc, defaults>>

(* ShowCommand.execute, show.py lines 53-79, with show's own               *)
(* get_target_description (99-107): "settings" (compared caselessly), then *)
(* a plugin of that name, then a target whose identifier is the name, else *)
(* NotFoundError.  identifier() leaves these names as they are.            *)
Show(n, order) ==
    LET l == Merged(order) IN
    /\ last' = [op |-> "show", arg |-> n,
                out |-> IF Caseless(n) = "settings" THEN "settings"
                        ELSE IF n \in PluginNames THEN "plugin"
                        ELSE IF ListingFails(order) THEN ListingError(order)
                        ELSE IF \E i \in DOMAIN l : l[i] = n THEN "target"
                        ELSE "NotFoundError"]
    /\ UNCHANGED <<adhoc, defaults>>

Next ==
    \/ \E n \in AdhocNames : CreateTargetDescription(n)
    \/ \E o \in DescriptorOrders :
          \/ ListTargetDescriptions(o)
          \/ \E n \in AdhocNames \cup DefaultSet :
                GetTargetDescription(n, o) \/ Show(n, o)

Spec == Init /\ [][Next]_vars

-----------------------------------------------------------------------------
(* Every target the program knows of can be shown: after any sequence of  *)
(* create_target_description calls (which refuse a name that already      *)
(* exists, lines 824-827), `wa show <name>` finds each default and each   *)
(* created description that is not a plugin or "settings".                 *)
ShowFindsTargets ==
    last.op = "show" /\ last.arg \notin PluginNames
        /\ Caseless(last.arg) # "settings"
        /\ (last.arg \in DefaultSet \/ \E i \in DOMAIN adhoc : adhoc[i] = last.arg)
        => last.out = "target"
=============================================================================
