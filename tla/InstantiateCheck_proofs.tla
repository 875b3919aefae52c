------------------------- MODULE InstantiateCheck_proofs -------------------------
(***************************************************************************)
(* Proofs about instantiate_target (TargetTables!Instantiate): it honours *)
(* the user's parameters for every description, not only the default ones *)
(* the tables produce, and every set of supplied and extra names.         *)
(***************************************************************************)
EXTENDS InstantiateCheck, TLAPS

(* What InstantiateHonoursParams asks of a result o of instantiate_target *)
(* for description d and supplied names given.                               *)
Honours(d, given, o) ==
    LET tm == ConfigPointMap(d.tparams)
        pm == ConfigPointMap(d.pparams)
    IN  /\ \A n \in given \cap DOMAIN tm :
              ~tm[n].dep => n \in DOMAIN o.tp /\ o.tp[n] = "user"
        /\ \A n \in (given \cap DOMAIN pm) \ DOMAIN tm :
              ~pm[n].dep => n \in DOMAIN o.platform /\ o.platform[n] = "user"
        /\ \A n \in DOMAIN tm \ given :
              tm[n].dflt /\ n = tm[n].name => n \in DOMAIN o.tp /\ o.tp[n] = "default"

(* instantiate_target, when it returns (raises neither ValueError nor     *)
(* RuntimeError), gives every supplied, non-deprecated target parameter   *)
(* the user's value, and every supplied platform parameter the target     *)
(* does not declare the user's value: an extra of the same name would     *)
(* have raised at lines 106-109.  A truthy target default stays wherever  *)
(* the user gave no value (lines 85-88 come before lines 90-104).          *)
LEMMA InstantiateHonours ==
    ASSUME NEW d, NEW given, NEW extras, NEW cnct,
           "err" \notin DOMAIN Instantiate(d, given, extras, cnct)
    PROVE  Honours(d, given, Instantiate(d, given, extras, cnct))
<1> DEFINE tm == ConfigPointMap(d.tparams)
           pm == ConfigPointMap(d.pparams)
           cm == ConfigPointMap(d.cparams)
           dflt(m) == [n \in {x \in DOMAIN m : m[x].dflt /\ x = m[x].name} |-> "default"]
           toT == {n \in given \cap DOMAIN tm : ~tm[n].dep}
           toP == {n \in (given \cap DOMAIN pm) \ DOMAIN tm : ~pm[n].dep}
           toC == {n \in (given \cap DOMAIN cm) \ (DOMAIN tm \cup DOMAIN pm) : ~cm[n].dep}
           pp == DictUnion([n \in toP |-> "user"], dflt(pm))
           cp == DictUnion([n \in toC |-> "user"], dflt(cm))
           tp == DictUnion([n \in toT |-> "user"], dflt(tm))
           plat == DictUnion([n \in extras |-> "extra"], pp)
<1>1. /\ given \ (DOMAIN tm \cup DOMAIN pm \cup DOMAIN cm \cup AssistantParams(d.assistant)) = {}
      /\ extras \cap DOMAIN pp = {}
      /\ Instantiate(d, given, extras, cnct)
           = [tp |-> tp, platform |-> plat, settings |-> cp, connCls |-> d.connection,
              connect |-> cnct]
  BY DEF Instantiate
<1>2. \A n \in given \cap DOMAIN tm : ~tm[n].dep => n \in DOMAIN tp /\ tp[n] = "user"
  BY DEF DictUnion
<1>3. \A n \in (given \cap DOMAIN pm) \ DOMAIN tm :
         ~pm[n].dep => n \in DOMAIN plat /\ plat[n] = "user"
  <2> SUFFICES ASSUME NEW n \in (given \cap DOMAIN pm) \ DOMAIN tm, ~pm[n].dep
               PROVE  n \in DOMAIN plat /\ plat[n] = "user"
    OBVIOUS
  <2>1. n \in DOMAIN pp /\ pp[n] = "user"
    BY DEF DictUnion
  <2>2. n \notin extras
    BY <1>1, <2>1
  <2> QED
    BY <2>1, <2>2 DEF DictUnion
<1>4. \A n \in DOMAIN tm \ given : tm[n].dflt /\ n = tm[n].name => n \in DOMAIN tp /\ tp[n] = "default"
  BY DEF DictUnion
<1>5. Instantiate(d, given, extras, cnct).tp = tp
      /\ Instantiate(d, given, extras, cnct).platform = plat
  BY <1>1
<1> QED
  BY <1>2, <1>3, <1>4, <1>5 DEF Honours

-----------------------------------------------------------------------------
(* The inductive invariant: until the call returns out is Pending, and    *)
(* then it is instantiate_target's result for the call Init chose.         *)
IInv ==
    out = Pending \/ out = Instantiate(DefaultDescriptions[desc], sup, ex, connect)

(* instantiate_target, for every description DefaultTargetDescriptor     *)
(* returns, every set of supplied and extra names and connect, gives the  *)
(* user's value to each supplied parameter the target or platform declares *)
(* and keeps a truthy default where nothing was supplied: the invariant    *)
(* InstantiateHonoursParams of run instantiate_tables, for all constants.  *)
THEOREM HonoursParamsHolds == Spec => []InstantiateHonoursParams
<1>1. Init => IInv
  BY DEF Init, IInv
<1>2. IInv /\ [Evaluate]_vars => IInv'
  BY DEF IInv, Evaluate, vars
<1>3. IInv => InstantiateHonoursParams
  <2> SUFFICES ASSUME IInv, out # Pending, "err" \notin DOMAIN out
               PROVE  Honours(DefaultDescriptions[desc], sup, out)
    BY DEF InstantiateHonoursParams, Honours
  <2>1. out = Instantiate(DefaultDescriptions[desc], sup, ex, connect)
    BY DEF IInv
  <2> QED
    BY <2>1, InstantiateHonours
<1> QED
  BY <1>1, <1>2, <1>3, PTL DEF Spec

=============================================================================
