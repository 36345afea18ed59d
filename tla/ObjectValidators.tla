-------------------------- MODULE ObjectValidators --------------------------
(***************************************************************************)
(* The validating webhooks of ResourceQuotas and LimitRanges.  They are    *)
(* one code twice: they let everybody do what they like with objects that  *)
(* are not managed, and service accounts, the operator's among them, do    *)
(* what they like with all.                                                *)
(***************************************************************************)
CONSTANTS
  NoLabel,     \* an object without the profile label
  EmptyLabel,  \* the profile label with an empty value
  Absent       \* no object

Requesters == {"user", "serviceaccount"}

IsManagedByQuotaProfile(o) == o.label \notin {NoLabel, EmptyLabel}

IsServiceAccount(requester) == requester = "serviceaccount"

ValidateCreate(requester, new) ==
  IsManagedByQuotaProfile(new) => IsServiceAccount(requester)

(* The old object is not looked at.                                        *)
ValidateUpdate(requester, old, new) ==
  IsManagedByQuotaProfile(new) => IsServiceAccount(requester)

ValidateDelete(requester, old) ==
  IsManagedByQuotaProfile(old) => IsServiceAccount(requester)

(* A request that turns old into new, of either kind.                      *)
Admitted(requester, old, new) ==
  \/ old = Absent /\ ValidateCreate(requester, new)
  \/ new = Absent /\ ValidateDelete(requester, old)
  \/ Absent \notin {old, new} /\ ValidateUpdate(requester, old, new)
=============================================================================
