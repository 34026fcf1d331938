---------------------------- MODULE Permissions ----------------------------
(***************************************************************************)
(* A set of permissions, as the library keeps it (include/permission.h: a  *)
(* big_uint, sent and read as a string) and as the cacheless library keeps *)
(* it (no_cache/permission.h: 64 bits, sent and read as a number), under   *)
(* the same calls.                                                         *)
(***************************************************************************)
EXTENDS BigUint

CONSTANT Operands \* the permissions that calls are made with

VARIABLES perm, \* permission::m_permission_bit_set
          flags, \* cacheless::permission::m_permission
          intact \* every removal so far was Removable

permissionVars == <<perm, flags, intact>>

\* The 64 bits of the cacheless library are two words.
Width == Radix * Radix

Value(a) == Number(a, Radix)

ASSUME PermissionsAssumption ==
    \A p \in Operands : p \in Seq(0 .. Ones) /\ Trim(p) = p /\ Value(p) < Width

-----------------------------------------------------------------------------
\* Mutants.
WithoutPlain(a, p) == BitAnd(a, Complement(p))

-----------------------------------------------------------------------------
With(a, p)    == BitOr(a, p)
Without(a, p) == AndMissingOnes(a, Complement(p))
Common(a, p)  == BitAnd(a, p)
Has(a, p)     == BitAnd(a, p) = p
HasInt(a, n)  == EqualsInt(BitAnd(a, FromInt(n)), n)

Flags(p)           == Value(p)
WithFlags(f, n)    == Or(f, n, 2 * WordBits)
WithoutFlags(f, n) == And(f, Width - 1 - n, 2 * WordBits)
CommonFlags(f, n)  == And(f, n, 2 * WordBits)
HasFlags(f, n)     == And(f, n, 2 * WordBits) = n

\* The complement of p is as long as p, less the last words that are all ones,
\* and the words it does not have count as ones: those of p are not removed, and
\* those that p has beyond the set are added, but for its bits.
Removable(a, p) == Len(Complement(p)) = Len(p) /\ Len(p) <= Len(a)

-----------------------------------------------------------------------------
AddPermissions(p) ==
    /\ perm' = With(perm, p)
    /\ flags' = WithFlags(flags, Flags(p))
    /\ UNCHANGED intact

RemovePermissions(p) ==
    /\ perm' = Without(perm, p)
    /\ flags' = WithoutFlags(flags, Flags(p))
    /\ intact' = (intact /\ Removable(perm, p))

Intersection(p) ==
    /\ perm' = Common(perm, p)
    /\ flags' = CommonFlags(flags, Flags(p))
    /\ UNCHANGED intact

\* combined_permissions with one overwrite: what it allows, less what it denies.
CombinedPermissions(allow, deny) ==
    /\ perm' = Without(With(perm, allow), deny)
    /\ flags' = WithoutFlags(WithFlags(flags, Flags(allow)), Flags(deny))
    /\ intact' = (intact /\ Removable(With(perm, allow), deny))

\* to_json, then from_json.
SendAndRead ==
    /\ perm' = Parse(StringOf(perm))
    /\ UNCHANGED <<flags, intact>>

PermissionsInit == perm = <<>> /\ flags = 0 /\ intact = TRUE

PermissionsNext ==
    \/ \E p \in Operands : AddPermissions(p) \/ RemovePermissions(p) \/ Intersection(p)
    \/ \E allow, deny \in Operands : CombinedPermissions(allow, deny)
    \/ SendAndRead

-----------------------------------------------------------------------------
\* PermissionsAgree. Whatever was added, removed and combined, no permission is
\* lost: what the cacheless library has, the other has too.  It has no more, and
\* answers has_permission alike, as long as what was removed was Removable.
PermissionsAgree ==
    /\ CommonFlags(Value(perm), flags) = flags
    /\ intact => Value(perm) = flags
    /\ \A p \in Operands :
         /\ HasFlags(flags, Flags(p)) => Has(perm, p) /\ HasInt(perm, Flags(p))
         /\ intact /\ (Has(perm, p) \/ HasInt(perm, Flags(p))) => HasFlags(flags, Flags(p))

=============================================================================
