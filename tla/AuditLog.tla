------------------------------ MODULE AuditLog ------------------------------
(***************************************************************************)
(* One change of an entry of the audit log: Discord builds it up, a key    *)
(* and then the values before and after, and both libraries read it.       *)
(***************************************************************************)
EXTENDS AuditForms

VARIABLES sent,  \* the change in JSON
          told,  \* audit_log_change, and whether its from_json threw
          toldNc \* of the cacheless library

auditVars == <<sent, told, toldNc>>

Keywords == UNION {KeysOfType[t] : t \in DOMAIN KeysOfType} \cup {"another"}
Kinds == {"null", "number", "text", "bool", "list", "object"}

Nothing(key) == [key |-> key, old |-> Gone, new |-> Gone]

Reads(c) == sent' = c /\ told' = Change(c) /\ toldNc' = ChangeNc(c)

Gives(side, kind, v) ==
    /\ sent[side] = Gone
    /\ Reads([sent EXCEPT ![side] = IF kind = "null" THEN Null ELSE Value(kind, <<v>>)])

AuditInit ==
    \E key \in Keywords :
        /\ sent = Nothing(key)
        /\ told = Change(Nothing(key)) /\ toldNc = ChangeNc(Nothing(key))

AuditNext == \E kind \in Kinds : Gives("old", kind, 1) \/ Gives("new", kind, 2)

-----------------------------------------------------------------------------
\* The key "type" with a value that is missing, which no getter gives; and with
\* one that is neither a string nor a number, told as missing.
Untold(side) == sent.key = "type" /\ sent[side].kind \notin {"text", "number"}

Threw(change) == Thrown \in {change.old, change.new}

\* ChangesAreTold. Whatever the key of a change of the audit log and whichever of
\* its values are missing or null, the getters that fit its type tell what
\* Discord sent and do not throw, and a value that was not sent is told as
\* missing; Untold lists the exceptions.
ChangesAreTold ==
    /\ told.type # "unknown" /\ ~ Threw(told) =>
         \A side \in {"old", "new"} :
            LET value == Getter(told, side)
            IN  Untold(side) \/ /\ value # Thrown
                                /\ value.v = sent[side].v
                                /\ value.has => sent[side].kind # "gone"
    /\ \A side \in {"old", "new"} : GetterNc(toldNc, side) = Getter(told, side)

=============================================================================
