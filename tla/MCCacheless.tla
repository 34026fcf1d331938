----------------------------- MODULE MCCacheless -----------------------------
(* The parts of the cacheless library that keep state of their own, and the  *)
(* objects that it reads and writes beside those of the cached library,      *)
(* checked one beside the other: in each behaviour one part runs and the     *)
(* others stay as they were initialised.                                     *)
EXTENDS CachelessHttp, CachelessGateway, Objects, AuditLog

CONSTANTS Unset, Seqs           \* of CachelessEvents

VARIABLES
    part,                       \* the part that runs
    seq, session, call          \* of CachelessEvents

Events == INSTANCE CachelessEvents

eventsVars == <<seq, session, call>>
partVars == <<part, vars, gatewayVars, eventsVars, objectVars, auditVars>>

PartsInit ==
    /\ part \in {"http", "gateway", "events", "objects", "audit"}
    /\ Init /\ GatewayInit /\ Events!Init /\ ObjectsInit /\ AuditInit
    /\ bucket[CHOOSE r \in Requests : TRUE] = CHOOSE b \in Buckets : TRUE     \* by symmetry
    /\ part # "http" => Cardinality(Range(bucket)) = 1
    /\ part # "objects" => form.name = "unavailable_guild"
    /\ part # "audit" => sent.key = "another"

HttpStep ==
    part = "http" /\ Next /\ UNCHANGED <<part, gatewayVars, eventsVars, objectVars, auditVars>>
GatewayStep ==
    part = "gateway" /\ GatewayNext /\ UNCHANGED <<part, vars, eventsVars, objectVars, auditVars>>
EventsStep ==
    part = "events" /\ Events!Next /\ UNCHANGED <<part, vars, gatewayVars, objectVars, auditVars>>
ObjectsStep ==
    /\ part = "objects" /\ ObjectsNext
    /\ UNCHANGED <<part, vars, gatewayVars, eventsVars, auditVars>>
AuditStep ==
    /\ part = "audit" /\ AuditNext
    /\ UNCHANGED <<part, vars, gatewayVars, eventsVars, objectVars>>

PartsNext == HttpStep \/ GatewayStep \/ EventsStep \/ ObjectsStep \/ AuditStep

(* The fairness of each part. *)
PartsSpec ==
    /\ PartsInit /\ [][PartsNext]_partVars
    /\ WF_vars(part = "http" /\ Tick) /\ WF_vars(part = "http" /\ Sending)
    /\ WF_vars(part = "http" /\ Releasing)
    /\ \A r \in Requests : WF_vars(part = "http" /\ Coroutine(r))
    /\ WF_gatewayVars(part = "gateway" /\ GatewayTick)
    /\ WF_gatewayVars(part = "gateway" /\ Runs)

(* Of CachelessEvents: callbacks get the payload of their event, filled.     *)
PayloadsFilled == Events!PayloadsFilled
=============================================================================
